---------------------------- MODULE DealTxnProofs ----------------------------
(***************************************************************************)
(* Proofs about DealTxn, for any number of sessions, sweep loops, deals,   *)
(* requests and days, every interleaving of their statements included:     *)
(* what holds of any crowd; what one user can rely on beside the sweeps;   *)
(* that a session which is alone takes the steps of Exclusivity; and, from *)
(* those, the properties of MCDealTxn.                                     *)
(***************************************************************************)
EXTENDS MCDealTxn, FiniteSetTheorems, WellFoundedInduction, TLAPS

-----------------------------------------------------------------------------
(* The inductive invariant. *)

Types ==
    /\ today \in 1 .. MaxDay
    /\ deals \in [Deal -> DealRow]
    /\ requests \in [Request -> RequestRow]
    /\ rows \in [RowId -> OwnershipRow \cup {None}]
    /\ nextRow \in 1 .. MaxRow + 1
    /\ earned \subseteq Deal
    /\ notices \in [Deal -> Nat]
    /\ txn \in [Session -> Txn \cup {Idle}]

(* What an open transaction is about, and what it had to find to begin.    *)
Arguments(s, t) ==
    /\ t.kind \in {"create", "approve", "reject", "request", "grant", "refuse"}
          => t.deal \in Deal
    /\ t.kind \in {"request", "grant", "refuse"} =>
          t.request \in Request /\ deals[t.deal].start # NoDay
    /\ t.kind \in {"grant", "refuse"} => requests[t.request].status # "absent"
    /\ t.kind \in {"approve", "reject"} => deals[t.deal].status # "absent"
    /\ t.kind = "create" => t.company \in Company /\ t.name \in Name
    /\ t.kind = "approve" => t.days \in WindowDays
    /\ t.kind = "grant" => t.saw[t.deal].start # NoDay
    /\ t.kind = "sweep" => s \in Sweeper

(* The row that a session is inserting is nobody else's business.          *)
Inserting(s) ==
    txn[s].kind = "create" =>
        /\ deals[txn[s].deal].status = "absent"
        /\ \A o \in Session \ {s} : txn[o].deal # txn[s].deal

(* A window has a start from the approval on, and ends after it; nothing   *)
(* asks for more of a window that never was.                               *)
Windows ==
    /\ \A d \in Deal :
          /\ deals[d].status # "absent" =>
                deals[d].company \in Company /\ deals[d].name \in Name
          /\ IF deals[d].start = NoDay
             THEN deals[d].status \in {"absent", "pending", "rejected"}
             ELSE /\ deals[d].status \notin {"absent", "pending"}
                  /\ deals[d].start < deals[d].end
    /\ \A q \in Request :
          requests[q].status # "absent" =>
              requests[q].deal \in Deal /\ deals[requests[q].deal].start # NoDay

(* The start of a window, once written, stays: what a session read of it   *)
(* is still so.  An approval in flight can only write today.               *)
Snapshots ==
    /\ \A s \in Session, d \in Deal :
          txn[s].saw[d].start # NoDay =>
              /\ txn[s].saw[d].start = deals[d].start
              /\ txn[s].saw[d].start < txn[s].saw[d].end
    /\ \A s \in Session, d \in Deal :
          txn[s].saw[d].status # "absent" => txn[s].saw[d].start # NoDay
    /\ \A s \in Session :
          txn[s].kind = "approve" =>
              deals[txn[s].deal].start \in {NoDay, today}

(* The sessions that are about to tell of the lapse of d.                  *)
Tellers(d) == {s \in Sweeper : Lapsed(txn[s].saw[d], today)}

(* Once one has, the deal is closed for good, and every sweep that is left *)
(* to tell of it read the deal before.                                     *)
ToldByEachOnce ==
    \A d \in Deal :
        notices[d] > 0 =>
            /\ deals[d].status \in {"expired", "rejected"}
            /\ \A s \in Session :
                  ~(txn[s].kind = "approve" /\ txn[s].deal = d)
            /\ notices[d] + Cardinality(Tellers(d)) <= Cardinality(Sweeper)

(* Two transactions that have both flushed hold different rows.            *)
LocksExclude ==
    \A s, o \in Session :
        (s # o /\ txn[s].at = "written" /\ txn[o].at = "written") =>
            /\ DealsWritten(txn[s]) \cap DealsWritten(txn[o]) = {}
            /\ RequestsWritten(txn[s]) \cap RequestsWritten(txn[o]) = {}

IInv ==
    /\ Types
    /\ \A s \in Session : Arguments(s, txn[s]) /\ Inserting(s)
    /\ Windows
    /\ Snapshots
    /\ ToldByEachOnce
    /\ LocksExclude
    /\ OneOpenRequest
    /\ NoDuplicateCommission

-----------------------------------------------------------------------------
(* Rows and numbers. *)

LEMMA DayTypes ==
    /\ WindowDays \subseteq Nat \ {0}
    /\ ExtensionDays \subseteq Nat \ {0}
    /\ MaxDay \in Nat \ {0} /\ 1 .. MaxDay \subseteq Nat \ {0}
    /\ MaxRow \in Nat /\ RowId \subseteq Nat
    /\ NoDay = 0
  <1>1. WindowDays \subseteq Nat \ {0}
    BY DaysAssumption
  <1>2. ExtensionDays \subseteq Nat \ {0}
    BY DaysAssumption
  <1> QED
    BY <1>1, <1>2, ServerAssumption DEF NoDay, RowId

(* A session with nothing open has read nothing and asks for nothing.      *)
LEMMA IdleFacts ==
    /\ Idle.kind = "idle" /\ Idle.at = "read" /\ Idle.deal = None
    /\ Idle.request = None /\ Idle.days = 0
    /\ Idle.company = None /\ Idle.name = None
    /\ Idle.mine = {} /\ Idle.paid = FALSE
    /\ \A d \in Deal : Idle.saw[d] = NoDeal
    /\ NoDeal.status = "absent" /\ NoDeal.start = NoDay /\ NoDeal.end = NoDay
    /\ NoDeal \in DealRow
  BY DEF Idle, NoDeal, NoDay, DealRow, DealStatus

LEMMA SweeperFinite ==
    ASSUME NEW S, S \subseteq Sweeper
    PROVE  IsFiniteSet(S) /\ Cardinality(S) \in Nat
           /\ Cardinality(S) <= Cardinality(Sweeper)
           /\ Cardinality(Sweeper) \in Nat
  BY ServerAssumption, FS_Subset, FS_CardinalityType

-----------------------------------------------------------------------------
(* The steps that leave the tables alone. *)

(* An empty database satisfies the invariant.                              *)
LEMMA InitIInv ==
    ASSUME Init PROVE IInv
  <1>1. \A s \in Session : txn[s] = Idle
    BY DEF Init
  <1>2. \A d \in Deal : deals[d] = NoDeal
    BY DEF Init
  <1>3. \A q \in Request : requests[q] = NoRequest
    BY DEF Init
  <1>4. Types
    <2>1. NoRequest \in RequestRow
      BY DEF NoRequest, RequestRow, RequestStatus
    <2> QED
      BY <2>1, DayTypes, IdleFacts DEF Init, Types
  <1>5. \A s \in Session : Arguments(s, txn[s]) /\ Inserting(s)
    BY <1>1, IdleFacts DEF Arguments, Inserting
  <1>6. Windows
    BY <1>2, <1>3, IdleFacts DEF Windows, NoRequest
  <1>7. Snapshots
    BY <1>1, IdleFacts DEF Snapshots
  <1>8. ToldByEachOnce
    BY DEF Init, ToldByEachOnce
  <1>9. LocksExclude
    BY <1>1, IdleFacts DEF LocksExclude
  <1>10. OneOpenRequest
    BY <1>3 DEF OneOpenRequest, NoRequest
  <1>11. NoDuplicateCommission
    BY <1>1, IdleFacts DEF NoDuplicateCommission
  <1> QED
    BY <1>4, <1>5, <1>6, <1>7, <1>8, <1>9, <1>10, <1>11 DEF IInv

(* What a session may begin with: the deals it has read are as they are,   *)
(* an approval is of a pending deal, and nobody is inserting its row.      *)
LEMMA BeginStep ==
    ASSUME IInv, NEW s \in Session, NEW t \in Txn, Begin(s, t),
           t.at = "read", Arguments(s, t),
           t.kind = "create" => /\ deals[t.deal].status = "absent"
                                /\ \A o \in Session \ {s} : txn[o].deal # t.deal,
           t.kind # "create" /\ t.deal \in Deal => deals[t.deal].status # "absent",
           t.kind = "approve" => deals[t.deal].status = "pending",
           \A d \in Deal : \/ t.saw[d] = NoDeal
                           \/ t.saw[d] = deals[d] /\ deals[d].start # NoDay
    PROVE  IInv'
  <1>1. /\ UNCHANGED <<today, deals, requests, rows, nextRow, earned, notices>>
        /\ txn' = [txn EXCEPT ![s] = t]
    BY DEF Begin, tables
  <1>2. /\ txn \in [Session -> Txn \cup {Idle}]
        /\ txn' \in [Session -> Txn \cup {Idle}]
        /\ txn'[s] = t
        /\ \A o \in Session \ {s} : txn'[o] = txn[o]
    BY <1>1 DEF IInv, Types
  <1>3. Types'
    BY <1>1, <1>2 DEF IInv, Types
  <1>4. \A o \in Session : Arguments(o, txn[o])' /\ Inserting(o)'
    <2>1. ASSUME NEW o \in Session PROVE Arguments(o, txn[o])'
      BY <1>1, <1>2 DEF IInv, Arguments
    <2>2. ASSUME NEW o \in Session PROVE Inserting(o)'
      <3>1. CASE o = s
        BY <1>1, <1>2, <3>1 DEF Inserting
      <3>2. CASE o # s
        <4>1. txn[o].kind = "create" =>
                 txn[o].deal \in Deal /\ deals[txn[o].deal].status = "absent"
                 /\ \A p \in Session \ {o} : txn[p].deal # txn[o].deal
          BY DEF IInv, Inserting, Arguments
        <4>2. txn[o].kind = "create" => t.deal # txn[o].deal
          BY <3>2, <4>1
        <4> QED
          BY <1>1, <1>2, <3>2, <4>1, <4>2 DEF Inserting
      <3> QED
        BY <3>1, <3>2
    <2> QED
      BY <2>1, <2>2
  <1>5. Windows'
    BY <1>1 DEF IInv, Windows
  <1>6. Snapshots'
    <2>1. ASSUME NEW d \in Deal
          PROVE  /\ t.saw[d].start # NoDay =>
                       t.saw[d].start = deals[d].start
                       /\ t.saw[d].start < t.saw[d].end
                 /\ t.saw[d].status # "absent" => t.saw[d].start # NoDay
      BY IdleFacts DEF IInv, Windows
    <2>2. t.kind = "approve" => deals[t.deal].start = NoDay
      BY DEF IInv, Windows, Arguments
    <2> QED
      BY <1>1, <1>2, <2>1, <2>2 DEF IInv, Snapshots
  <1>7. ToldByEachOnce'
    <2> SUFFICES ASSUME NEW d \in Deal, notices[d] > 0
                 PROVE  /\ deals[d].status \in {"expired", "rejected"}
                        /\ \A o \in Session :
                              ~(txn'[o].kind = "approve" /\ txn'[o].deal = d)
                        /\ notices[d] + Cardinality(Tellers(d)')
                              <= Cardinality(Sweeper)
      BY <1>1 DEF ToldByEachOnce
    <2>1. /\ deals[d].status \in {"expired", "rejected"}
          /\ \A o \in Session : ~(txn[o].kind = "approve" /\ txn[o].deal = d)
          /\ notices[d] + Cardinality(Tellers(d)) <= Cardinality(Sweeper)
      BY DEF IInv, ToldByEachOnce
    <2>2. ~Lapsed(t.saw[d], today)
      BY <2>1, IdleFacts DEF Lapsed
    <2>3. ~Lapsed(txn[s].saw[d], today)
      <3>1. txn[s] = Idle
        BY DEF Begin, Open, IInv, Types, Txn, Kind
      <3> QED
        BY <3>1, IdleFacts DEF Lapsed
    <2>4. Tellers(d)' = Tellers(d)
      BY <1>1, <1>2, <2>2, <2>3 DEF Tellers, Session
    <2> QED
      BY <1>2, <2>1, <2>4
  <1>8. LocksExclude'
    BY <1>1, <1>2 DEF IInv, LocksExclude, DealsWritten, RequestsWritten
  <1>9. OneOpenRequest' /\ NoDuplicateCommission'
    BY <1>1, <1>2 DEF IInv, OneOpenRequest, NoDuplicateCommission
  <1> QED
    BY <1>3, <1>4, <1>5, <1>6, <1>7, <1>8, <1>9 DEF IInv

(* A flush that found the rows it updates free holds them from then on.    *)
LEMMA WriteStep ==
    ASSUME IInv, NEW s \in Session, Unlocked(s),
           txn[s].kind \in {"approve", "grant", "sweep"},
           NEW ids \in SUBSET (RowId \X OwnershipRow), NEW paid \in BOOLEAN,
           txn[s].kind = "approve" => paid = (txn[s].deal \in earned),
           txn' = [txn EXCEPT ![s] =
                     [txn[s] EXCEPT !.at = "written", !.mine = ids, !.paid = paid]],
           UNCHANGED <<today, tables>>
    PROVE  IInv'
  <1> DEFINE t == txn[s]
             new == [t EXCEPT !.at = "written", !.mine = ids, !.paid = paid]
  <1>1. UNCHANGED <<today, deals, requests, rows, nextRow, earned, notices>>
    BY DEF tables
  <1>2. t \in Txn
    BY IdleFacts DEF IInv, Types
  <1>3. /\ new \in Txn
        /\ new.kind = t.kind /\ new.deal = t.deal /\ new.request = t.request
        /\ new.days = t.days /\ new.company = t.company /\ new.name = t.name
        /\ new.saw = t.saw /\ new.at = "written" /\ new.paid = paid
    BY <1>2 DEF Txn
  <1>4. /\ txn' \in [Session -> Txn \cup {Idle}]
        /\ txn'[s] = new
        /\ \A o \in Session \ {s} : txn'[o] = txn[o]
    BY <1>3 DEF IInv, Types
  <1> HIDE DEF new
  <1>5. Types'
    BY <1>1, <1>4 DEF IInv, Types
  <1>6. \A o \in Session : Arguments(o, txn[o])' /\ Inserting(o)'
    <2>1. ASSUME NEW o \in Session PROVE Arguments(o, txn[o])'
      BY <1>1, <1>3, <1>4 DEF IInv, Arguments
    <2>2. ASSUME NEW o \in Session PROVE Inserting(o)'
      BY <1>1, <1>3, <1>4 DEF IInv, Inserting
    <2> QED
      BY <2>1, <2>2
  <1>7. Windows'
    BY <1>1 DEF IInv, Windows
  <1>8. Snapshots'
    BY <1>1, <1>3, <1>4 DEF IInv, Snapshots
  <1>9. ToldByEachOnce'
    <2>1. ASSUME NEW d \in Deal PROVE Tellers(d)' = Tellers(d)
      BY <1>1, <1>3, <1>4 DEF Tellers, Session
    <2>2. ASSUME NEW d \in Deal, NEW o \in Session,
                 txn'[o].kind = "approve" /\ txn'[o].deal = d
          PROVE  txn[o].kind = "approve" /\ txn[o].deal = d
      BY <1>3, <1>4, <2>2
    <2> QED
      BY <1>1, <2>1, <2>2 DEF IInv, ToldByEachOnce
  <1>10. LocksExclude'
    <2>1. ASSUME NEW o \in Session \ {s}, txn[o].at = "written"
          PROVE  /\ DealsWritten(txn[o]) \cap DealsWritten(t) = {}
                 /\ RequestsWritten(txn[o]) \cap RequestsWritten(t) = {}
      BY <2>1, IdleFacts DEF Unlocked, Others, Open, IInv, Types, Txn, Kind
    <2>2. /\ txn'[s].kind = t.kind /\ txn'[s].deal = t.deal
          /\ txn'[s].request = t.request /\ txn'[s].saw = t.saw
      BY <1>3, <1>4
    <2>3. ASSUME NEW o \in Session
          PROVE  /\ DealsWritten(txn[o])' = DealsWritten(txn[o])
                 /\ RequestsWritten(txn[o])' = RequestsWritten(txn[o])
      <3>1. /\ txn'[o].kind = txn[o].kind /\ txn'[o].deal = txn[o].deal
            /\ txn'[o].request = txn[o].request /\ txn'[o].saw = txn[o].saw
        BY <1>4, <2>2
      <3> QED
        BY <1>1, <3>1 DEF DealsWritten, RequestsWritten
    <2>4. \A o \in Session \ {s} : txn'[o].at = txn[o].at
      BY <1>4
    <2> SUFFICES ASSUME NEW o \in Session, NEW p \in Session, o # p,
                        txn'[o].at = "written", txn'[p].at = "written"
                 PROVE  /\ DealsWritten(txn[o]) \cap DealsWritten(txn[p]) = {}
                        /\ RequestsWritten(txn[o]) \cap RequestsWritten(txn[p]) = {}
      BY <2>3 DEF LocksExclude
    <2>5. CASE o # s /\ p # s
      BY <2>4, <2>5 DEF IInv, LocksExclude
    <2>6. CASE o = s
      BY <2>1, <2>4, <2>6
    <2>7. CASE p = s
      BY <2>1, <2>4, <2>7
    <2> QED
      BY <2>5, <2>6, <2>7
  <1>11. OneOpenRequest'
    BY <1>1 DEF IInv, OneOpenRequest
  <1>12. NoDuplicateCommission'
    BY <1>1, <1>3, <1>4 DEF IInv, NoDuplicateCommission
  <1> QED
    BY <1>5, <1>6, <1>7, <1>8, <1>9, <1>10, <1>11, <1>12 DEF IInv

(* Nothing is open when the day passes, so nothing was read on another.    *)
LEMMA DayStep ==
    ASSUME IInv, DayPasses PROVE IInv'
  <1>1. /\ UNCHANGED <<deals, requests, rows, nextRow, earned, notices, txn>>
        /\ today' \in 1 .. MaxDay
    BY DayTypes DEF DayPasses, tables, IInv, Types
  <1>2. \A s \in Session : txn[s] = Idle
    BY DEF DayPasses, Open, IInv, Types, Txn, Kind
  <1>3. Types'
    BY <1>1 DEF IInv, Types
  <1>4. \A s \in Session : Arguments(s, txn[s])' /\ Inserting(s)'
    BY <1>1, <1>2, IdleFacts DEF Arguments, Inserting
  <1>5. Windows' /\ OneOpenRequest'
    BY <1>1 DEF IInv, Windows, OneOpenRequest
  <1>6. Snapshots' /\ LocksExclude' /\ NoDuplicateCommission'
    BY <1>1, <1>2, IdleFacts DEF Snapshots, LocksExclude, NoDuplicateCommission
  <1>7. ToldByEachOnce'
    <2>1. ASSUME NEW d \in Deal PROVE Tellers(d)' = Tellers(d)
      BY <1>1, <1>2, IdleFacts DEF Tellers, Lapsed, Session
    <2> QED
      BY <1>1, <2>1 DEF IInv, ToldByEachOnce
  <1> QED
    BY <1>3, <1>4, <1>5, <1>6, <1>7 DEF IInv

-----------------------------------------------------------------------------
(* The end of a transaction. *)

(* Whoever ends leaves the sessions that have a lapse to tell of.          *)
LEMMA TellersLeft ==
    ASSUME IInv, NEW s \in Session, End(s), today' = today, NEW d \in Deal
    PROVE  /\ Tellers(d)' = Tellers(d) \ {s}
           /\ Cardinality(Tellers(d)) \in Nat
           /\ Cardinality(Tellers(d)') \in Nat
           /\ Cardinality(Tellers(d)) <= Cardinality(Sweeper)
           /\ Cardinality(Tellers(d)') =
                 IF s \in Tellers(d) THEN Cardinality(Tellers(d)) - 1
                                     ELSE Cardinality(Tellers(d))
  <1>1. txn'[s] = Idle /\ \A o \in Session \ {s} : txn'[o] = txn[o]
    BY DEF End, IInv, Types
  <1>2. Tellers(d)' = Tellers(d) \ {s}
    BY <1>1, IdleFacts DEF Tellers, Lapsed, Session
  <1>3. Tellers(d) \subseteq Sweeper
    BY DEF Tellers
  <1>4. IsFiniteSet(Tellers(d))
    BY <1>3, SweeperFinite
  <1>5. Cardinality(Tellers(d) \ {s}) =
           IF s \in Tellers(d) THEN Cardinality(Tellers(d)) - 1
                               ELSE Cardinality(Tellers(d))
    BY <1>4, FS_RemoveElement
  <1>6. Cardinality(Tellers(d) \ {s}) \in Nat
    <2>1. Tellers(d) \ {s} \subseteq Sweeper
      BY <1>3
    <2> QED
      BY <2>1, SweeperFinite
  <1> QED
    BY <1>2, <1>3, <1>5, <1>6, SweeperFinite

(* What is told of does not change when a transaction that is no sweep     *)
(* ends, if the deals that are closed stay so.                             *)
LEMMA NothingTold ==
    ASSUME IInv, NEW s \in Session, End(s), today' = today, notices' = notices,
           \A d \in Deal :
              notices[d] > 0 => deals'[d].status \in {"expired", "rejected"}
    PROVE  ToldByEachOnce'
  <1> SUFFICES ASSUME NEW d \in Deal, notices[d] > 0
               PROVE  /\ \A o \in Session :
                            ~(txn'[o].kind = "approve" /\ txn'[o].deal = d)
                      /\ notices[d] + Cardinality(Tellers(d)')
                            <= Cardinality(Sweeper)
    BY DEF ToldByEachOnce
  <1>1. /\ \A o \in Session : ~(txn[o].kind = "approve" /\ txn[o].deal = d)
        /\ notices[d] + Cardinality(Tellers(d)) <= Cardinality(Sweeper)
    BY DEF IInv, ToldByEachOnce
  <1>2. txn'[s] = Idle /\ \A o \in Session \ {s} : txn'[o] = txn[o]
    BY DEF End, IInv, Types
  <1>3. notices[d] \in Nat /\ Cardinality(Sweeper) \in Nat
    BY SweeperFinite DEF IInv, Types
  <1> QED
    BY <1>1, <1>2, <1>3, TellersLeft, IdleFacts

(* A transaction may end with any change of the tables that keeps what the *)
(* other open ones rely on.                                                *)
LEMMA EndStep ==
    ASSUME IInv, NEW s \in Session, End(s), today' = today,
           deals' \in [Deal -> DealRow],
           requests' \in [Request -> RequestRow],
           rows' \in [RowId -> OwnershipRow \cup {None}],
           nextRow' \in 1 .. MaxRow + 1,
           notices' \in [Deal -> Nat],
           Windows', ToldByEachOnce', OneOpenRequest',
           \A d \in Deal : IF deals[d].start = NoDay
                           THEN deals'[d].start \in {NoDay, today}
                           ELSE deals'[d].start = deals[d].start,
           \A q \in Request :
              requests[q].status # "absent" => requests'[q].status # "absent",
           \A d \in Deal : (deals'[d].status = "absent") =
                              (deals[d].status = "absent" /\ ~(txn[s].kind = "create"
                                                               /\ txn[s].deal = d
                                                               /\ deals' # deals)),
           \/ earned' = earned
           \/ /\ txn[s].kind = "approve" /\ txn[s].at = "written"
              /\ earned' = earned \cup {txn[s].deal}
    PROVE  IInv'
  <1>1. /\ txn' \in [Session -> Txn \cup {Idle}]
        /\ txn'[s] = Idle
        /\ \A o \in Session \ {s} : txn'[o] = txn[o]
    BY DEF End, IInv, Types
  <1>2. Types'
    BY <1>1, IdleFacts DEF IInv, Types, Arguments
  <1>3. ASSUME NEW o \in Session PROVE Arguments(o, txn[o])' /\ Inserting(o)'
    <2>1. CASE o = s
      BY <1>1, <2>1, IdleFacts DEF Arguments, Inserting
    <2>2. CASE o # s
      <3>1. txn'[o] = txn[o] /\ Arguments(o, txn[o]) /\ Inserting(o)
        BY <1>1, <2>2 DEF IInv
      <3>2. Arguments(o, txn[o])'
        <4>1. 0 < today /\ NoDay = 0
          BY DayTypes DEF IInv, Types
        <4> QED
          BY <3>1, <4>1 DEF Arguments
      <3>3. Inserting(o)'
        <4> SUFFICES ASSUME txn[o].kind = "create"
                     PROVE  /\ deals'[txn[o].deal].status = "absent"
                            /\ \A p \in Session \ {o} : txn'[p].deal # txn[o].deal
          BY <3>1 DEF Inserting
        <4>1. /\ txn[o].deal \in Deal /\ deals[txn[o].deal].status = "absent"
              /\ \A p \in Session \ {o} : txn[p].deal # txn[o].deal
          BY <3>1 DEF Inserting, Arguments
        <4>2. txn[o].deal # None
          BY <4>1, NullAssumption
        <4> QED
          BY <1>1, <2>2, <4>1, <4>2, IdleFacts
      <3> QED
        BY <3>2, <3>3
    <2> QED
      BY <2>1, <2>2
  <1>4. Snapshots'
    <2>1. NoDay = 0 /\ today \in Nat /\ today # NoDay
      BY DayTypes DEF IInv, Types
    <2>2. ASSUME NEW o \in Session, txn[o].kind = "approve" PROVE txn[o].deal \in Deal
      BY <2>2 DEF IInv, Arguments
    <2>3. ASSUME NEW o \in Session, NEW d \in Deal
          PROVE  /\ txn'[o].saw[d].start # NoDay =>
                       /\ txn'[o].saw[d].start = deals'[d].start
                       /\ txn'[o].saw[d].start < txn'[o].saw[d].end
                 /\ txn'[o].saw[d].status # "absent" => txn'[o].saw[d].start # NoDay
      BY <1>1, <2>1, IdleFacts DEF IInv, Snapshots
    <2>4. ASSUME NEW o \in Session, txn'[o].kind = "approve"
          PROVE  deals'[txn'[o].deal].start \in {NoDay, today}
      BY <1>1, <2>2, <2>4, IdleFacts DEF IInv, Snapshots
    <2> QED
      BY <2>3, <2>4 DEF Snapshots
  <1>5. LocksExclude'
    <2>1. ASSUME NEW o \in Session \ {s}
          PROVE  /\ DealsWritten(txn[o])' = DealsWritten(txn[o])
                 /\ RequestsWritten(txn[o])' = RequestsWritten(txn[o])
                 /\ txn'[o].at = txn[o].at
      BY <1>1 DEF DealsWritten, RequestsWritten
    <2>2. txn'[s].at # "written"
      BY <1>1, IdleFacts
    <2> QED
      BY <2>1, <2>2 DEF IInv, LocksExclude
  <1>6. NoDuplicateCommission'
    <2> SUFFICES ASSUME NEW o \in Session,
                        txn'[o].kind = "approve" /\ txn'[o].at = "written"
                            /\ ~txn'[o].paid
                 PROVE  txn'[o].deal \notin earned'
      BY DEF NoDuplicateCommission
    <2>1. o # s /\ txn'[o] = txn[o]
      BY <1>1, IdleFacts
    <2>2. txn[o].deal \notin earned
      BY <2>1 DEF IInv, NoDuplicateCommission
    <2>3. txn[s].kind = "approve" /\ txn[s].at = "written" => txn[s].deal # txn[o].deal
      BY <2>1 DEF IInv, LocksExclude, DealsWritten
    <2> QED
      BY <2>1, <2>2, <2>3
  <1> QED
    BY <1>2, <1>3, <1>4, <1>5, <1>6 DEF IInv

LEMMA RollbackStep ==
    ASSUME IInv, NEW s \in Session, Rollback(s) PROVE IInv'
  <1>1. /\ UNCHANGED <<today, deals, requests, rows, nextRow, earned, notices>>
        /\ End(s)
    BY DEF Rollback, tables
  <1>2. Windows' /\ OneOpenRequest'
    BY <1>1 DEF IInv, Windows, OneOpenRequest
  <1>3. ToldByEachOnce'
    BY <1>1, NothingTold DEF IInv, ToldByEachOnce
  <1> QED
    BY <1>1, <1>2, <1>3, EndStep DEF IInv, Types

-----------------------------------------------------------------------------
(* What the handlers make of a row. *)

LEMMA RegisteredRow ==
    ASSUME NEW c \in Company, NEW n \in Name
    PROVE  LET new == Registered(c, n)
           IN  /\ new \in DealRow /\ new.status = "pending"
               /\ new.company = c /\ new.name = n
               /\ new.start = NoDay /\ new.end = NoDay
  BY DEF Registered, NoDeal, NoDay, DealRow, DealStatus

LEMMA ApprovedRow ==
    ASSUME NEW row \in DealRow, NEW days \in Nat, NEW day \in Nat
    PROVE  LET new == Approved(row, days, day)
           IN  /\ new \in DealRow /\ new.status = "approved"
               /\ new.company = row.company /\ new.name = row.name
               /\ new.start = day /\ new.end = day + days
  <1>1. day + days \in Nat
    OBVIOUS
  <1> QED
    BY <1>1 DEF Approved, DealRow, DealStatus

LEMMA RejectedRow ==
    ASSUME NEW row \in DealRow
    PROVE  LET new == Rejected(row)
           IN  /\ new \in DealRow /\ new.status = "rejected"
               /\ new.company = row.company /\ new.name = row.name
               /\ new.start = row.start /\ new.end = row.end
  BY DEF Rejected, DealRow, DealStatus

LEMMA ExtendedRow ==
    ASSUME NEW row \in DealRow, NEW seen \in DealRow, NEW days \in Nat
    PROVE  LET new == ExtendedOver(row, seen, days)
           IN  /\ new \in DealRow /\ new.status = row.status
               /\ new.company = row.company /\ new.name = row.name
               /\ new.start = row.start /\ new.end = seen.end + days
  <1>1. seen.end + days \in Nat
    BY DEF DealRow
  <1> QED
    BY <1>1 DEF ExtendedOver, DealRow

LEMMA SweptRow ==
    ASSUME NEW row \in DealRow, NEW seen \in DealRow
    PROVE  LET new == SweptOver(row, seen)
           IN  /\ new \in DealRow
               /\ new.status = IF Lapsed(seen, today) THEN "expired" ELSE row.status
               /\ new.company = row.company /\ new.name = row.name
               /\ new.start = row.start /\ new.end = row.end
  <1>1. CASE Lapsed(seen, today)
    BY <1>1 DEF SweptOver, DealRow, DealStatus
  <1>2. CASE ~Lapsed(seen, today) /\ WarningDue(seen, today)
    BY <1>2 DEF SweptOver, DealRow, DealStatus
  <1>3. CASE ~Lapsed(seen, today) /\ ~WarningDue(seen, today)
    BY <1>3 DEF SweptOver
  <1> QED
    BY <1>1, <1>2, <1>3

(* The upsert leaves ownership rows behind, whatever was committed since   *)
(* it looked for them.                                                     *)
LEMMA UpsertTypes ==
    ASSUME Types, NEW t \in Txn, t.deal \in Deal, NEW deal \in DealRow,
           deal.company \in Company, deal.name \in Name, CommitUpsert(t, deal)
    PROVE  /\ rows' \in [RowId -> OwnershipRow \cup {None}]
           /\ nextRow' \in 1 .. MaxRow + 1
  <1>1. CASE Norm[deal.name] = Blank
    BY <1>1 DEF CommitUpsert, Types
  <1>2. CASE Norm[deal.name] # Blank /\ t.mine = {}
    <2>1. OwnershipFrom(t.deal, deal, CountryOf[deal.company]) \in OwnershipRow
      <3>1. /\ Norm[deal.name] \in Customer
            /\ CountryOf[deal.company] \in Country /\ deal.end \in Nat
        BY <1>2, NormAssumption, CountryOfAssumption DEF DealRow
      <3> QED
        BY <3>1 DEF OwnershipFrom, OwnershipRow
    <2>2. /\ nextRow \in RowId /\ nextRow' = nextRow + 1
          /\ rows' = [rows EXCEPT ![nextRow] =
                         OwnershipFrom(t.deal, deal, CountryOf[deal.company])]
      BY <1>2 DEF CommitUpsert
    <2> QED
      BY <2>1, <2>2, DayTypes DEF Types, RowId
  <1>3. CASE Norm[deal.name] # Blank /\ t.mine # {}
    <2>1. PICK m \in t.mine :
             /\ rows' = [rows EXCEPT ![m[1]] = RowUpdated(m[1], m[2], t.deal, deal)]
             /\ nextRow' = nextRow
      BY <1>3 DEF CommitUpsert
    <2>2. m[1] \in RowId
      BY DEF Txn
    <2>3. RowUpdated(m[1], m[2], t.deal, deal) \in OwnershipRow \cup {None}
      <3>1. CASE rows[m[1]] = None \/ deal.end <= m[2].until
        BY <2>2, <3>1 DEF RowUpdated, Types
      <3>2. CASE ~(rows[m[1]] = None \/ deal.end <= m[2].until)
        BY <2>2, <3>2 DEF RowUpdated, Types, OwnershipRow, DealRow
      <3> QED
        BY <3>1, <3>2
    <2> QED
      BY <2>1, <2>2, <2>3 DEF Types
  <1> QED
    BY <1>1, <1>2, <1>3

-----------------------------------------------------------------------------
(* The commits. *)

(* What a session with a transaction open knows about it.                  *)
LEMMA TxnFacts ==
    ASSUME IInv, NEW s \in Session, Open(s)
    PROVE  /\ txn[s] \in Txn
           /\ Arguments(s, txn[s])
           /\ \A d \in Deal : txn[s].saw[d] \in DealRow
           /\ today \in Nat \ {0} /\ today # NoDay
  BY DayTypes, IdleFacts DEF IInv, Types, Open, Txn

LEMMA CreateStep ==
    ASSUME IInv, NEW s \in Session, CommitCreate(s) PROVE IInv'
  <1> DEFINE t == txn[s]
  <1>1. /\ t.kind = "create" /\ End(s)
        /\ deals' = [deals EXCEPT ![t.deal] = Registered(t.company, t.name)]
        /\ UNCHANGED <<today, requests, rows, nextRow, earned, notices>>
    BY DEF CommitCreate
  <1>2. /\ t.deal \in Deal /\ t.company \in Company /\ t.name \in Name
        /\ deals[t.deal].status = "absent"
    BY <1>1 DEF IInv, Arguments, Inserting
  <1> DEFINE new == Registered(t.company, t.name)
  <1>3. /\ new \in DealRow /\ new.status = "pending"
        /\ new.company = t.company /\ new.name = t.name
        /\ new.start = NoDay /\ new.end = NoDay
    BY <1>2, RegisteredRow
  <1>4. deals[t.deal].start = NoDay
    BY <1>2 DEF IInv, Windows
  <1> HIDE DEF new
  <1>5. /\ deals' \in [Deal -> DealRow] /\ deals'[t.deal] = new
        /\ \A d \in Deal \ {t.deal} : deals'[d] = deals[d]
    BY <1>1, <1>2, <1>3 DEF IInv, Types, new
  <1>6. Windows'
    BY <1>1, <1>2, <1>3, <1>4, <1>5 DEF IInv, Windows
  <1>7. ToldByEachOnce'
    <2>1. \A d \in Deal : notices[d] > 0 => deals'[d].status \in {"expired", "rejected"}
      BY <1>2, <1>5 DEF IInv, ToldByEachOnce
    <2> QED
      BY <1>1, <2>1, NothingTold
  <1>8. OneOpenRequest'
    BY <1>1 DEF IInv, OneOpenRequest
  <1> QED
    BY <1>1, <1>2, <1>3, <1>4, <1>5, <1>6, <1>7, <1>8, EndStep DEF IInv, Types

LEMMA ApproveStep ==
    ASSUME IInv, NEW s \in Session, CommitApprove(s) PROVE IInv'
  <1> DEFINE t == txn[s]
             new == Approved(deals[t.deal], t.days, today)
  <1>1. /\ t.kind = "approve" /\ t.at = "written" /\ End(s)
        /\ deals' = [deals EXCEPT ![t.deal] = new]
        /\ \/ UNCHANGED <<rows, nextRow>>
           \/ CommitUpsert(t, new)
        /\ earned' = earned \/ earned' = earned \cup {t.deal}
        /\ UNCHANGED <<today, requests, notices>>
    BY DEF CommitApprove
  <1>2. /\ t \in Txn /\ t.deal \in Deal /\ t.days \in Nat \ {0}
        /\ deals[t.deal].status # "absent" /\ today \in Nat /\ today # NoDay
    BY <1>1, TxnFacts, DayTypes DEF Open, Arguments
  <1>3. /\ deals[t.deal] \in DealRow
        /\ deals[t.deal].company \in Company /\ deals[t.deal].name \in Name
        /\ deals[t.deal].start \in {NoDay, today}
    BY <1>1, <1>2 DEF IInv, Types, Windows, Snapshots
  <1>4. /\ new \in DealRow /\ new.status = "approved"
        /\ new.company = deals[t.deal].company /\ new.name = deals[t.deal].name
        /\ new.start = today /\ new.end = today + t.days
    BY <1>2, <1>3, ApprovedRow
  <1> HIDE DEF new
  <1>5. /\ deals' \in [Deal -> DealRow] /\ deals'[t.deal] = new
        /\ \A d \in Deal \ {t.deal} : deals'[d] = deals[d]
    BY <1>1, <1>2, <1>4 DEF IInv, Types
  <1>6. Windows'
    <2>1. today < today + t.days
      BY <1>2
    <2> QED
      BY <1>1, <1>2, <1>3, <1>4, <1>5, <2>1 DEF IInv, Windows
  <1>7. ToldByEachOnce'
    <2>1. ASSUME NEW d \in Deal, notices[d] > 0
          PROVE  deals'[d].status \in {"expired", "rejected"}
      <3>1. d # t.deal /\ deals[d].status \in {"expired", "rejected"}
        BY <1>1, <2>1 DEF IInv, ToldByEachOnce
      <3> QED
        BY <1>5, <3>1
    <2> QED
      BY <1>1, <2>1, NothingTold
  <1>8. OneOpenRequest'
    BY <1>1 DEF IInv, OneOpenRequest
  <1>9. /\ rows' \in [RowId -> OwnershipRow \cup {None}]
        /\ nextRow' \in 1 .. MaxRow + 1
    BY <1>1, <1>2, <1>3, <1>4, UpsertTypes DEF IInv, Types
  <1>10. \A d \in Deal : IF deals[d].start = NoDay
                        THEN deals'[d].start \in {NoDay, today}
                        ELSE deals'[d].start = deals[d].start
    BY <1>3, <1>4, <1>5
  <1>11. \A d \in Deal : (deals'[d].status = "absent") = (deals[d].status = "absent")
    BY <1>2, <1>4, <1>5
  <1> QED
    BY <1>1, <1>5, <1>6, <1>7, <1>8, <1>9, <1>10, <1>11, EndStep DEF IInv, Types

LEMMA RejectStep ==
    ASSUME IInv, NEW s \in Session, CommitReject(s) PROVE IInv'
  <1> DEFINE t == txn[s]
             new == Rejected(deals[t.deal])
  <1>1. /\ t.kind = "reject" /\ End(s)
        /\ UNCHANGED <<today, requests, rows, nextRow, earned, notices>>
    BY DEF CommitReject
  <1>2. t.deal \in Deal /\ deals[t.deal].status # "absent"
    BY <1>1, TxnFacts DEF Open, Arguments
  <1>3. deals' = [deals EXCEPT ![t.deal] = new]
    BY <1>2 DEF CommitReject, IInv, Types
  <1>4. /\ new \in DealRow /\ new.status = "rejected"
        /\ new.company = deals[t.deal].company /\ new.name = deals[t.deal].name
        /\ new.start = deals[t.deal].start /\ new.end = deals[t.deal].end
    BY <1>2, RejectedRow DEF IInv, Types
  <1> HIDE DEF new
  <1>5. /\ deals' \in [Deal -> DealRow] /\ deals'[t.deal] = new
        /\ \A d \in Deal \ {t.deal} : deals'[d] = deals[d]
    BY <1>2, <1>3, <1>4 DEF IInv, Types
  <1>6. Windows'
    BY <1>1, <1>2, <1>4, <1>5 DEF IInv, Windows
  <1>7. ToldByEachOnce'
    <2>1. \A d \in Deal : notices[d] > 0 => deals'[d].status \in {"expired", "rejected"}
      BY <1>4, <1>5 DEF IInv, ToldByEachOnce
    <2> QED
      BY <1>1, <2>1, NothingTold
  <1>8. OneOpenRequest'
    BY <1>1 DEF IInv, OneOpenRequest
  <1> QED
    BY <1>1, <1>2, <1>4, <1>5, <1>6, <1>7, <1>8, EndStep DEF IInv, Types

(* The index is what keeps a second open request out.                      *)
LEMMA RequestStep ==
    ASSUME IInv, NEW s \in Session, CommitRequest(s) PROVE IInv'
  <1> DEFINE t == txn[s]
             new == [status |-> "pending", deal |-> t.deal, asked |-> t.days,
                     granted |-> 0]
  <1>1. /\ t.kind = "request" /\ End(s)
        /\ requests' = IF IndexRefuses(t) THEN requests
                       ELSE [requests EXCEPT ![t.request] = new]
        /\ UNCHANGED <<today, deals, rows, nextRow, earned, notices>>
    BY DEF CommitRequest
  <1>2. /\ t \in Txn /\ t.deal \in Deal /\ t.request \in Request
        /\ deals[t.deal].start # NoDay
    BY <1>1, TxnFacts DEF Open, Arguments
  <1>3. new \in RequestRow /\ new.deal = t.deal /\ new.status # "absent"
    BY <1>2 DEF RequestRow, RequestStatus, Txn
  <1> HIDE DEF new
  <1>4. CASE IndexRefuses(t)
    <2>1. requests' = requests
      BY <1>1, <1>4
    <2>2. Windows' /\ OneOpenRequest'
      BY <1>1, <2>1 DEF IInv, Windows, OneOpenRequest
    <2>3. ToldByEachOnce'
      BY <1>1, NothingTold DEF IInv, ToldByEachOnce
    <2> QED
      BY <1>1, <2>1, <2>2, <2>3, EndStep DEF IInv, Types
  <1>5. CASE ~IndexRefuses(t)
    <2>1. /\ requests' \in [Request -> RequestRow]
          /\ requests'[t.request] = new
          /\ \A q \in Request \ {t.request} : requests'[q] = requests[q]
      BY <1>1, <1>2, <1>3, <1>5 DEF IInv, Types
    <2>2. Windows'
      BY <1>1, <1>2, <1>3, <2>1 DEF IInv, Windows
    <2>3. OneOpenRequest'
      BY <1>2, <1>3, <1>5, <2>1 DEF IInv, OneOpenRequest, IndexRefuses
    <2>4. ToldByEachOnce'
      BY <1>1, NothingTold DEF IInv, ToldByEachOnce
    <2>5. \A q \in Request :
             requests[q].status # "absent" => requests'[q].status # "absent"
      BY <1>3, <2>1
    <2> QED
      BY <1>1, <2>1, <2>2, <2>3, <2>4, <2>5, EndStep DEF IInv, Types
  <1> QED
    BY <1>4, <1>5

(* The grant is of a window, and its request of that window's deal or of   *)
(* another that has one.                                                   *)
LEMMA GrantStep ==
    ASSUME IInv, NEW s \in Session, CommitGrant(s) PROVE IInv'
  <1> DEFINE t == txn[s]
             new == ExtendedOver(deals[t.deal], t.saw[t.deal], t.days)
             req == [requests[t.request] EXCEPT !.status = "approved",
                                                !.granted = t.days]
  <1>1. /\ t.kind = "grant" /\ t.at = "written" /\ End(s)
        /\ UNCHANGED <<today, earned, notices>>
    BY DEF CommitGrant
  <1>2. /\ t \in Txn /\ t.deal \in Deal /\ t.request \in Request /\ t.days \in Nat
        /\ deals[t.deal].start # NoDay
        /\ t.saw[t.deal] \in DealRow /\ t.saw[t.deal].start # NoDay
    BY <1>1, TxnFacts DEF Open, Arguments, Txn
  <1>3. CASE UNCHANGED <<deals, requests, rows, nextRow>>
    <2>1. Windows' /\ OneOpenRequest'
      BY <1>1, <1>3 DEF IInv, Windows, OneOpenRequest
    <2>2. ToldByEachOnce'
      BY <1>1, <1>3, NothingTold DEF IInv, ToldByEachOnce
    <2> QED
      BY <1>1, <1>3, <2>1, <2>2, EndStep DEF IInv, Types
  <1>4. CASE ~UNCHANGED <<deals, requests, rows, nextRow>>
    <2>1. /\ deals' = [deals EXCEPT ![t.deal] = new]
          /\ requests' = [requests EXCEPT ![t.request] = req]
          /\ CommitUpsert(t, new)
      BY <1>2, <1>4 DEF CommitGrant, IInv, Types
    <2>2. deals[t.deal] \in DealRow /\ requests[t.request] \in RequestRow
      BY <1>2 DEF IInv, Types
    <2>3. /\ new \in DealRow /\ new.status = deals[t.deal].status
          /\ new.company = deals[t.deal].company /\ new.name = deals[t.deal].name
          /\ new.start = deals[t.deal].start
          /\ new.end = t.saw[t.deal].end + t.days
      BY <1>2, <2>2, ExtendedRow
    <2>4. new.start < new.end
      <3>1. /\ deals[t.deal].start \in Nat /\ t.saw[t.deal].end \in Nat
            /\ deals[t.deal].start < t.saw[t.deal].end
        BY <1>2, <2>2 DEF IInv, Snapshots, DealRow
      <3> QED
        BY <1>2, <2>3, <3>1
    <2>5. /\ req \in RequestRow /\ req.status = "approved"
          /\ req.deal = requests[t.request].deal
      BY <1>2, <2>2 DEF RequestRow, RequestStatus
    <2>6. new.company \in Company /\ new.name \in Name
      BY <1>2, <2>3 DEF IInv, Windows
    <2> HIDE DEF new, req
    <2>7. /\ deals' \in [Deal -> DealRow] /\ deals'[t.deal] = new
          /\ \A d \in Deal \ {t.deal} : deals'[d] = deals[d]
      BY <1>2, <2>1, <2>3 DEF IInv, Types
    <2>8. /\ requests' \in [Request -> RequestRow] /\ requests'[t.request] = req
          /\ \A q \in Request \ {t.request} : requests'[q] = requests[q]
      BY <1>2, <2>1, <2>5 DEF IInv, Types
    <2>9. Windows'
      <3>1. ASSUME NEW d \in Deal
            PROVE  /\ deals'[d].status # "absent" =>
                         deals'[d].company \in Company /\ deals'[d].name \in Name
                   /\ IF deals'[d].start = NoDay
                      THEN deals'[d].status \in {"absent", "pending", "rejected"}
                      ELSE /\ deals'[d].status \notin {"absent", "pending"}
                           /\ deals'[d].start < deals'[d].end
        BY <1>2, <2>3, <2>4, <2>6, <2>7 DEF IInv, Windows
      <3>2. ASSUME NEW q \in Request, requests'[q].status # "absent",
                   requests[q].status # "absent" \/ q # t.request
            PROVE  requests'[q].deal \in Deal
                   /\ deals'[requests'[q].deal].start # NoDay
        <4>1. requests'[q].deal = requests[q].deal /\ requests[q].status # "absent"
          BY <2>5, <2>8, <3>2
        <4> QED
          BY <2>3, <2>7, <4>1 DEF IInv, Windows
      <3>3. requests[t.request].status # "absent"
        BY <1>1, TxnFacts DEF Open, Arguments
      <3> QED
        BY <3>1, <3>2, <3>3 DEF Windows
    <2>10. ToldByEachOnce'
      <3>1. \A d \in Deal : notices[d] > 0 => deals'[d].status \in {"expired", "rejected"}
        BY <2>3, <2>7 DEF IInv, ToldByEachOnce
      <3> QED
        BY <1>1, <3>1, NothingTold
    <2>11. OneOpenRequest'
      BY <2>5, <2>8 DEF IInv, OneOpenRequest
    <2>12. /\ rows' \in [RowId -> OwnershipRow \cup {None}]
           /\ nextRow' \in 1 .. MaxRow + 1
      BY <1>2, <2>1, <2>3, <2>6, UpsertTypes DEF IInv
    <2>13. \A d \in Deal : /\ deals'[d].start = deals[d].start
                           /\ deals'[d].status = deals[d].status
      BY <2>3, <2>7
    <2>14. \A q \in Request :
              requests[q].status # "absent" => requests'[q].status # "absent"
      BY <2>5, <2>8
    <2> QED
      BY <1>1, <2>7, <2>8, <2>9, <2>10, <2>11, <2>12, <2>13, <2>14, EndStep
      DEF IInv, Types
  <1> QED
    BY <1>3, <1>4

LEMMA RefuseStep ==
    ASSUME IInv, NEW s \in Session, CommitRefuse(s) PROVE IInv'
  <1> DEFINE t == txn[s]
             new == [requests[t.request] EXCEPT !.status = "refused"]
  <1>1. /\ t.kind = "refuse" /\ End(s)
        /\ requests' = [requests EXCEPT ![t.request].status = "refused"]
        /\ UNCHANGED <<today, deals, rows, nextRow, earned, notices>>
    BY DEF CommitRefuse
  <1>2. t.request \in Request /\ requests[t.request].status # "absent"
    BY <1>1, TxnFacts DEF Open, Arguments
  <1>3. /\ new \in RequestRow /\ new.status = "refused"
        /\ new.deal = requests[t.request].deal
    BY <1>2 DEF IInv, Types, RequestRow, RequestStatus
  <1>4. requests' = [requests EXCEPT ![t.request] = new]
    BY <1>1, <1>2 DEF IInv, Types
  <1> HIDE DEF new
  <1>5. /\ requests' \in [Request -> RequestRow] /\ requests'[t.request] = new
        /\ \A q \in Request \ {t.request} : requests'[q] = requests[q]
    BY <1>2, <1>3, <1>4 DEF IInv, Types
  <1>6. Windows'
    BY <1>1, <1>2, <1>3, <1>5 DEF IInv, Windows
  <1>7. OneOpenRequest'
    BY <1>3, <1>5 DEF IInv, OneOpenRequest
  <1>8. ToldByEachOnce'
    BY <1>1, NothingTold DEF IInv, ToldByEachOnce
  <1> QED
    BY <1>1, <1>2, <1>3, <1>5, <1>6, <1>7, <1>8, EndStep DEF IInv, Types

(* A deal whose lapse a sweep tells of is not being approved: an approval  *)
(* in flight would have to be of today, and its window could not be over.  *)
LEMMA LapsedIsNotInFlight ==
    ASSUME IInv, NEW s \in Session, NEW d \in Deal, Open(s), Lapsed(txn[s].saw[d], today),
           NEW o \in Session
    PROVE  ~(txn[o].kind = "approve" /\ txn[o].deal = d)
  <1> DEFINE seen == txn[s].saw[d]
  <1>1. /\ seen \in DealRow /\ today \in Nat
        /\ seen.status = "approved" /\ seen.end < today
    BY TxnFacts DEF Lapsed
  <1>2. seen.start = deals[d].start /\ seen.start < seen.end /\ seen.start # NoDay
    BY <1>1 DEF IInv, Snapshots
  <1>3. seen.start \in Nat /\ seen.end \in Nat
    BY <1>1 DEF DealRow
  <1>4. seen.start # today
    BY <1>1, <1>2, <1>3
  <1> QED
    BY <1>2, <1>4 DEF IInv, Snapshots

LEMMA SweepStep ==
    ASSUME IInv, NEW s \in Session, CommitSweep(s) PROVE IInv'
  <1> DEFINE t == txn[s]
             new(d) == SweptOver(deals[d], t.saw[d])
  <1>1. /\ t.kind = "sweep" /\ t.at = "written" /\ End(s) /\ s \in Sweeper /\ Open(s)
        /\ deals' = [d \in Deal |-> new(d)]
        /\ rows' = [i \in RowId |->
                       IF \E m \in t.mine : m[1] = i THEN None ELSE rows[i]]
        /\ notices' = [d \in Deal |->
                          IF Lapsed(t.saw[d], today) THEN notices[d] + 1
                                                     ELSE notices[d]]
        /\ UNCHANGED <<today, requests, nextRow, earned>>
    BY DEF CommitSweep, Open, IInv, Arguments
  <1>2. ASSUME NEW d \in Deal
        PROVE  /\ new(d) \in DealRow
               /\ new(d).status = IF Lapsed(t.saw[d], today) THEN "expired"
                                                             ELSE deals[d].status
               /\ new(d).company = deals[d].company /\ new(d).name = deals[d].name
               /\ new(d).start = deals[d].start /\ new(d).end = deals[d].end
    BY <1>1, TxnFacts, SweptRow DEF IInv, Types
  <1>3. \A d \in Deal : Lapsed(t.saw[d], today) => deals[d].start # NoDay
    BY DEF Lapsed, IInv, Snapshots
  <1> HIDE DEF new
  <1>4. /\ deals' \in [Deal -> DealRow]
        /\ \A d \in Deal : deals'[d] = new(d)
    BY <1>1, <1>2
  <1>5. /\ rows' \in [RowId -> OwnershipRow \cup {None}]
        /\ notices' \in [Deal -> Nat]
    BY <1>1 DEF IInv, Types
  <1>6. Windows'
    BY <1>1, <1>2, <1>3, <1>4 DEF IInv, Windows
  <1>7. OneOpenRequest'
    BY <1>1 DEF IInv, OneOpenRequest
  <1>8. ToldByEachOnce'
    <2> SUFFICES ASSUME NEW d \in Deal, notices'[d] > 0
                 PROVE  /\ deals'[d].status \in {"expired", "rejected"}
                        /\ \A o \in Session :
                              ~(txn'[o].kind = "approve" /\ txn'[o].deal = d)
                        /\ notices'[d] + Cardinality(Tellers(d)')
                              <= Cardinality(Sweeper)
      BY DEF ToldByEachOnce
    <2>1. txn'[s] = Idle /\ \A o \in Session \ {s} : txn'[o] = txn[o]
      BY <1>1 DEF End, IInv, Types
    <2>2. /\ notices[d] \in Nat /\ Cardinality(Sweeper) \in Nat
          /\ Cardinality(Tellers(d)) \in Nat
          /\ Cardinality(Tellers(d)) <= Cardinality(Sweeper)
          /\ Cardinality(Tellers(d)') =
                IF s \in Tellers(d) THEN Cardinality(Tellers(d)) - 1
                                    ELSE Cardinality(Tellers(d))
      BY <1>1, SweeperFinite, TellersLeft DEF IInv, Types
    <2>3. CASE Lapsed(t.saw[d], today)
      <3>1. s \in Tellers(d) /\ notices'[d] = notices[d] + 1
        BY <1>1, <2>3 DEF Tellers
      <3>2. notices[d] > 0 =>
               notices[d] + Cardinality(Tellers(d)) <= Cardinality(Sweeper)
        BY DEF IInv, ToldByEachOnce
      <3>3. notices'[d] + Cardinality(Tellers(d)') <= Cardinality(Sweeper)
        BY <2>2, <3>1, <3>2
      <3>4. \A o \in Session : ~(txn'[o].kind = "approve" /\ txn'[o].deal = d)
        BY <1>1, <2>1, <2>3, LapsedIsNotInFlight, IdleFacts
      <3> QED
        BY <1>2, <1>4, <2>3, <3>3, <3>4
    <2>4. CASE ~Lapsed(t.saw[d], today)
      <3>1. s \notin Tellers(d) /\ notices'[d] = notices[d]
        BY <1>1, <2>4 DEF Tellers
      <3>2. /\ deals[d].status \in {"expired", "rejected"}
            /\ \A o \in Session : ~(txn[o].kind = "approve" /\ txn[o].deal = d)
            /\ notices[d] + Cardinality(Tellers(d)) <= Cardinality(Sweeper)
        BY <3>1 DEF IInv, ToldByEachOnce
      <3> QED
        BY <1>2, <1>4, <2>1, <2>2, <2>4, <3>1, <3>2, IdleFacts
    <2> QED
      BY <2>3, <2>4
  <1>9. ASSUME NEW d \in Deal
        PROVE  /\ deals'[d].start = deals[d].start
               /\ (deals'[d].status = "absent") = (deals[d].status = "absent")
    <2>1. deals[d].start # NoDay => deals[d].status # "absent"
      BY DEF IInv, Windows
    <2> QED
      BY <1>2, <1>3, <1>4, <2>1
  <1> QED
    BY <1>1, <1>4, <1>5, <1>6, <1>7, <1>8, <1>9, EndStep DEF IInv, Types

-----------------------------------------------------------------------------
(* The theorems. *)

LEMMA ReadStep ==
    ASSUME IInv, NEW s \in Session, Read(s) PROVE IInv'
  <1>0. /\ deals \in [Deal -> DealRow] /\ Idle.saw \in [Deal -> DealRow]
        /\ \A d \in Deal : deals[d].status \notin {"absent", "pending", "rejected"}
                              => deals[d].start # NoDay
    BY IdleFacts DEF IInv, Types, Windows, Idle
  <1>1. ASSUME NEW d \in Deal, NEW c \in Company, NEW n \in Name,
               ReadCreate(s, d, c, n)
        PROVE  IInv'
    <2> DEFINE t == [Idle EXCEPT !.kind = "create", !.deal = d,
                                 !.company = c, !.name = n]
    <2>1. /\ t \in Txn /\ t.at = "read" /\ t.kind = "create" /\ t.deal = d
          /\ t.company = c /\ t.name = n /\ \A e \in Deal : t.saw[e] = NoDeal
      BY IdleFacts DEF Idle, Txn, Kind
    <2>2. Fresh(d) /\ Begin(s, t)
      BY <1>1 DEF ReadCreate
    <2> HIDE DEF t
    <2>3. Arguments(s, t)
      BY <2>1 DEF Arguments
    <2> QED
      BY <2>1, <2>2, <2>3, BeginStep DEF Fresh
  <1>2. ASSUME NEW d \in Deal, NEW kind \in {"approve", "reject"}, NEW days \in Nat,
               kind = "approve" => days \in WindowDays,
               ReadDecideDeal(s, d, kind, days)
        PROVE  IInv'
    <2> DEFINE t == [Idle EXCEPT !.kind = kind, !.deal = d, !.days = days]
    <2>1. /\ t \in Txn /\ t.at = "read" /\ t.kind = kind /\ t.deal = d
          /\ t.days = days /\ \A e \in Deal : t.saw[e] = NoDeal
      BY IdleFacts DEF Idle, Txn, Kind
    <2>2. deals[d].status = "pending" /\ Begin(s, t)
      BY <1>2 DEF ReadDecideDeal
    <2> HIDE DEF t
    <2>3. Arguments(s, t)
      BY <1>2, <2>1, <2>2 DEF Arguments
    <2> QED
      BY <1>2, <2>1, <2>2, <2>3, BeginStep
  <1>3. ASSUME NEW q \in Request, NEW d \in Deal, NEW days \in ExtensionDays,
               ReadRequest(s, q, d, days)
        PROVE  IInv'
    <2> DEFINE t == [Idle EXCEPT !.kind = "request", !.deal = d,
                                 !.request = q, !.days = days]
    <2>1. /\ t \in Txn /\ t.at = "read" /\ t.kind = "request" /\ t.deal = d
          /\ t.request = q /\ \A e \in Deal : t.saw[e] = NoDeal
      BY DayTypes, IdleFacts DEF Idle, Txn, Kind
    <2>2. deals[d].status = "approved" /\ Begin(s, t)
      BY <1>3 DEF ReadRequest
    <2> HIDE DEF t
    <2>3. Arguments(s, t)
      BY <1>0, <2>1, <2>2 DEF Arguments
    <2> QED
      BY <2>1, <2>2, <2>3, BeginStep
  <1>4. ASSUME NEW q \in Request, NEW kind \in {"grant", "refuse"}, NEW days \in Nat,
               ReadDecideRequest(s, q, kind, days)
        PROVE  IInv'
    <2> DEFINE d == requests[q].deal
               t == [Idle EXCEPT !.kind = kind, !.deal = d, !.request = q,
                                 !.days = days, !.saw = OnlyDeal(d)]
    <2>1. /\ requests[q].status = "pending" /\ Begin(s, t)
      BY <1>4 DEF ReadDecideRequest
    <2>2. /\ d \in Deal /\ deals[d].start # NoDay /\ deals[d].status # "absent"
      BY <2>1 DEF IInv, Windows
    <2>3. /\ OnlyDeal(d) \in [Deal -> DealRow]
          /\ OnlyDeal(d)[d] = deals[d]
          /\ \A e \in Deal : OnlyDeal(d)[e] = IF e = d THEN deals[d] ELSE NoDeal
      BY <1>0, <2>2, IdleFacts DEF OnlyDeal
    <2>4. /\ t \in Txn /\ t.at = "read" /\ t.kind = kind /\ t.deal = d
          /\ t.request = q /\ t.saw = OnlyDeal(d)
      BY <2>2, <2>3, IdleFacts DEF Idle, Txn, Kind
    <2> HIDE DEF t, d
    <2>5. Arguments(s, t)
      BY <2>1, <2>2, <2>3, <2>4 DEF Arguments
    <2> QED
      BY <2>1, <2>2, <2>3, <2>4, <2>5, BeginStep
  <1>5. ASSUME s \in Sweeper, ReadSweep(s) PROVE IInv'
    <2> DEFINE seen == [d \in Deal |->
                          IF deals[d].status = "approved" THEN deals[d] ELSE NoDeal]
               t == [Idle EXCEPT !.kind = "sweep", !.saw = seen]
    <2>1. Begin(s, t)
      BY <1>5 DEF ReadSweep
    <2>2. /\ seen \in [Deal -> DealRow]
          /\ \A d \in Deal : \/ seen[d] = NoDeal
                             \/ seen[d] = deals[d] /\ deals[d].start # NoDay
      BY <1>0, IdleFacts
    <2>3. /\ t \in Txn /\ t.at = "read" /\ t.kind = "sweep" /\ t.deal = None
          /\ t.saw = seen
      BY <2>2, IdleFacts DEF Idle, Txn, Kind
    <2> HIDE DEF t, seen
    <2>4. Arguments(s, t)
      BY <1>5, <2>3 DEF Arguments
    <2> QED
      BY <2>1, <2>2, <2>3, <2>4, NullAssumption, BeginStep
  <1> QED
    <2>1. 0 \in Nat /\ WindowDays \subseteq Nat /\ ExtensionDays \subseteq Nat
      BY DayTypes
    <2>2. ASSUME NEW d \in Deal,
                 \/ \E days \in WindowDays : ReadDecideDeal(s, d, "approve", days)
                 \/ ReadDecideDeal(s, d, "reject", 0)
          PROVE  IInv'
      BY <1>2, <2>1, <2>2
    <2>3. ASSUME NEW q \in Request,
                 \/ \E days \in ExtensionDays : ReadDecideRequest(s, q, "grant", days)
                 \/ ReadDecideRequest(s, q, "refuse", 0)
          PROVE  IInv'
      BY <1>4, <2>1, <2>3
    <2> QED
      BY <1>1, <1>3, <1>5, <2>2, <2>3 DEF Read

LEMMA NextIInv ==
    IInv /\ [Next]_vars => IInv'
  <1> SUFFICES ASSUME IInv, [Next]_vars PROVE IInv'
    OBVIOUS
  <1>1. ASSUME NEW s \in Session, Write(s) PROVE IInv'
    <2>1. CASE WriteApprove(s)
      <3> DEFINE ids == OwnedNow(deals[txn[s].deal])
                 paid == txn[s].deal \in earned
      <3>1. /\ txn[s].kind = "approve" /\ Unlocked(s) /\ Open(s)
            /\ UNCHANGED <<today, tables>>
            /\ txn' = [txn EXCEPT ![s] = [Holding(ids, txn[s]) EXCEPT !.paid = paid]]
        BY <2>1 DEF WriteApprove, Open
      <3>2. [Holding(ids, txn[s]) EXCEPT !.paid = paid] =
               [txn[s] EXCEPT !.at = "written", !.mine = ids, !.paid = paid]
        BY DEF Holding
      <3>3. ids \in SUBSET (RowId \X OwnershipRow)
        BY DEF OwnedNow, IInv, Types
      <3>4. paid \in BOOLEAN /\ paid = (txn[s].deal \in earned)
        OBVIOUS
      <3> HIDE DEF ids, paid
      <3> QED
        BY <3>1, <3>2, <3>3, <3>4, WriteStep
    <2>2. CASE WriteGrant(s)
      <3> DEFINE ids == OwnedNow(deals[txn[s].deal])
      <3>1. /\ txn[s].kind = "grant" /\ Unlocked(s) /\ Open(s)
            /\ UNCHANGED <<today, tables>>
            /\ txn' = [txn EXCEPT ![s] = Holding(ids, txn[s])]
        BY <2>2 DEF WriteGrant, Open
      <3>2. /\ txn[s].paid \in BOOLEAN
            /\ Holding(ids, txn[s]) =
                 [txn[s] EXCEPT !.at = "written", !.mine = ids, !.paid = txn[s].paid]
        BY <3>1, TxnFacts DEF Holding, Txn
      <3>3. ids \in SUBSET (RowId \X OwnershipRow)
        BY DEF OwnedNow, IInv, Types
      <3> HIDE DEF ids
      <3> QED
        BY <3>1, <3>2, <3>3, WriteStep
    <2>3. CASE WriteSweep(s)
      <3> DEFINE ids == UNION {ReleasableNow(d) :
                                 d \in {e \in Deal : Lapsed(txn[s].saw[e], today)}}
      <3>1. /\ txn[s].kind = "sweep" /\ Unlocked(s) /\ Open(s)
            /\ UNCHANGED <<today, tables>>
            /\ txn' = [txn EXCEPT ![s] = Holding(ids, txn[s])]
        BY <2>3 DEF WriteSweep, Open
      <3>2. /\ txn[s].paid \in BOOLEAN
            /\ Holding(ids, txn[s]) =
                 [txn[s] EXCEPT !.at = "written", !.mine = ids, !.paid = txn[s].paid]
        BY <3>1, TxnFacts DEF Holding, Txn
      <3>3. ids \in SUBSET (RowId \X OwnershipRow)
        <4>1. \A d \in Deal : ReleasableNow(d) \subseteq RowId \X OwnershipRow
          BY DEF ReleasableNow, IInv, Types
        <4> QED
          BY <4>1
      <3> HIDE DEF ids
      <3> QED
        BY <3>1, <3>2, <3>3, WriteStep
    <2> QED
      BY <1>1, <2>1, <2>2, <2>3 DEF Write
  <1>2. ASSUME NEW s \in Session, Commit(s) PROVE IInv'
    BY <1>2, CreateStep, ApproveStep, RejectStep, RequestStep, GrantStep,
       RefuseStep, SweepStep DEF Commit
  <1>3. CASE UNCHANGED vars
    <2>1. UNCHANGED <<today, deals, requests, rows, nextRow, earned, notices, txn>>
      BY <1>3 DEF vars
    <2>2. Types' /\ Windows' /\ Snapshots' /\ OneOpenRequest' /\ NoDuplicateCommission'
      BY <2>1 DEF IInv, Types, Windows, Snapshots, OneOpenRequest,
          NoDuplicateCommission
    <2>3. \A s \in Session : Arguments(s, txn[s])' /\ Inserting(s)'
      BY <2>1 DEF IInv, Arguments, Inserting
    <2>4. \A d \in Deal : Tellers(d)' = Tellers(d)
      BY <2>1 DEF Tellers
    <2>5. ToldByEachOnce'
      BY <2>1, <2>4 DEF IInv, ToldByEachOnce
    <2>6. \A s \in Session :
             /\ DealsWritten(txn[s])' = DealsWritten(txn[s])
             /\ RequestsWritten(txn[s])' = RequestsWritten(txn[s])
      BY <2>1 DEF DealsWritten, RequestsWritten
    <2>7. LocksExclude'
      BY <2>1, <2>6 DEF IInv, LocksExclude
    <2> QED
      BY <2>2, <2>3, <2>5, <2>7 DEF IInv
  <1> QED
    BY <1>1, <1>2, <1>3, ReadStep, RollbackStep, DayStep DEF Next

(* Every step of every session, at any SELECT, lock or COMMIT, keeps the   *)
(* strengthening.                                                          *)
THEOREM Invariance == Spec => []IInv
  <1>1. Init => IInv
    BY InitIInv
  <1> QED
    BY <1>1, NextIInv, PTL DEF Spec

(* Every table keeps its types, and each sweep loop tells of the end of a  *)
(* window at most once: a deal that was closed is never approved again, so *)
(* a loop that reads it later has nothing to tell.                         *)
THEOREM TypeCorrect == Spec => []TypeOK
  <1>1. IInv => TypeOK
    <2> SUFFICES ASSUME IInv PROVE TypeOK
      OBVIOUS
    <2>1. ASSUME NEW d \in Deal PROVE notices[d] \in 0 .. Cardinality(Sweeper)
      <3>1. Tellers(d) \subseteq Sweeper
        BY DEF Tellers
      <3>2. /\ Cardinality(Tellers(d)) \in Nat /\ Cardinality(Sweeper) \in Nat
            /\ notices[d] \in Nat
        BY <3>1, SweeperFinite DEF IInv, Types
      <3> QED
        BY <3>2 DEF IInv, ToldByEachOnce
    <2>2. notices \in [Deal -> 0 .. Cardinality(Sweeper)]
      BY <2>1 DEF IInv, Types
    <2> QED
      BY <2>2 DEF IInv, Types, TypeOK
  <1> QED
    BY <1>1, Invariance, PTL

(* However the sessions interleave, no deal has two open requests and no   *)
(* approval adds a second commission: the index and the row lock are       *)
(* enough, whatever the SELECTs before them saw.                           *)
THEOREM EachOnlyOnce == Spec => []OnlyOnce
  <1>1. IInv => OnlyOnce
    BY DEF IInv, OnlyOnce
  <1> QED
    BY <1>1, Invariance, PTL

-----------------------------------------------------------------------------
(* One user at a time, and the sweeps of every server process.             *)

(* What the user's transaction read is still so when it commits: a sweep   *)
(* closes windows that are over, and writes no request.                    *)
StillAsRead(h) ==
    LET t == txn[h] IN
    /\ t.kind \in {"approve", "reject"} => deals[t.deal].status = "pending"
    /\ t.kind = "request" => requests[t.request].status = "absent"
    /\ t.kind \in {"grant", "refuse"} =>
          requests[t.request].status = "pending" /\ requests[t.request].deal = t.deal
    /\ t.kind = "grant" => t.saw[t.deal].end = deals[t.deal].end

OfKey(row, deal) ==
    /\ row.customer = Norm[deal.name]
    /\ row.company = deal.company
    /\ row.country = CountryOf[deal.company]

(* A user about to insert an ownership row has found none, and none has    *)
(* come since.                                                             *)
NoneToUpdate(h) ==
    LET t == txn[h] IN
    (t.kind \in {"approve", "grant"} /\ t.at = "written" /\ t.mine = {}) =>
        \A i \in RowId : rows[i] # None => ~OfKey(rows[i], deals[t.deal])

(* Nobody but h serves a request; the sweep loops run as they like.        *)
OnlyServes(h) == \A s \in Session \ {h} : txn[s].kind \in {"idle", "sweep"}

UInv(h) ==
    /\ IInv
    /\ OnlyServes(h)
    /\ StillAsRead(h)
    /\ NoneToUpdate(h)
    /\ CommissionBacked
    /\ OneRowPerKey

(* An upsert leaves one row per key: an update keeps the key of the row it *)
(* is of, and a row is inserted only where there is none.                  *)
LEMMA UpsertKeepsOne ==
    ASSUME Types, OneRowPerKey, NEW t \in Txn, NEW deal, CommitUpsert(t, deal),
           (t.mine = {} /\ Norm[deal.name] # Blank) =>
               \A i \in RowId : rows[i] # None => ~OfKey(rows[i], deal)
    PROVE  OneRowPerKey'
  <1>1. CASE Norm[deal.name] = Blank
    BY <1>1 DEF CommitUpsert, OneRowPerKey
  <1>2. CASE Norm[deal.name] # Blank /\ t.mine = {}
    <2> DEFINE new == OwnershipFrom(t.deal, deal, CountryOf[deal.company])
    <2>1. nextRow \in RowId /\ rows' = [rows EXCEPT ![nextRow] = new]
      BY <1>2 DEF CommitUpsert
    <2>2. OfKey(new, deal)
      BY DEF OwnershipFrom, OfKey
    <2> HIDE DEF new
    <2>3. /\ rows'[nextRow] = new
          /\ \A i \in RowId \ {nextRow} : rows'[i] = rows[i]
      BY <2>1 DEF Types
    <2> QED
      BY <1>2, <2>1, <2>2, <2>3 DEF OneRowPerKey, OfKey
  <1>3. CASE Norm[deal.name] # Blank /\ t.mine # {}
    <2>1. PICK m \in t.mine :
             rows' = [rows EXCEPT ![m[1]] = RowUpdated(m[1], m[2], t.deal, deal)]
      BY <1>3 DEF CommitUpsert
    <2>2. m[1] \in RowId
      BY DEF Txn
    <2> DEFINE new == RowUpdated(m[1], m[2], t.deal, deal)
    <2>3. /\ rows[m[1]] = None => new = None
          /\ rows[m[1]] # None =>
                /\ new.customer = rows[m[1]].customer
                /\ new.country = rows[m[1]].country
                /\ new.company = rows[m[1]].company
      <3>1. CASE rows[m[1]] = None \/ deal.end <= m[2].until
        BY <3>1 DEF RowUpdated
      <3>2. CASE ~(rows[m[1]] = None \/ deal.end <= m[2].until)
        <4>1. rows[m[1]] \in OwnershipRow
          BY <2>2, <3>2 DEF Types
        <4>2. PICK src \in Deal \cup {t.deal} :
                 new = [rows[m[1]] EXCEPT !.until = deal.end, !.source = src]
          BY <3>2, <4>1 DEF RowUpdated, OwnershipRow
        <4> QED
          BY <3>2, <4>1, <4>2 DEF OwnershipRow
      <3> QED
        BY <3>1, <3>2
    <2> HIDE DEF new
    <2>4. rows'[m[1]] = new /\ \A i \in RowId \ {m[1]} : rows'[i] = rows[i]
      BY <2>1, <2>2 DEF Types, new
    <2> QED
      BY <2>2, <2>3, <2>4 DEF OneRowPerKey
  <1> QED
    BY <1>1, <1>2, <1>3

LEMMA InitUInv ==
    ASSUME NEW h \in Session, Init PROVE UInv(h)
  <1>1. \A s \in Session : txn[s] = Idle
    BY DEF Init
  <1>2. StillAsRead(h) /\ NoneToUpdate(h)
    BY <1>1, IdleFacts DEF StillAsRead, NoneToUpdate
  <1>3. CommissionBacked /\ OneRowPerKey
    BY DEF Init, CommissionBacked, OneRowPerKey
  <1> QED
    BY <1>1, <1>2, <1>3, InitIInv, IdleFacts DEF OnlyServes, UInv

(* The user begins: what the guards just read is so.                       *)
LEMMA UserReads ==
    ASSUME NEW h \in Session, UInv(h), h \notin Sweeper, Read(h) PROVE UInv(h)'
  <1> DEFINE Now(t) ==
               /\ t.at = "read"
               /\ t.kind \in {"approve", "reject"} => deals[t.deal].status = "pending"
               /\ t.kind = "request" => requests[t.request].status = "absent"
               /\ t.kind \in {"grant", "refuse"} =>
                     requests[t.request].status = "pending"
                     /\ requests[t.request].deal = t.deal
               /\ t.kind = "grant" => t.saw[t.deal].end = deals[t.deal].end
  <1>1. ASSUME NEW d \in Deal, NEW c \in Company, NEW n \in Name,
               ReadCreate(h, d, c, n)
        PROVE  \E t : Begin(h, t) /\ Now(t)
    <2> DEFINE t == [Idle EXCEPT !.kind = "create", !.deal = d,
                                 !.company = c, !.name = n]
    <2>1. t.kind = "create" /\ t.at = "read"
      BY DEF Idle
    <2>2. Begin(h, t)
      BY <1>1 DEF ReadCreate
    <2> HIDE DEF t
    <2> QED
      BY <2>1, <2>2
  <1>2. ASSUME NEW d \in Deal, NEW kind \in {"approve", "reject"}, NEW days,
               ReadDecideDeal(h, d, kind, days)
        PROVE  \E t : Begin(h, t) /\ Now(t)
    <2> DEFINE t == [Idle EXCEPT !.kind = kind, !.deal = d, !.days = days]
    <2>1. t.kind = kind /\ t.at = "read" /\ t.deal = d
      BY DEF Idle
    <2>2. Begin(h, t) /\ deals[d].status = "pending"
      BY <1>2 DEF ReadDecideDeal
    <2> HIDE DEF t
    <2> QED
      BY <2>1, <2>2
  <1>3. ASSUME NEW q \in Request, NEW d \in Deal, NEW days, ReadRequest(h, q, d, days)
        PROVE  \E t : Begin(h, t) /\ Now(t)
    <2> DEFINE t == [Idle EXCEPT !.kind = "request", !.deal = d,
                                 !.request = q, !.days = days]
    <2>1. t.kind = "request" /\ t.at = "read" /\ t.request = q
      BY DEF Idle
    <2>2. Begin(h, t) /\ requests[q].status = "absent"
      BY <1>3 DEF ReadRequest, FreshRequest
    <2> HIDE DEF t
    <2> QED
      BY <2>1, <2>2
  <1>4. ASSUME NEW q \in Request, NEW kind \in {"grant", "refuse"}, NEW days,
               ReadDecideRequest(h, q, kind, days)
        PROVE  \E t : Begin(h, t) /\ Now(t)
    <2> DEFINE d == requests[q].deal
               t == [Idle EXCEPT !.kind = kind, !.deal = d, !.request = q,
                                 !.days = days, !.saw = OnlyDeal(d)]
    <2>1. t.kind = kind /\ t.at = "read" /\ t.deal = d /\ t.request = q
          /\ t.saw = OnlyDeal(d)
      BY DEF Idle
    <2>2. Begin(h, t) /\ requests[q].status = "pending"
      BY <1>4 DEF ReadDecideRequest
    <2>3. OnlyDeal(d)[d] = deals[d]
      BY <2>2 DEF OnlyDeal, UInv, IInv, Windows
    <2> HIDE DEF t, d
    <2> QED
      BY <2>1, <2>2, <2>3 DEF d
  <1>5. PICK t : Begin(h, t) /\ Now(t)
    BY <1>1, <1>2, <1>3, <1>4 DEF Read
  <1>6. /\ UNCHANGED <<deals, requests, rows, earned>>
        /\ txn'[h] = t /\ \A s \in Session \ {h} : txn'[s] = txn[s]
    BY <1>5 DEF Begin, tables, UInv, IInv, Types
  <1>7. StillAsRead(h)' /\ NoneToUpdate(h)'
    BY <1>5, <1>6 DEF StillAsRead, NoneToUpdate
  <1>8. CommissionBacked' /\ OneRowPerKey'
    BY <1>6 DEF UInv, CommissionBacked, OneRowPerKey
  <1>9. IInv'
    BY ReadStep DEF UInv
  <1> QED
    BY <1>6, <1>7, <1>8, <1>9 DEF OnlyServes, UInv

(* The user flushes, and looks for the ownership rows it will update.      *)
LEMMA UserWrites ==
    ASSUME NEW h \in Session, UInv(h), h \notin Sweeper, Write(h), IInv'
    PROVE  UInv(h)'
  <1>1. ~WriteSweep(h)
    BY DEF WriteSweep, UInv, IInv, Arguments
  <1>2. /\ UNCHANGED <<deals, requests, rows, earned>>
        /\ txn'[h].kind \in {"approve", "grant"}
        /\ txn'[h].kind = txn[h].kind /\ txn'[h].deal = txn[h].deal
        /\ txn'[h].request = txn[h].request /\ txn'[h].saw = txn[h].saw
        /\ txn'[h].mine = OwnedNow(deals[txn[h].deal])
        /\ \A s \in Session \ {h} : txn'[s] = txn[s]
    <2>1. CASE WriteApprove(h)
      <3>1. txn[h] \in Txn
        BY <2>1, TxnFacts DEF WriteApprove, Open, UInv
      <3> QED
        BY <2>1, <3>1 DEF WriteApprove, Holding, tables, UInv, IInv, Types, Txn
    <2>2. CASE WriteGrant(h)
      <3>1. txn[h] \in Txn
        BY <2>2, TxnFacts DEF WriteGrant, Open, UInv
      <3> QED
        BY <2>2, <3>1 DEF WriteGrant, Holding, tables, UInv, IInv, Types, Txn
    <2> QED
      BY <1>1, <2>1, <2>2 DEF Write
  <1>3. StillAsRead(h)'
    BY <1>2 DEF UInv, StillAsRead
  <1>4. NoneToUpdate(h)'
    <2> SUFFICES ASSUME txn'[h].mine = {}, NEW i \in RowId, rows'[i] # None
                 PROVE  ~OfKey(rows'[i], deals'[txn'[h].deal])
      BY DEF NoneToUpdate
    <2>1. OwnedNow(deals[txn[h].deal]) = {}
      BY <1>2
    <2>2. ~OfKey(rows[i], deals[txn[h].deal])
      <3> SUFFICES ASSUME OfKey(rows[i], deals[txn[h].deal]) PROVE FALSE
        OBVIOUS
      <3>1. rows[i] # None
        BY <1>2
      <3>2. <<i, rows[i]>> \in OwnedNow(deals[txn[h].deal])
        BY <3>1 DEF OwnedNow, OfKey
      <3> QED
        BY <2>1, <3>2
    <2> QED
      BY <1>2, <2>2
  <1>5. CommissionBacked' /\ OneRowPerKey'
    BY <1>2 DEF UInv, CommissionBacked, OneRowPerKey
  <1> QED
    BY <1>2, <1>3, <1>4, <1>5 DEF OnlyServes, UInv

(* The user's transaction ends: it was of a deal as it still is.           *)
LEMMA UserCommits ==
    ASSUME NEW h \in Session, UInv(h), h \notin Sweeper,
           Commit(h) \/ Rollback(h), IInv'
    PROVE  UInv(h)'
  <1> DEFINE t == txn[h]
  <1>1. txn'[h] = Idle /\ \A s \in Session \ {h} : txn'[s] = txn[s]
    BY DEF Commit, CommitCreate, CommitApprove, CommitReject, CommitRequest,
        CommitGrant, CommitRefuse, CommitSweep, Rollback, End, UInv, IInv, Types
  <1>2. StillAsRead(h)' /\ NoneToUpdate(h)'
    BY <1>1, IdleFacts DEF StillAsRead, NoneToUpdate
  <1>3. ~CommitSweep(h)
    BY DEF CommitSweep, UInv, IInv, Arguments
  <1>4. CommissionBacked' /\ OneRowPerKey'
    <2>1. CASE CommitCreate(h)
      <3>1. t.deal \in Deal /\ deals[t.deal].status = "absent"
        BY <2>1 DEF CommitCreate, UInv, IInv, Arguments, Inserting
      <3> QED
        BY <2>1, <3>1 DEF CommitCreate, UInv, IInv, Types, CommissionBacked,
            OneRowPerKey
    <2>2. CASE CommitApprove(h)
      <3> DEFINE new == Approved(deals[t.deal], t.days, today)
      <3>1. /\ t \in Txn /\ t.deal \in Deal /\ t.days \in Nat /\ today \in Nat
            /\ deals[t.deal] \in DealRow
        BY <2>2, TxnFacts DEF CommitApprove, Open, UInv, IInv, Types, Arguments, Txn
      <3>2. /\ new.status = "approved" /\ new.name = deals[t.deal].name
            /\ new.company = deals[t.deal].company
        BY <3>1 DEF Approved, DealRow
      <3>3. /\ deals' = [deals EXCEPT ![t.deal] = new]
            /\ earned' \subseteq earned \cup {t.deal}
            /\ rows' = rows \/ CommitUpsert(t, new)
            /\ t.kind = "approve" /\ t.at = "written"
        BY <2>2 DEF CommitApprove
      <3> HIDE DEF new
      <3>4. CommissionBacked'
        BY <3>1, <3>2, <3>3 DEF UInv, IInv, Types, CommissionBacked
      <3>5. CASE rows' = rows
        BY <3>4, <3>5 DEF UInv, OneRowPerKey
      <3>6. CASE CommitUpsert(t, new)
        <4>1. t.mine = {} =>
                 \A i \in RowId : rows[i] # None => ~OfKey(rows[i], new)
          BY <3>2, <3>3 DEF UInv, NoneToUpdate, OfKey
        <4> QED
          BY <3>1, <3>4, <3>6, <4>1, UpsertKeepsOne DEF UInv, IInv
      <3> QED
        BY <3>3, <3>5, <3>6
    <2>3. CASE CommitReject(h)
      <3>1. t.deal \in Deal /\ deals[t.deal].status = "pending"
        BY <2>3 DEF CommitReject, UInv, IInv, Arguments, StillAsRead
      <3> QED
        BY <2>3, <3>1 DEF CommitReject, UInv, IInv, Types, CommissionBacked,
            OneRowPerKey
    <2>4. CASE CommitRequest(h) \/ CommitRefuse(h) \/ Rollback(h)
      BY <2>4 DEF CommitRequest, CommitRefuse, Rollback, tables, UInv,
          CommissionBacked, OneRowPerKey
    <2>5. CASE CommitGrant(h)
      <3> DEFINE new == ExtendedOver(deals[t.deal], t.saw[t.deal], t.days)
      <3>1. /\ t \in Txn /\ t.deal \in Deal /\ t.days \in Nat
            /\ deals[t.deal] \in DealRow /\ t.saw[t.deal] \in DealRow
        BY <2>5, TxnFacts DEF CommitGrant, Open, UInv, IInv, Types, Arguments, Txn
      <3>2. /\ new.status = deals[t.deal].status /\ new.name = deals[t.deal].name
            /\ new.company = deals[t.deal].company
        BY <3>1, ExtendedRow
      <3>3. /\ \/ UNCHANGED <<deals, rows>>
               \/ deals' = [deals EXCEPT ![t.deal] = new] /\ CommitUpsert(t, new)
            /\ earned' = earned
            /\ t.kind = "grant" /\ t.at = "written"
        BY <2>5 DEF CommitGrant
      <3> HIDE DEF new
      <3>4. CommissionBacked'
        BY <3>1, <3>2, <3>3 DEF UInv, IInv, Types, CommissionBacked
      <3>5. CASE rows' = rows
        BY <3>4, <3>5 DEF UInv, OneRowPerKey
      <3>6. CASE CommitUpsert(t, new)
        <4>1. t.mine = {} =>
                 \A i \in RowId : rows[i] # None => ~OfKey(rows[i], new)
          BY <3>2, <3>3 DEF UInv, NoneToUpdate, OfKey
        <4> QED
          BY <3>1, <3>4, <3>6, <4>1, UpsertKeepsOne DEF UInv, IInv
      <3> QED
        BY <3>3, <3>5, <3>6
    <2> QED
      BY <1>3, <2>1, <2>2, <2>3, <2>4, <2>5 DEF Commit
  <1> QED
    BY <1>1, <1>2, <1>4 DEF OnlyServes, UInv

(* A sweep in between closes deals whose window is over, which no pending  *)
(* deal has, and takes ownership rows away, which is no harm to an insert. *)
LEMMA SweepLeavesUser ==
    ASSUME NEW h \in Session, UInv(h), NEW s \in Session \ {h}, CommitSweep(s), IInv'
    PROVE  UInv(h)'
  <1>1. /\ txn'[s] = Idle /\ \A r \in Session \ {s} : txn'[r] = txn[r]
        /\ UNCHANGED <<requests, earned>>
    BY DEF CommitSweep, End, UInv, IInv, Types
  <1>2. ASSUME NEW d \in Deal
        PROVE  /\ deals'[d].status =
                     IF Lapsed(txn[s].saw[d], today) THEN "expired" ELSE deals[d].status
               /\ deals'[d].company = deals[d].company
               /\ deals'[d].name = deals[d].name
               /\ deals'[d].end = deals[d].end
    <2>1. deals'[d] = SweptOver(deals[d], txn[s].saw[d])
      BY DEF CommitSweep
    <2>2. deals[d] \in DealRow /\ txn[s].saw[d] \in DealRow
      BY TxnFacts DEF CommitSweep, Open, UInv, IInv, Types
    <2> QED
      BY <2>1, <2>2, SweptRow
  <1>3. \A d \in Deal : deals[d].status = "pending" => ~Lapsed(txn[s].saw[d], today)
    BY DEF Lapsed, UInv, IInv, Windows, Snapshots
  <1>4. \A i \in RowId : rows'[i] = rows[i] \/ rows'[i] = None
    BY DEF CommitSweep
  <1>5. txn[h].kind \in {"approve", "reject", "grant"} => txn[h].deal \in Deal
    BY DEF UInv, IInv, Arguments
  <1>6. StillAsRead(h)'
    BY <1>1, <1>2, <1>3, <1>5 DEF UInv, StillAsRead
  <1>7. NoneToUpdate(h)'
    BY <1>1, <1>2, <1>4, <1>5 DEF UInv, NoneToUpdate, OfKey
  <1>8. CommissionBacked'
    BY <1>1, <1>2 DEF UInv, CommissionBacked
  <1>9. OneRowPerKey'
    BY <1>4 DEF UInv, OneRowPerKey
  <1> QED
    BY <1>1, <1>6, <1>7, <1>8, <1>9, IdleFacts DEF OnlyServes, UInv

(* What a sweep does before it commits leaves the tables alone.            *)
LEMMA SweepInvisible ==
    ASSUME NEW h \in Session, UInv(h), NEW s \in Session \ {h},
           ReadSweep(s) \/ WriteSweep(s) \/ Rollback(s), IInv'
    PROVE  UInv(h)'
  <1>1. /\ UNCHANGED <<deals, requests, rows, earned>>
        /\ \A r \in Session \ {s} : txn'[r] = txn[r]
        /\ txn'[s].kind \in {"idle", "sweep"}
    <2>1. CASE ReadSweep(s)
      BY <2>1 DEF ReadSweep, Begin, Idle, tables, UInv, IInv, Types
    <2>2. CASE WriteSweep(s)
      BY <2>2, TxnFacts DEF WriteSweep, Open, Holding, Txn, tables, UInv, IInv, Types
    <2>3. CASE Rollback(s)
      BY <2>3, IdleFacts DEF Rollback, End, tables, UInv, IInv, Types
    <2> QED
      BY <2>1, <2>2, <2>3
  <1>2. StillAsRead(h)' /\ NoneToUpdate(h)'
    BY <1>1 DEF UInv, StillAsRead, NoneToUpdate
  <1>3. CommissionBacked' /\ OneRowPerKey'
    BY <1>1 DEF UInv, CommissionBacked, OneRowPerKey
  <1> QED
    BY <1>1, <1>2, <1>3 DEF OnlyServes, UInv

(* A session that has begun, and serves no request, sweeps.                *)
LEMMA OthersOnlySweep ==
    ASSUME NEW s \in Session, Types, Read(s), txn'[s].kind \in {"idle", "sweep"}
    PROVE  ReadSweep(s)
  <1>1. \A t : Begin(s, t) => txn'[s] = t
    BY DEF Begin, Types
  <1>2. ASSUME NEW d, NEW c, NEW n PROVE ~ReadCreate(s, d, c, n)
    BY <1>1 DEF ReadCreate, Idle
  <1>3. ASSUME NEW d, NEW kind \in {"approve", "reject"}, NEW days
        PROVE  ~ReadDecideDeal(s, d, kind, days)
    BY <1>1 DEF ReadDecideDeal, Idle
  <1>4. ASSUME NEW q, NEW d, NEW days PROVE ~ReadRequest(s, q, d, days)
    BY <1>1 DEF ReadRequest, Idle
  <1>5. ASSUME NEW q, NEW kind \in {"grant", "refuse"}, NEW days
        PROVE  ~ReadDecideRequest(s, q, kind, days)
    BY <1>1 DEF ReadDecideRequest, Idle
  <1> QED
    BY <1>2, <1>3, <1>4, <1>5 DEF Read

LEMMA NextUInv ==
    ASSUME NEW h \in Session \ Sweeper, UInv(h), [Next]_vars, OnlyServes(h)'
    PROVE  UInv(h)'
  <1>1. IInv'
    BY NextIInv DEF UInv
  <1>2. ASSUME Read(h) \/ Write(h) \/ Commit(h) \/ Rollback(h) PROVE UInv(h)'
    BY <1>1, <1>2, UserReads, UserWrites, UserCommits
  <1>3. ASSUME NEW s \in Session \ {h}, Read(s) \/ Write(s) \/ Commit(s) \/ Rollback(s)
        PROVE  UInv(h)'
    <2>1. txn[s].kind \in {"idle", "sweep"} /\ txn'[s].kind \in {"idle", "sweep"}
      BY DEF UInv, OnlyServes
    <2>2. Read(s) => ReadSweep(s)
      BY <2>1, OthersOnlySweep DEF UInv, IInv
    <2>3. ReadSweep(s) \/ WriteSweep(s) \/ CommitSweep(s) \/ Rollback(s)
      BY <1>3, <2>1, <2>2 DEF Write, WriteApprove, WriteGrant, Commit,
          CommitCreate, CommitApprove, CommitReject, CommitRequest, CommitGrant,
          CommitRefuse
    <2> QED
      BY <1>1, <2>3, SweepLeavesUser, SweepInvisible
  <1>4. CASE DayPasses \/ UNCHANGED vars
    <2>1. UNCHANGED <<deals, requests, rows, earned, txn>>
      BY <1>4 DEF DayPasses, tables, vars
    <2>2. StillAsRead(h)' /\ NoneToUpdate(h)'
      BY <2>1 DEF UInv, StillAsRead, NoneToUpdate
    <2>3. CommissionBacked' /\ OneRowPerKey'
      BY <2>1 DEF UInv, CommissionBacked, OneRowPerKey
    <2> QED
      BY <1>1, <2>2, <2>3 DEF UInv
  <1> QED
    BY <1>2, <1>3, <1>4 DEF Next

LEMMA OneUserInvariance ==
    ASSUME NEW h \in Session \ Sweeper
    PROVE  Init /\ [][Next]_vars /\ []OnlyServes(h) => []UInv(h)
  <1>1. Init => UInv(h)
    BY InitUInv
  <1>2. UInv(h) /\ [Next]_vars /\ OnlyServes(h)' => UInv(h)'
    BY NextUInv
  <1> QED
    BY <1>1, <1>2, PTL

(* With one user at a time, whatever sweep loops run beside: a commission  *)
(* is of a registration that was approved, and upsert_ownership_from_deal  *)
(* never makes a second row for a customer, country and company.           *)
THEOREM OneUserKeepsTables ==
    ASSUME NEW h \in Session \ Sweeper
    PROVE  Spec /\ []OnlyServes(h) => [](CommissionBacked /\ OneRowPerKey)
  <1>1. UInv(h) => CommissionBacked /\ OneRowPerKey
    BY DEF UInv
  <1> QED
    BY <1>1, OneUserInvariance, PTL DEF Spec

LEMMA UserDecisionsStand ==
    ASSUME NEW h \in Session \ Sweeper, UInv(h), [Next]_vars PROVE DecisionStands
  <1>0. \A s \in Session \ {h} : txn[s].kind \in {"idle", "sweep"}
    BY DEF UInv, OnlyServes
  <1>1. requests \in [Request -> RequestRow]
    BY DEF UInv, IInv, Types
  <1>2. CASE CommitRequest(h)
    <2>1. requests[txn[h].request].status = "absent"
      BY <1>2 DEF UInv, StillAsRead, CommitRequest
    <2> QED
      BY <1>1, <1>2, <2>1 DEF CommitRequest, DecisionStands
  <1>3. CASE CommitGrant(h) \/ CommitRefuse(h)
    <2>1. requests[txn[h].request].status = "pending"
      BY <1>3 DEF UInv, StillAsRead, CommitGrant, CommitRefuse
    <2> QED
      BY <1>1, <1>3, <2>1 DEF CommitGrant, CommitRefuse, DecisionStands
  <1>4. ASSUME ~(CommitRequest(h) \/ CommitGrant(h) \/ CommitRefuse(h))
        PROVE  requests' = requests
    <2>1. ASSUME NEW s \in Session,
                 CommitRequest(s) \/ CommitGrant(s) \/ CommitRefuse(s)
          PROVE  FALSE
      BY <1>0, <1>4, <2>1 DEF CommitRequest, CommitGrant, CommitRefuse
    <2>2. ASSUME NEW s \in Session, Read(s) PROVE requests' = requests
      BY <2>2 DEF Read, ReadSweep, ReadCreate, ReadDecideDeal, ReadRequest,
          ReadDecideRequest, Begin, tables
    <2>3. ASSUME NEW s \in Session, Write(s) \/ Rollback(s)
          PROVE  requests' = requests
      BY <2>3 DEF Write, WriteApprove, WriteGrant, WriteSweep, Rollback, tables
    <2>4. ASSUME NEW s \in Session, Commit(s) PROVE requests' = requests
      BY <2>1, <2>4 DEF Commit, CommitCreate, CommitApprove, CommitReject,
          CommitSweep
    <2>5. CASE DayPasses \/ UNCHANGED vars
      BY <2>5 DEF DayPasses, tables, vars
    <2> QED
      BY <2>2, <2>3, <2>4, <2>5 DEF Next
  <1> QED
    BY <1>2, <1>3, <1>4 DEF DecisionStands

(* With one user at a time, a decision of an extension request is final.   *)
(* Two administrators break it (the run decided_twice).                    *)
THEOREM OneUserDecidesOnce ==
    ASSUME NEW h \in Session \ Sweeper
    PROVE  Spec /\ []OnlyServes(h) => DecidedOnce
  <1>1. UInv(h) /\ [Next]_vars => [DecisionStands]_vars
    BY UserDecisionsStand
  <1> QED
    BY <1>1, OneUserInvariance, PTL DEF DecidedOnce, Spec

(* How the end of a window moves: it is set when a registration is         *)
(* approved, for the days of the approval from today; it moves by the days *)
(* granted when a request on it is granted, from where it is now and not   *)
(* from where the handler read it; and nothing else moves it.              *)
GrantedNow(q) ==
    requests[q].status # "approved" /\ requests'[q].status = "approved"

WindowMoves ==
    \A d \in Deal : deals[d].status # "absent" =>
        \/ /\ deals'[d].end = deals[d].end
           /\ \A q \in Request : GrantedNow(q) => requests'[q].deal # d
        \/ /\ deals[d].status = "pending" /\ deals'[d].status = "approved"
           /\ deals'[d].start = today
           /\ deals'[d].end = today + deals'[d].days
        \/ \E q \in Request :
              /\ GrantedNow(q) /\ requests'[q].deal = d
              /\ \A r \in Request \ {q} : ~GrantedNow(r)
              /\ deals'[d].end = deals[d].end + requests'[q].granted

(* With one user at a time no grant is lost and none counts twice.         *)
THEOREM OneUserMovesWindows ==
    ASSUME NEW h \in Session \ Sweeper
    PROVE  Spec /\ []OnlyServes(h) => [][WindowMoves]_vars
  <1>1. ASSUME UInv(h), [Next]_vars PROVE WindowMoves
    <2> DEFINE t == txn[h]
    <2>0. \A s \in Session \ {h} : txn[s].kind \in {"idle", "sweep"}
      BY <1>1 DEF UInv, OnlyServes
    <2>1. /\ requests \in [Request -> RequestRow] /\ deals \in [Deal -> DealRow]
          /\ txn \in [Session -> Txn \cup {Idle}] /\ today \in Nat
      BY <1>1 DEF UInv, IInv, Types
    <2>2. CASE CommitApprove(h)
      <3>1. /\ t.deal \in Deal /\ deals[t.deal].status = "pending"
            /\ deals[t.deal] \in DealRow
        BY <1>1, <2>0, <2>1, <2>2 DEF UInv, IInv, Arguments, StillAsRead, CommitApprove
      <3>2. /\ deals' = [deals EXCEPT ![t.deal] = Approved(deals[t.deal], t.days, today)]
            /\ requests' = requests
        BY <2>2 DEF CommitApprove
      <3>3. /\ Approved(deals[t.deal], t.days, today).status = "approved"
            /\ Approved(deals[t.deal], t.days, today).start = today
            /\ Approved(deals[t.deal], t.days, today).end = today + t.days
            /\ Approved(deals[t.deal], t.days, today).days = t.days
        BY <3>1 DEF Approved, DealRow
      <3> QED
        BY <2>1, <3>1, <3>2, <3>3 DEF WindowMoves, GrantedNow
    <2>3. CASE CommitGrant(h)
      <3> DEFINE new == ExtendedOver(deals[t.deal], t.saw[t.deal], t.days)
      <3>1. /\ t.deal \in Deal /\ t.request \in Request /\ t \in Txn
            /\ requests[t.request].status = "pending"
            /\ requests[t.request].deal = t.deal
            /\ t.saw[t.deal].end = deals[t.deal].end
            /\ deals[t.deal] \in DealRow
        BY <1>1, <2>0, <2>1, <2>3, TxnFacts DEF UInv, IInv, Arguments, StillAsRead,
            CommitGrant, Open
      <3>2. new.end = deals[t.deal].end + t.days
        BY <3>1 DEF ExtendedOver, DealRow
      <3>3. CASE UNCHANGED <<deals, requests>>
        BY <3>3 DEF WindowMoves, GrantedNow
      <3>4. CASE /\ deals' = [deals EXCEPT ![t.deal] = new]
                 /\ requests' = [requests EXCEPT ![t.request].status = "approved",
                                                 ![t.request].granted = t.days]
        <4> HIDE DEF new
        <4>1. /\ requests'[t.request].status = "approved"
              /\ requests'[t.request].granted = t.days
              /\ requests'[t.request].deal = t.deal
              /\ \A r \in Request \ {t.request} : requests'[r] = requests[r]
          BY <2>1, <3>1, <3>4 DEF RequestRow
        <4>2. /\ GrantedNow(t.request)
              /\ \A r \in Request \ {t.request} : ~GrantedNow(r)
          BY <3>1, <4>1 DEF GrantedNow
        <4>3. /\ deals'[t.deal].end = deals[t.deal].end + requests'[t.request].granted
              /\ \A d \in Deal \ {t.deal} : deals'[d] = deals[d]
          BY <2>1, <3>1, <3>2, <3>4, <4>1
        <4> QED
          BY <3>1, <4>1, <4>2, <4>3 DEF WindowMoves
      <3> QED
        BY <2>3, <3>3, <3>4 DEF CommitGrant
    <2>4. ASSUME ~CommitApprove(h), ~CommitGrant(h)
          PROVE  /\ \A d \in Deal : deals[d].status # "absent" =>
                                        deals'[d].end = deals[d].end
                 /\ \A q \in Request : ~GrantedNow(q)
      <3>1. ASSUME NEW s \in Session, CommitApprove(s) \/ CommitGrant(s)
            PROVE  FALSE
        BY <2>0, <2>4, <3>1 DEF CommitApprove, CommitGrant
      <3>2. ASSUME NEW s \in Session, Read(s) PROVE UNCHANGED <<deals, requests>>
        BY <3>2 DEF Read, ReadSweep, ReadCreate, ReadDecideDeal, ReadRequest,
            ReadDecideRequest, Begin, tables
      <3>3. ASSUME NEW s \in Session, Write(s) \/ Rollback(s)
            PROVE  UNCHANGED <<deals, requests>>
        BY <3>3 DEF Write, WriteApprove, WriteGrant, WriteSweep, Rollback, tables
      <3>4. ASSUME NEW s \in Session, CommitSweep(s)
            PROVE  /\ \A d \in Deal : deals'[d].end = deals[d].end
                   /\ requests' = requests
        <4>1. ASSUME NEW d \in Deal PROVE deals'[d].end = deals[d].end
          <5>1. deals'[d] = SweptOver(deals[d], txn[s].saw[d])
            BY <3>4 DEF CommitSweep
          <5>2. deals[d] \in DealRow /\ txn[s].saw[d] \in DealRow
            BY <1>1, <3>4, TxnFacts DEF CommitSweep, Open, UInv, IInv, Types
          <5> QED
            BY <5>1, <5>2, SweptRow
        <4> QED
          BY <3>4, <4>1 DEF CommitSweep
      <3>5. ASSUME NEW s \in Session, CommitCreate(s)
            PROVE  /\ \A d \in Deal : deals[d].status # "absent" => deals'[d] = deals[d]
                   /\ requests' = requests
        BY <1>1, <2>1, <3>5 DEF CommitCreate, UInv, IInv, Arguments, Inserting
      <3>6. ASSUME NEW s \in Session, CommitReject(s)
            PROVE  /\ \A d \in Deal : deals'[d].end = deals[d].end
                   /\ requests' = requests
        <4>1. txn[s].deal \in Deal /\ deals[txn[s].deal] \in DealRow
          BY <1>1, <2>1, <3>6 DEF CommitReject, UInv, IInv, Arguments
        <4>2. Rejected(deals[txn[s].deal]).end = deals[txn[s].deal].end
          BY <4>1, RejectedRow
        <4> QED
          BY <2>1, <3>6, <4>1, <4>2 DEF CommitReject
      <3>7. ASSUME NEW s \in Session, CommitRequest(s) \/ CommitRefuse(s)
            PROVE  /\ deals' = deals
                   /\ \A q \in Request : ~GrantedNow(q)
        BY <2>1, <3>7 DEF CommitRequest, CommitRefuse, GrantedNow, RequestRow
      <3>8. CASE DayPasses \/ UNCHANGED vars
        BY <3>8 DEF DayPasses, tables, vars, GrantedNow
      <3>9. ASSUME NEW s \in Session, Commit(s)
            PROVE  /\ \A d \in Deal : deals[d].status # "absent" =>
                                          deals'[d].end = deals[d].end
                   /\ \A q \in Request : ~GrantedNow(q)
        BY <3>1, <3>4, <3>5, <3>6, <3>7, <3>9 DEF Commit, GrantedNow
      <3> QED
        BY <1>1, <3>2, <3>3, <3>8, <3>9 DEF Next, GrantedNow
    <2> QED
      BY <2>2, <2>3, <2>4 DEF WindowMoves
  <1>2. UInv(h) /\ [Next]_vars => [WindowMoves]_vars
    BY <1>1
  <1> QED
    BY <1>2, OneUserInvariance, PTL DEF Spec

-----------------------------------------------------------------------------
(* Sums over finite sets, by the least size at which a fact could fail.    *)

(* The days granted by a set of reqs. *)
Total(reqs, S) == MapThenSumSet(LAMBDA q : reqs[q].granted, S)

(* The function that the sum is defined by, and how far down it is known.  *)
Term(reqs, f, s) ==
    IF s = {} THEN 0
    ELSE LET x == CHOOSE y \in s : TRUE IN reqs[x].granted + f[s \ {x}]

Sums(reqs, f, D) == f = [s \in SUBSET D |-> Term(reqs, f, s)]

Below(D, n) == {s \in SUBSET D : Cardinality(s) <= n}

SumsBelow(reqs, f, D, n) == f = [s \in Below(D, n) |-> Term(reqs, f, s)]

LEMMA LeastOf ==
    ASSUME NEW Sizes \in SUBSET Nat, Sizes # {}
    PROVE  \E n \in Sizes : \A m \in Sizes : n <= m
  <1> DEFINE R == OpToRel(<, Nat)
  <1>1. \E n \in Sizes : \A m \in Sizes : <<m, n>> \notin R
    <2>1. IsWellFoundedOn(R, Nat)
      BY NatLessThanWellFounded
    <2> HIDE DEF R
    <2> QED
      BY <2>1, WFMin
  <1>2. \A m, n \in Nat : m < n => <<m, n>> \in R
    BY DEF OpToRel
  <1> HIDE DEF R
  <1>3. PICK n \in Sizes : \A m \in Sizes : <<m, n>> \notin R
    BY <1>1
  <1>4. \A m \in Sizes : ~(m < n)
    BY <1>2, <1>3
  <1>5. \A m \in Sizes : n <= m
    BY <1>4
  <1> QED
    BY <1>5

LEMMA TotalIs ==
    ASSUME NEW reqs, NEW S, \E f : Sums(reqs, f, S)
    PROVE  \E f : Sums(reqs, f, S) /\ Total(reqs, S) = f[S]
  BY DEF Total, MapThenSumSet, MapThenFoldSet, Sums, Term

LEMMA Chosen ==
    ASSUME NEW s, s # {}, IsFiniteSet(s)
    PROVE  \E x \in s : /\ \A reqs, f : Term(reqs, f, s)
                                 = reqs[x].granted + f[s \ {x}]
                        /\ IsFiniteSet(s \ {x})
                        /\ Cardinality(s) \in Nat /\ Cardinality(s \ {x}) = Cardinality(s) - 1
                        /\ Cardinality(s) > 0
  <1> DEFINE x == CHOOSE y \in s : TRUE
  <1>1. x \in s
    OBVIOUS
  <1> HIDE DEF x
  <1>2. Cardinality(s) \in Nat /\ Cardinality(s) # 0
    BY FS_CardinalityType, FS_EmptySet
  <1>3. IsFiniteSet(s \ {x}) /\ Cardinality(s \ {x}) = Cardinality(s) - 1
    BY <1>1, FS_RemoveElement
  <1>4. \A reqs, f : Term(reqs, f, s) = reqs[x].granted + f[s \ {x}]
    BY DEF x, Term
  <1>5. Cardinality(s) > 0
    BY <1>2
  <1> QED
    BY <1>1, <1>2, <1>3, <1>4, <1>5, Zenon

LEMMA SumsExist ==
    ASSUME NEW reqs, NEW D, IsFiniteSet(D)
    PROVE  \E f : Sums(reqs, f, D)
  <1> DEFINE Sizes == {n \in Nat : ~ \E f : SumsBelow(reqs, f, D, n)}
  <1>0. \A s \in SUBSET D : IsFiniteSet(s) /\ Cardinality(s) \in Nat
    BY FS_Subset, FS_CardinalityType
  <1>1. Sizes = {}
    <2> SUFFICES ASSUME Sizes # {} PROVE FALSE
      OBVIOUS
    <2>1. PICK n \in Sizes : \A m \in Sizes : n <= m
      BY LeastOf
    <2>2. n \in Nat /\ ~ \E f : SumsBelow(reqs, f, D, n)
      OBVIOUS
    <2>3. CASE n = 0
      <3> DEFINE f == [s \in Below(D, 0) |-> 0]
      <3>1. \A s \in Below(D, 0) : s = {}
        BY <1>0, FS_EmptySet DEF Below
      <3>2. SumsBelow(reqs, f, D, 0)
        BY <3>1 DEF SumsBelow, Term
      <3> QED
        BY <2>2, <2>3, <3>2
    <2>4. CASE n > 0
      <3>1. n - 1 \in Nat /\ n - 1 \notin Sizes
        BY <2>1, <2>2, <2>4
      <3>2. PICK f : SumsBelow(reqs, f, D, n - 1)
        BY <3>1
      <3> DEFINE g == [s \in Below(D, n) |-> Term(reqs, f, s)]
      <3>3. \A s \in Below(D, n - 1) : s \in Below(D, n) /\ g[s] = f[s]
        BY <1>0, <2>2, <3>2 DEF Below, SumsBelow
      <3>4. \A s \in Below(D, n) : Term(reqs, g, s) = Term(reqs, f, s)
        <4> SUFFICES ASSUME NEW s \in Below(D, n), s # {}
                     PROVE  Term(reqs, g, s) = Term(reqs, f, s)
          BY DEF Term
        <4>1. s \in SUBSET D /\ IsFiniteSet(s) /\ Cardinality(s) <= n
          BY <1>0 DEF Below
        <4>2. PICK x \in s : /\ \A h : Term(reqs, h, s)
                                         = reqs[x].granted + h[s \ {x}]
                             /\ Cardinality(s \ {x}) = Cardinality(s) - 1
                             /\ Cardinality(s) \in Nat
          BY <4>1, Chosen
        <4>3. s \ {x} \in Below(D, n - 1)
          BY <2>2, <4>1, <4>2 DEF Below
        <4>4. g[s \ {x}] = f[s \ {x}]
          BY <3>3, <4>3
        <4> HIDE DEF g
        <4> QED
          BY <4>2, <4>4
      <3>5. SumsBelow(reqs, g, D, n)
        BY <3>4 DEF SumsBelow
      <3> QED
        BY <2>2, <3>5
    <2> QED
      BY <2>2, <2>3, <2>4
  <1>2. Cardinality(D) \in Nat
    BY FS_CardinalityType
  <1>3. Below(D, Cardinality(D)) = SUBSET D
    BY FS_Subset DEF Below
  <1>4. PICK f : SumsBelow(reqs, f, D, Cardinality(D))
    BY <1>1, <1>2
  <1> QED
    BY <1>3, <1>4 DEF Sums, SumsBelow

LEMMA SumsAgree ==
    ASSUME NEW reqs, NEW new, NEW f, NEW g, NEW D, IsFiniteSet(D), NEW E, E \subseteq D,
           Sums(reqs, f, D), Sums(new, g, E),
           \A q \in E : new[q].granted = reqs[q].granted
    PROVE  g[E] = f[E]
  <1> DEFINE Sizes == {n \in Nat : \E s \in SUBSET E : Cardinality(s) = n /\ g[s] # f[s]}
  <1>1. Sizes = {}
    <2> SUFFICES ASSUME Sizes # {} PROVE FALSE
      OBVIOUS
    <2>1. PICK n \in Sizes : \A m \in Sizes : n <= m
      BY LeastOf
    <2>2. PICK s \in SUBSET E : Cardinality(s) = n /\ g[s] # f[s]
      OBVIOUS
    <2>3. IsFiniteSet(s)
      BY FS_Subset
    <2>4. f[s] = Term(reqs, f, s) /\ g[s] = Term(new, g, s)
      BY DEF Sums
    <2>5. CASE s = {}
      BY <2>2, <2>4, <2>5 DEF Term
    <2>6. CASE s # {}
      <3>1. PICK x \in s : /\ \A r, h : Term(r, h, s) = r[x].granted + h[s \ {x}]
                           /\ IsFiniteSet(s \ {x})
                           /\ Cardinality(s) \in Nat
                           /\ Cardinality(s \ {x}) = Cardinality(s) - 1
                           /\ Cardinality(s) > 0
        BY <2>3, <2>6, Chosen
      <3>2. n - 1 \in Nat /\ ~(n <= n - 1)
        BY <2>2, <3>1
      <3>3. g[s \ {x}] = f[s \ {x}]
        BY <2>1, <2>2, <3>1, <3>2
      <3>4. new[x].granted = reqs[x].granted
        OBVIOUS
      <3>5. g[s] = new[x].granted + g[s \ {x}]
        BY <2>4, <3>1
      <3>6. f[s] = reqs[x].granted + f[s \ {x}]
        BY <2>4, <3>1
      <3> QED
        BY <2>2, <3>3, <3>4, <3>5, <3>6
    <2> QED
      BY <2>5, <2>6
  <1>2. Cardinality(E) \in Nat
    BY FS_Subset, FS_CardinalityType
  <1> QED
    BY <1>1, <1>2

LEMMA SumsSplit ==
    ASSUME NEW reqs, NEW f, NEW D, IsFiniteSet(D), Sums(reqs, f, D),
           \A q \in D : reqs[q].granted \in Nat
    PROVE  \A s \in SUBSET D : /\ f[s] \in Nat
                               /\ \A q \in s : f[s] = reqs[q].granted + f[s \ {q}]
  <1> DEFINE Splits(s) == /\ f[s] \in Nat
                          /\ \A q \in s : f[s] = reqs[q].granted + f[s \ {q}]
             Sizes == {n \in Nat : \E s \in SUBSET D : Cardinality(s) = n /\ ~Splits(s)}
  <1>1. Sizes = {}
    <2> SUFFICES ASSUME Sizes # {} PROVE FALSE
      OBVIOUS
    <2>1. PICK n \in Sizes : \A m \in Sizes : n <= m
      BY LeastOf
    <2>2. PICK s \in SUBSET D : Cardinality(s) = n /\ ~Splits(s)
      OBVIOUS
    <2>3. IsFiniteSet(s)
      BY FS_Subset
    <2>4. f[s] = Term(reqs, f, s)
      BY DEF Sums
    <2>5. CASE s = {}
      BY <2>2, <2>4, <2>5 DEF Term
    <2>6. CASE s # {}
      <3>1. PICK x \in s : /\ \A r, h : Term(r, h, s) = r[x].granted + h[s \ {x}]
                           /\ IsFiniteSet(s \ {x})
                           /\ Cardinality(s) \in Nat
                           /\ Cardinality(s \ {x}) = Cardinality(s) - 1
                           /\ Cardinality(s) > 0
        BY <2>3, <2>6, Chosen
      <3>2. ASSUME NEW q \in s PROVE Splits(s \ {q})
        <4>0. Cardinality(s \ {q}) = Cardinality(s) - 1
          BY <2>3, FS_RemoveElement
        <4>1. /\ Cardinality(s \ {q}) = n - 1 /\ n - 1 \in Nat /\ ~(n <= n - 1)
          BY <2>2, <3>1, <4>0
        <4>2. n - 1 \notin Sizes
          BY <2>1, <4>1
        <4> QED
          BY <4>1, <4>2
      <3>3. f[s] = reqs[x].granted + f[s \ {x}]
        BY <2>4, <3>1
      <3>4. f[s] \in Nat
        <4>1. f[s \ {x}] \in Nat
          BY <3>2
        <4>2. reqs[x].granted \in Nat
          OBVIOUS
        <4> QED
          BY <3>3, <4>1, <4>2
      <3>5. ASSUME NEW q \in s PROVE f[s] = reqs[q].granted + f[s \ {q}]
        <4>1. CASE q = x
          BY <3>3, <4>1
        <4>2. CASE q # x
          <5>1. f[s \ {x}] = reqs[q].granted + f[(s \ {x}) \ {q}]
            BY <3>2, <4>2
          <5>2. f[s \ {q}] = reqs[x].granted + f[(s \ {q}) \ {x}]
            BY <3>2, <4>2
          <5>3. (s \ {x}) \ {q} = (s \ {q}) \ {x}
            OBVIOUS
          <5>4. f[(s \ {q}) \ {x}] \in Nat
            <6>1. Cardinality((s \ {q}) \ {x}) = n - 2 /\ n - 2 \in Nat /\ ~(n <= n - 2)
              <7>1. IsFiniteSet(s \ {q}) /\ Cardinality(s \ {q}) = Cardinality(s) - 1
                BY <2>3, FS_RemoveElement
              <7>2. x \in s \ {q}
                BY <4>2
              <7>3. /\ Cardinality((s \ {q}) \ {x}) = Cardinality(s \ {q}) - 1
                    /\ IsFiniteSet((s \ {q}) \ {x})
                BY <7>1, <7>2, FS_RemoveElement
              <7>4. Cardinality((s \ {q}) \ {x}) \in Nat
                BY <7>3, FS_CardinalityType
              <7> QED
                BY <2>2, <3>1, <7>1, <7>3, <7>4
            <6>2. n - 2 \notin Sizes
              BY <2>1, <6>1
            <6> QED
              BY <6>1, <6>2
          <5>5. reqs[x].granted \in Nat /\ reqs[q].granted \in Nat
            OBVIOUS
          <5> DEFINE rest == f[(s \ {q}) \ {x}]
                     a == reqs[x].granted
                     b == reqs[q].granted
          <5>6. /\ f[s] = a + f[s \ {x}] /\ f[s \ {x}] = b + rest
                /\ f[s \ {q}] = a + rest
            BY <3>3, <5>1, <5>2, <5>3
          <5> HIDE DEF rest, a, b
          <5>7. a \in Nat /\ b \in Nat /\ rest \in Nat
            BY <5>4, <5>5 DEF rest, a, b
          <5>8. f[s] = b + f[s \ {q}]
            BY <5>6, <5>7
          <5> QED
            BY <5>8 DEF b
        <4> QED
          BY <4>1, <4>2
      <3> QED
        BY <2>2, <3>4, <3>5
    <2> QED
      BY <2>5, <2>6
  <1>2. \A s \in SUBSET D : Cardinality(s) \in Nat
    BY FS_Subset, FS_CardinalityType
  <1> QED
    BY <1>1, <1>2

(* The sum of a finite set of grants: nothing for none, as the grants say  *)
(* and nothing else, and one more grant adds its days.                     *)
LEMMA TotalOfNone == ASSUME NEW reqs PROVE Total(reqs, {}) = 0
  <1>1. \E f : Sums(reqs, f, {})
    BY SumsExist, FS_EmptySet
  <1>2. PICK f : Sums(reqs, f, {}) /\ Total(reqs, {}) = f[{}]
    BY <1>1, TotalIs
  <1> QED
    BY <1>2 DEF Sums, Term

LEMMA TotalSame ==
    ASSUME NEW reqs, NEW new, NEW S, IsFiniteSet(S),
           \A q \in S : new[q].granted = reqs[q].granted
    PROVE  Total(new, S) = Total(reqs, S)
  <1>1. PICK f : Sums(reqs, f, S) /\ Total(reqs, S) = f[S]
    BY SumsExist, TotalIs
  <1>2. PICK g : Sums(new, g, S) /\ Total(new, S) = g[S]
    BY SumsExist, TotalIs
  <1> QED
    BY <1>1, <1>2, SumsAgree

LEMMA TotalAdds ==
    ASSUME NEW reqs, NEW S, IsFiniteSet(S), NEW q, q \notin S,
           \A r \in S \cup {q} : reqs[r].granted \in Nat
    PROVE  /\ Total(reqs, S) \in Nat
           /\ Total(reqs, S \cup {q}) = Total(reqs, S) + reqs[q].granted
  <1> DEFINE D == S \cup {q}
  <1>1. IsFiniteSet(D) /\ q \in D /\ D \ {q} = S /\ S \in SUBSET D
    BY FS_AddElement
  <1> HIDE DEF D
  <1>2. PICK f : Sums(reqs, f, D) /\ Total(reqs, D) = f[D]
    BY <1>1, SumsExist, TotalIs
  <1>3. PICK g : Sums(reqs, g, S) /\ Total(reqs, S) = g[S]
    BY SumsExist, TotalIs
  <1>4. g[S] = f[S]
    BY <1>1, <1>2, <1>3, SumsAgree
  <1>5. \A r \in D : reqs[r].granted \in Nat
    BY DEF D
  <1>6. f[S] \in Nat /\ f[D] = reqs[q].granted + f[D \ {q}]
    BY <1>1, <1>2, <1>5, SumsSplit
  <1>7. reqs[q].granted \in Nat
    OBVIOUS
  <1>8. Total(reqs, D) = reqs[q].granted + Total(reqs, S)
    BY <1>1, <1>2, <1>3, <1>4, <1>6
  <1>9. Total(reqs, S) \in Nat
    BY <1>3, <1>4, <1>6
  <1>10. Total(reqs, D) = Total(reqs, S) + reqs[q].granted
    BY <1>7, <1>8, <1>9
  <1> QED
    BY <1>9, <1>10 DEF D

-----------------------------------------------------------------------------
(* The end of a window adds up. *)

Granted(d) == {q \in Request : requests[q].status = "approved" /\ requests[q].deal = d}

(* A registration that was never approved has no days; the grants of a     *)
(* window are finitely many, and its end is their sum.                     *)
Accounts ==
    \A d \in Deal :
        /\ deals[d].start = NoDay => deals[d].end = NoDay /\ deals[d].days = 0
        /\ IsFiniteSet(Granted(d))
        /\ deals[d].end = deals[d].start + deals[d].days + Total(requests, Granted(d))

LEMMA AccountsAre == Accounts => WindowAccounting
  BY DEF Accounts, WindowAccounting, Total, Granted

LEMMA InitAccounts == Init => Accounts
  <1> SUFFICES ASSUME Init, NEW d \in Deal
               PROVE  /\ deals[d].start = NoDay => deals[d].end = NoDay /\ deals[d].days = 0
                      /\ IsFiniteSet(Granted(d))
                      /\ deals[d].end = deals[d].start + deals[d].days
                                            + Total(requests, Granted(d))
    BY DEF Accounts
  <1>1. Granted(d) = {}
    BY DEF Init, Granted, NoRequest
  <1>2. Total(requests, {}) = 0
    BY TotalOfNone
  <1>3. deals[d].start = 0 /\ deals[d].end = 0 /\ deals[d].days = 0
    BY DEF Init, NoDeal, NoDay
  <1>4. Total(requests, Granted(d)) = 0
    BY <1>1, <1>2
  <1> QED
    BY <1>1, <1>3, <1>4, FS_EmptySet DEF NoDay

SameWindow(old, new) == new.start = old.start /\ new.end = old.end /\ new.days = old.days

LEMMA AccountsKept ==
    ASSUME Accounts, NEW d \in Deal, SameWindow(deals[d], deals'[d]),
           \A q \in Request :
               /\ requests'[q].status = "approved" <=> requests[q].status = "approved"
               /\ requests[q].status = "approved" => requests'[q] = requests[q]
    PROVE  /\ deals'[d].start = NoDay => deals'[d].end = NoDay /\ deals'[d].days = 0
           /\ IsFiniteSet(Granted(d)')
           /\ deals'[d].end = deals'[d].start + deals'[d].days
                                  + Total(requests', Granted(d)')
  <1>1. Granted(d)' = Granted(d)
    BY DEF Granted
  <1>2. IsFiniteSet(Granted(d)) /\ \A q \in Granted(d) : requests'[q] = requests[q]
    BY DEF Accounts, Granted
  <1>3. Total(requests', Granted(d)) = Total(requests, Granted(d))
    BY <1>2, TotalSame
  <1>4. /\ deals[d].start = NoDay => deals[d].end = NoDay /\ deals[d].days = 0
        /\ deals[d].end = deals[d].start + deals[d].days + Total(requests, Granted(d))
    BY DEF Accounts
  <1> QED
    BY <1>1, <1>2, <1>3, <1>4 DEF SameWindow

(* All that a step other than an approval or a grant does to a window.     *)
LEMMA AccountsSame ==
    ASSUME Accounts, \A d \in Deal : SameWindow(deals[d], deals'[d]),
           \A q \in Request :
               /\ requests'[q].status = "approved" <=> requests[q].status = "approved"
               /\ requests[q].status = "approved" => requests'[q] = requests[q]
    PROVE  Accounts'
  BY AccountsKept DEF Accounts

LEMMA ApproveAccounts ==
    ASSUME NEW h \in Session, UInv(h), Accounts, CommitApprove(h)
    PROVE  Accounts'
  <1> DEFINE t == txn[h]
  <1>0. t.deal \in Deal
    BY DEF UInv, IInv, Arguments, CommitApprove
  <1>00. PICK e \in Deal : e = t.deal
    BY <1>0
  <1> DEFINE new == Approved(deals[e], t.days, today)
  <1>1. /\ t \in Txn /\ e \in Deal /\ deals[e].status = "pending"
        /\ deals[e] \in DealRow /\ deals \in [Deal -> DealRow]
        /\ requests \in [Request -> RequestRow] /\ today \in Nat \ {0}
    BY <1>00, TxnFacts DEF UInv, IInv, Types, Arguments, StillAsRead, CommitApprove, Open
  <1>2. deals' = [deals EXCEPT ![e] = new] /\ requests' = requests
    BY <1>00 DEF CommitApprove
  <1>3. new.start = today /\ new.end = today + t.days /\ new.days = t.days
    BY <1>1 DEF Approved, DealRow
  <1>4. Granted(e)' = {}
    <2>1. deals[e].start = NoDay
      BY <1>1 DEF UInv, IInv, Windows
    <2>2. \A q \in Request : requests[q].status # "absent" =>
                                deals[requests[q].deal].start # NoDay
      BY DEF UInv, IInv, Windows
    <2>3. \A q \in Request : ~(requests'[q].status = "approved" /\ requests'[q].deal = e)
      BY <1>2, <2>1, <2>2
    <2> QED
      BY <2>3 DEF Granted
  <1>5. Total(requests', Granted(e)') = 0
    BY <1>4, TotalOfNone
  <1>6. t.days \in Nat
    BY <1>1 DEF Txn
  <1> HIDE DEF new
  <1>7. deals'[e] = new /\ \A d \in Deal \ {e} : deals'[d] = deals[d]
    BY <1>1, <1>2
  <1> HIDE DEF t
  <1>8. /\ deals'[e].start = NoDay => deals'[e].end = NoDay /\ deals'[e].days = 0
        /\ IsFiniteSet(Granted(e)')
        /\ deals'[e].end = deals'[e].start + deals'[e].days + Total(requests', Granted(e)')
    <2>1. deals'[e].start # NoDay
      BY <1>1, <1>3, <1>7 DEF NoDay
    <2>2. IsFiniteSet(Granted(e)')
      BY <1>4, FS_EmptySet
    <2>3. deals'[e].end = deals'[e].start + deals'[e].days + 0
      BY <1>1, <1>3, <1>6, <1>7
    <2> QED
      BY <1>5, <2>1, <2>2, <2>3
  <1>9. ASSUME NEW d \in Deal \ {e}
        PROVE  /\ deals'[d].start = NoDay => deals'[d].end = NoDay /\ deals'[d].days = 0
               /\ IsFiniteSet(Granted(d)')
               /\ deals'[d].end = deals'[d].start + deals'[d].days
                                      + Total(requests', Granted(d)')
    <2>1. SameWindow(deals[d], deals'[d])
      BY <1>7 DEF SameWindow
    <2> QED
      BY <1>2, <2>1, AccountsKept
  <1>10. \A d \in Deal :
        /\ deals'[d].start = NoDay => deals'[d].end = NoDay /\ deals'[d].days = 0
        /\ IsFiniteSet(Granted(d)')
        /\ deals'[d].end = deals'[d].start + deals'[d].days + Total(requests', Granted(d)')
    BY <1>8, <1>9
  <1> QED
    BY <1>10 DEF Accounts

LEMMA GrantAccounts ==
    ASSUME NEW h \in Session, UInv(h), Accounts, CommitGrant(h)
    PROVE  Accounts'
  <1> DEFINE t == txn[h]
  <1>0. t.deal \in Deal /\ t.request \in Request
    BY DEF UInv, IInv, Arguments, CommitGrant
  <1>00. PICK e \in Deal, q \in Request : e = t.deal /\ q = t.request
    BY <1>0
  <1> DEFINE new == ExtendedOver(deals[e], t.saw[e], t.days)
  <1>1. /\ t \in Txn /\ e \in Deal /\ q \in Request
        /\ requests[q].status = "pending" /\ requests[q].deal = e
        /\ t.saw[e].end = deals[e].end
        /\ deals[e] \in DealRow /\ deals \in [Deal -> DealRow]
        /\ requests \in [Request -> RequestRow]
    BY <1>00, TxnFacts DEF UInv, IInv, Types, Arguments, StillAsRead, CommitGrant, Open
  <1>2. /\ new.start = deals[e].start /\ new.days = deals[e].days
        /\ new.end = deals[e].end + t.days
    BY <1>1 DEF ExtendedOver, DealRow
  <1>3. CASE UNCHANGED <<deals, requests>>
    BY <1>3, AccountsSame DEF SameWindow
  <1>4. CASE /\ deals' = [deals EXCEPT ![e] = new]
             /\ requests' = [requests EXCEPT ![q].status = "approved",
                                             ![q].granted = t.days]
    <2> HIDE DEF new
    <2>1. /\ requests'[q].status = "approved" /\ requests'[q].granted = t.days
          /\ requests'[q].deal = e
          /\ \A r \in Request \ {q} : requests'[r] = requests[r]
      BY <1>1, <1>4 DEF RequestRow
    <2>2. deals'[e] = new /\ \A d \in Deal \ {e} : deals'[d] = deals[d]
      BY <1>1, <1>4
    <2>3. t.days \in Nat /\ deals[e].start \in Nat /\ deals[e].end \in Nat
          /\ deals[e].days \in Nat
      BY <1>1 DEF Txn, DealRow
    <2>4. \A r \in Request : requests'[r].granted \in Nat
      <3>1. \A r \in Request : requests[r].granted \in Nat
        BY <1>1 DEF RequestRow
      <3> QED
        BY <2>1, <2>3, <3>1
    <2> HIDE DEF t
    <2>5. Granted(e)' = Granted(e) \cup {q} /\ q \notin Granted(e)
      BY <1>1, <2>1 DEF Granted
    <2>6. IsFiniteSet(Granted(e)) /\ Granted(e) \subseteq Request \ {q}
      BY <1>1 DEF Accounts, Granted
    <2>7. Total(requests', Granted(e)) = Total(requests, Granted(e))
      BY <2>1, <2>6, TotalSame
    <2>8. /\ Total(requests', Granted(e)) \in Nat
          /\ Total(requests', Granted(e)') = Total(requests', Granted(e)) + t.days
      <3>1. \A r \in Granted(e) \cup {q} : requests'[r].granted \in Nat
        BY <1>1, <2>4, <2>6
      <3>2. /\ Total(requests', Granted(e)) \in Nat
            /\ Total(requests', Granted(e) \cup {q})
                  = Total(requests', Granted(e)) + requests'[q].granted
        BY <2>5, <2>6, <3>1, TotalAdds
      <3> QED
        BY <2>1, <2>5, <3>2
    <2>9. /\ deals[e].start = NoDay => deals[e].end = NoDay /\ deals[e].days = 0
          /\ deals[e].end = deals[e].start + deals[e].days + Total(requests, Granted(e))
      BY <1>1 DEF Accounts
    <2>10. deals[e].start # NoDay
      BY <1>1 DEF UInv, IInv, Windows
    <2>11. /\ deals'[e].start = NoDay => deals'[e].end = NoDay /\ deals'[e].days = 0
           /\ IsFiniteSet(Granted(e)')
           /\ deals'[e].end = deals'[e].start + deals'[e].days
                                  + Total(requests', Granted(e)')
      <3>1. IsFiniteSet(Granted(e)')
        BY <2>5, <2>6, FS_AddElement
      <3> DEFINE sum == Total(requests', Granted(e))
                 now == Total(requests', Granted(e)')
      <3>2. sum \in Nat /\ now = sum + t.days
            /\ deals[e].end = deals[e].start + deals[e].days + sum
        BY <2>7, <2>8, <2>9
      <3> HIDE DEF sum, now
      <3>3. deals'[e].start = deals[e].start /\ deals'[e].days = deals[e].days
            /\ deals'[e].end = deals[e].end + t.days
        BY <1>2, <2>2
      <3>4. deals'[e].end = deals'[e].start + deals'[e].days + now
        BY <2>3, <3>2, <3>3
      <3> QED
        BY <2>10, <3>1, <3>3, <3>4 DEF now
    <2>12. ASSUME NEW d \in Deal \ {e}
           PROVE  /\ deals'[d].start = NoDay => deals'[d].end = NoDay /\ deals'[d].days = 0
                  /\ IsFiniteSet(Granted(d)')
                  /\ deals'[d].end = deals'[d].start + deals'[d].days
                                         + Total(requests', Granted(d)')
      <3>1. Granted(d)' = Granted(d) /\ q \notin Granted(d)
        BY <1>1, <2>1 DEF Granted
      <3>2. IsFiniteSet(Granted(d)) /\ Granted(d) \subseteq Request \ {q}
        BY <3>1 DEF Accounts, Granted
      <3>3. Total(requests', Granted(d)) = Total(requests, Granted(d))
        BY <2>1, <3>2, TotalSame
      <3>4. /\ deals[d].start = NoDay => deals[d].end = NoDay /\ deals[d].days = 0
            /\ deals[d].end = deals[d].start + deals[d].days + Total(requests, Granted(d))
        BY DEF Accounts
      <3> QED
        BY <2>2, <3>1, <3>2, <3>3, <3>4
    <2>13. \A d \in Deal :
           /\ deals'[d].start = NoDay => deals'[d].end = NoDay /\ deals'[d].days = 0
           /\ IsFiniteSet(Granted(d)')
           /\ deals'[d].end = deals'[d].start + deals'[d].days
                                  + Total(requests', Granted(d)')
      BY <2>11, <2>12
    <2> QED
      BY <2>13 DEF Accounts
  <1> QED
    BY <1>00, <1>3, <1>4 DEF CommitGrant

LEMMA NextAccounts ==
    ASSUME NEW h \in Session \ Sweeper, UInv(h), Accounts, [Next]_vars
    PROVE  Accounts'
  <1>0. h \in Session /\ \A s \in Session \ {h} : txn[s].kind \in {"idle", "sweep"}
    BY DEF UInv, OnlyServes
  <1>1. /\ requests \in [Request -> RequestRow] /\ deals \in [Deal -> DealRow]
        /\ txn \in [Session -> Txn \cup {Idle}]
    BY DEF UInv, IInv, Types
  <1>2. CASE CommitApprove(h)
    BY <1>0, <1>2, ApproveAccounts
  <1>3. CASE CommitGrant(h)
    BY <1>0, <1>3, GrantAccounts
  <1> DEFINE Quiet == /\ \A d \in Deal : SameWindow(deals[d], deals'[d])
                      /\ \A q \in Request :
                            /\ requests'[q].status = "approved" <=>
                                   requests[q].status = "approved"
                            /\ requests[q].status = "approved" => requests'[q] = requests[q]
  <1>4. ASSUME UNCHANGED <<deals, requests>> PROVE Quiet
    BY <1>4 DEF SameWindow
  <1>5. ASSUME NEW s \in Session, Commit(s), ~CommitApprove(h), ~CommitGrant(h)
        PROVE  Quiet
    <2>1. CASE CommitCreate(s)
      <3>1. /\ txn[s].deal \in Deal /\ deals[txn[s].deal].status = "absent"
            /\ txn[s].company \in Company /\ txn[s].name \in Name
        BY <2>1 DEF CommitCreate, UInv, IInv, Arguments, Inserting
      <3>2. deals[txn[s].deal].start = NoDay
        BY <3>1 DEF UInv, IInv, Windows
      <3>3. deals[txn[s].deal].end = NoDay /\ deals[txn[s].deal].days = 0
        BY <3>1, <3>2 DEF Accounts
      <3> DEFINE new == Registered(txn[s].company, txn[s].name)
      <3>4. new.start = NoDay /\ new.end = NoDay /\ new.days = 0
        BY DEF Registered, NoDeal
      <3>5. deals' = [deals EXCEPT ![txn[s].deal] = new] /\ requests' = requests
        BY <2>1 DEF CommitCreate
      <3> HIDE DEF new
      <3>6. SameWindow(deals[txn[s].deal], new)
        BY <3>2, <3>3, <3>4 DEF SameWindow
      <3>7. \A d \in Deal : SameWindow(deals[d], deals[d])
        BY DEF SameWindow
      <3>8. \A d \in Deal : SameWindow(deals[d], deals'[d])
        BY <1>1, <3>5, <3>6, <3>7
      <3> QED
        BY <3>5, <3>8
    <2>2. CASE CommitReject(s)
      <3>1. txn[s].deal \in Deal /\ deals[txn[s].deal] \in DealRow
        BY <1>1, <2>2 DEF CommitReject, UInv, IInv, Arguments
      <3>2. SameWindow(deals[txn[s].deal], Rejected(deals[txn[s].deal]))
        BY <3>1 DEF SameWindow, Rejected, DealRow
      <3>3. /\ deals' = [deals EXCEPT ![txn[s].deal] = Rejected(deals[txn[s].deal])]
            /\ requests' = requests
        BY <1>1, <2>2, <3>1 DEF CommitReject
      <3>4. \A d \in Deal : SameWindow(deals[d], deals[d])
        BY DEF SameWindow
      <3> HIDE DEF Quiet
      <3>5. \A d \in Deal : SameWindow(deals[d], deals'[d])
        BY <1>1, <3>2, <3>3, <3>4
      <3> QED
        BY <3>3, <3>5 DEF Quiet
    <2>3. CASE CommitSweep(s)
      <3>1. \A d \in Deal : deals'[d] = SweptOver(deals[d], txn[s].saw[d])
        BY <2>3 DEF CommitSweep
      <3>2. ASSUME NEW d \in Deal PROVE SameWindow(deals[d], deals'[d])
        <4>1. deals[d] \in DealRow
          BY <1>1
        <4>2. deals'[d] = SweptOver(deals[d], txn[s].saw[d])
          BY <3>1
        <4>3. SameWindow(deals[d], SweptOver(deals[d], txn[s].saw[d]))
          BY <4>1 DEF SameWindow, SweptOver, DealRow
        <4> QED
          BY <4>2, <4>3
      <3>3. requests' = requests
        BY <2>3 DEF CommitSweep
      <3> QED
        BY <3>2, <3>3
    <2>4. CASE CommitRequest(s) \/ CommitRefuse(s)
      <3>1. s = h
        BY <1>0, <2>4 DEF CommitRequest, CommitRefuse
      <3>2. /\ requests[txn[h].request].status \in {"absent", "pending"}
            /\ deals' = deals
        BY <2>4, <3>1 DEF CommitRequest, CommitRefuse, UInv, StillAsRead
      <3>3. /\ \A q \in Request \ {txn[h].request} : requests'[q] = requests[q]
            /\ txn[h].request \in Request
            /\ requests'[txn[h].request].status # "approved"
        <4>1. txn[h].request \in Request
          BY <1>0, <2>4, <3>1 DEF CommitRequest, CommitRefuse, UInv, IInv, Arguments
        <4>2. CASE CommitRequest(h)
          BY <1>1, <3>2, <4>1, <4>2 DEF CommitRequest
        <4>3. CASE CommitRefuse(h)
          BY <1>1, <4>1, <4>3 DEF CommitRefuse, RequestRow
        <4> QED
          BY <2>4, <3>1, <4>1, <4>2, <4>3
      <3>4. \A d \in Deal : SameWindow(deals[d], deals'[d])
        BY <3>2 DEF SameWindow
      <3>5. ASSUME NEW q \in Request
            PROVE  /\ requests'[q].status = "approved" <=> requests[q].status = "approved"
                   /\ requests[q].status = "approved" => requests'[q] = requests[q]
        <4>1. CASE q = txn[h].request
          BY <3>2, <3>3, <4>1
        <4>2. CASE q # txn[h].request
          BY <3>3, <4>2
        <4> QED
          BY <4>1, <4>2
      <3> QED
        BY <3>4, <3>5
    <2>5. CASE CommitApprove(s) \/ CommitGrant(s)
      BY <1>0, <1>5, <2>5 DEF CommitApprove, CommitGrant
    <2> HIDE DEF Quiet
    <2> QED
      BY <1>5, <2>1, <2>2, <2>3, <2>4, <2>5 DEF Commit
  <1>6. ASSUME NEW s \in Session, Read(s) \/ Write(s) \/ Rollback(s)
        PROVE  UNCHANGED <<deals, requests>>
    BY <1>6 DEF Read, ReadSweep, ReadCreate, ReadDecideDeal, ReadRequest,
        ReadDecideRequest, Begin, Write, WriteApprove, WriteGrant, WriteSweep,
        Rollback, tables
  <1>7. ASSUME DayPasses \/ UNCHANGED vars PROVE UNCHANGED <<deals, requests>>
    BY <1>7 DEF DayPasses, tables, vars
  <1>8. ASSUME Quiet PROVE Accounts'
    BY <1>8, AccountsSame
  <1> HIDE DEF Quiet
  <1> QED
    BY <1>2, <1>3, <1>4, <1>5, <1>6, <1>7, <1>8 DEF Next

LEMMA AccountsInvariance ==
    ASSUME NEW h \in Session \ Sweeper
    PROVE  Init /\ [][Next]_vars /\ []OnlyServes(h) => []Accounts
  <1>1. Init => Accounts
    BY InitAccounts
  <1>2. UInv(h) /\ Accounts /\ [Next]_vars => Accounts'
    BY NextAccounts
  <1> QED
    BY <1>1, <1>2, OneUserInvariance, PTL

(* With one user at a time, whatever the sweeps do beside, the end of a    *)
(* window is its start, the days of the approval and every day granted     *)
(* since: no grant of decide_extension is lost, and none counts twice.     *)
THEOREM OneUserAccounts ==
    ASSUME NEW h \in Session \ Sweeper
    PROVE  Spec /\ []OnlyServes(h) => []WindowAccounting
  <1>1. Accounts => WindowAccounting
    BY AccountsAre
  <1> QED
    BY <1>1, AccountsInvariance, PTL DEF Spec

-----------------------------------------------------------------------------
(* One transaction at a time: the statements of a handler are one step of  *)
(* Exclusivity.                                                            *)

(* The active rows of customer_ownership, and those the sweep releases.    *)
Own == {rows[i] : i \in {j \in RowId : rows[j] # None}}

Releasable ==
    UNION {ReleasableNow(d) : d \in {e \in Deal : Lapsed(deals[e], today)}}

(* Ids come from a sequence: none that is still to come has a row.         *)
Unused == \A i \in RowId : i >= nextRow => rows[i] = None

(* Nobody else writes, so what a transaction found is so when it commits.  *)
AsRead(t) ==
    /\ t.kind = "create" => ~RegistrationConflict(deals, t.company, t.name, today)
    /\ t.kind \in {"approve", "reject"} => deals[t.deal].status = "pending"
    /\ t.kind = "request" =>
          /\ requests[t.request].status = "absent"
          /\ deals[t.deal].status = "approved"
          /\ ~IndexRefuses(t)
    /\ t.kind \in {"request", "grant"} => t.days \in ExtensionDays
    /\ t.kind \in {"grant", "refuse"} =>
          requests[t.request].status = "pending" /\ requests[t.request].deal = t.deal
    /\ t.kind = "grant" => t.saw[t.deal] = deals[t.deal]
    /\ t.kind = "sweep" =>
          \A d \in Deal :
             t.saw[d] = IF deals[d].status = "approved" THEN deals[d] ELSE NoDeal

AsWritten(t) ==
    t.at = "written" =>
        /\ t.kind \in {"approve", "grant"} => t.mine = OwnedNow(deals[t.deal])
        /\ t.kind = "approve" => (t.paid <=> t.deal \in earned)
        /\ t.kind = "sweep" => t.mine = Releasable

(* Nobody but this session has a transaction open.                         *)
OnlyOpens(one) == \A s \in Session \ {one} : ~Open(s)

SInv(one) ==
    /\ IInv
    /\ OneRowPerKey
    /\ Unused
    /\ AsRead(txn[one])
    /\ AsWritten(txn[one])

(* What a transaction that looked for the rows of a key has found.         *)
LEMMA OwnedFacts ==
    ASSUME NEW deal
    PROVE  /\ \A i \in RowId :
                 rows[i] # None /\ OfKey(rows[i], deal)
                    => <<i, rows[i]>> \in OwnedNow(deal)
           /\ \A m \in OwnedNow(deal) :
                 /\ m[1] \in RowId /\ rows[m[1]] # None
                 /\ OfKey(rows[m[1]], deal) /\ m[2] = rows[m[1]]
  <1>1. ASSUME NEW i \in RowId, rows[i] # None, OfKey(rows[i], deal)
        PROVE  <<i, rows[i]>> \in OwnedNow(deal)
    BY <1>1 DEF OwnedNow, OfKey
  <1>2. ASSUME NEW m \in OwnedNow(deal)
        PROVE  /\ m[1] \in RowId /\ rows[m[1]] # None
               /\ OfKey(rows[m[1]], deal) /\ m[2] = rows[m[1]]
    <2>1. PICK i \in RowId :
             /\ rows[i] # None /\ m = <<i, rows[i]>>
             /\ rows[i].customer = Norm[deal.name]
             /\ rows[i].company = deal.company
             /\ rows[i].country = CountryOf[deal.company]
      BY DEF OwnedNow
    <2>2. m[1] = i /\ m[2] = rows[i]
      BY <2>1
    <2> QED
      BY <2>1, <2>2 DEF OfKey
  <1> QED
    BY <1>1, <1>2

(* While no key has two rows, scalar_one_or_none() does not raise.         *)
LEMMA OwnedIsOne ==
    ASSUME OneRowPerKey, NEW t, NEW deal, t.mine = OwnedNow(deal)
    PROVE  ~Ambiguous(t)
  <1>1. CASE t.mine = {}
    BY <1>1, FS_EmptySet DEF Ambiguous
  <1>2. CASE t.mine # {}
    <2>1. PICK m \in t.mine : TRUE
      BY <1>2
    <2>2. ASSUME NEW n \in t.mine PROVE n = m
      <3>1. PICK i \in RowId : n = <<i, rows[i]>> /\ rows[i] # None
                               /\ OfKey(rows[i], deal)
        BY DEF OwnedNow, OfKey
      <3>2. PICK j \in RowId : m = <<j, rows[j]>> /\ rows[j] # None
                               /\ OfKey(rows[j], deal)
        BY DEF OwnedNow, OfKey
      <3> QED
        BY <3>1, <3>2 DEF OneRowPerKey, OfKey
    <2>3. t.mine = {m}
      BY <2>2
    <2> QED
      BY <2>3, FS_Singleton DEF Ambiguous
  <1> QED
    BY <1>1, <1>2

(* The statements of upsert_ownership_from_deal on rows with ids are the   *)
(* upsert of the set of rows.                                              *)
LEMMA UpsertIsUpsert ==
    ASSUME Types, OneRowPerKey, Unused, NEW t \in Txn, t.deal \in Deal,
           NEW deal \in DealRow, deal.company \in Company, deal.name \in Name,
           t.mine = OwnedNow(deal), CommitUpsert(t, deal)
    PROVE  Own' = Upsert(Own, t.deal, deal, CountryOf[deal.company])
  <1> DEFINE mine == RowsFor(Own, deal, CountryOf[deal.company])
  <1>1. \A row : row \in mine <=> row \in Own /\ OfKey(row, deal)
    BY DEF RowsFor, OfKey
  <1>2. \A row : row \in Own <=> \E i \in RowId : rows[i] # None /\ row = rows[i]
    BY DEF Own
  <1>3. \A row : row \in Own' <=> \E i \in RowId : rows'[i] # None /\ row = rows'[i]
    BY DEF Own
  <1> HIDE DEF mine
  <1>4. CASE Norm[deal.name] = Blank
    BY <1>4 DEF CommitUpsert, Upsert, Own
  <1>5. CASE Norm[deal.name] # Blank /\ t.mine = {}
    <2> DEFINE new == OwnershipFrom(t.deal, deal, CountryOf[deal.company])
    <2>1. new \in OwnershipRow
      <3>1. /\ Norm[deal.name] \in Customer
            /\ CountryOf[deal.company] \in Country /\ deal.end \in Nat
        BY <1>5, NormAssumption, CountryOfAssumption DEF DealRow
      <3> QED
        BY <3>1 DEF OwnershipFrom, OwnershipRow
    <2>2. new # None
      BY <2>1, NoRowAssumption
    <2>3. nextRow \in RowId /\ rows' = [rows EXCEPT ![nextRow] = new]
      BY <1>5 DEF CommitUpsert
    <2>4. mine = {}
      <3>1. \A i \in RowId : rows[i] # None => ~OfKey(rows[i], deal)
        BY <1>5, OwnedFacts
      <3> QED
        BY <1>1, <1>2, <3>1
    <2>5. Upsert(Own, t.deal, deal, CountryOf[deal.company]) = Own \cup {new}
      BY <1>5, <2>4 DEF Upsert, mine
    <2> HIDE DEF new
    <2>6. rows[nextRow] = None
      BY <2>3, DayTypes DEF Unused
    <2>7. rows'[nextRow] = new /\ \A i \in RowId \ {nextRow} : rows'[i] = rows[i]
      BY <2>3 DEF Types
    <2>8. Own' = Own \cup {new}
      BY <1>2, <1>3, <2>2, <2>3, <2>6, <2>7
    <2> QED
      BY <2>5, <2>8
  <1>6. CASE Norm[deal.name] # Blank /\ t.mine # {}
    <2>1. PICK m \in t.mine :
             rows' = [rows EXCEPT ![m[1]] = RowUpdated(m[1], m[2], t.deal, deal)]
      BY <1>6 DEF CommitUpsert
    <2> DEFINE i == m[1]
               row == rows[i]
               new == Moved(row, t.deal, deal)
    <2>2. /\ i \in RowId /\ row # None /\ OfKey(row, deal) /\ m[2] = row
      BY OwnedFacts
    <2>3. row \in OwnershipRow
      BY <2>2 DEF Types
    <2>4. row.until \in Nat /\ deal.end \in Nat
      BY <2>3 DEF OwnershipRow, DealRow
    <2>5. RowUpdated(i, row, t.deal, deal) = new /\ new \in OwnershipRow
      <3>1. CASE deal.end <= row.until
        <4>1. new = row
          BY <2>4, <3>1 DEF Moved
        <4> QED
          BY <2>3, <3>1, <4>1 DEF RowUpdated
      <3>2. CASE ~(deal.end <= row.until)
        <4>1. new = [row EXCEPT !.until = deal.end, !.source = t.deal]
          BY <2>4, <3>2 DEF Moved
        <4>2. RowUpdated(i, row, t.deal, deal) =
                 [row EXCEPT !.until = deal.end,
                             !.source = IF row.source = t.deal THEN @ ELSE t.deal]
          BY <2>2, <3>2 DEF RowUpdated
        <4>3. RowUpdated(i, row, t.deal, deal) = new
          <5>1. CASE row.source = t.deal
            BY <2>3, <4>1, <4>2, <5>1 DEF OwnershipRow
          <5>2. CASE row.source # t.deal
            BY <2>3, <4>1, <4>2, <5>2 DEF OwnershipRow
          <5> QED
            BY <5>1, <5>2
        <4>4. new \in OwnershipRow
          BY <2>3, <2>4, <4>1 DEF OwnershipRow
        <4> QED
          BY <4>3, <4>4
      <3> QED
        BY <3>1, <3>2
    <2>6. new # None
      BY <2>5, NoRowAssumption
    <2>7. mine = {row}
      <3>1. ASSUME NEW r, r \in mine PROVE r = row
        <4>1. PICK j \in RowId : rows[j] # None /\ r = rows[j] /\ OfKey(r, deal)
          BY <1>1, <1>2, <3>1
        <4>2. j = i
          BY <2>2, <4>1 DEF OneRowPerKey, OfKey
        <4> QED
          BY <4>1, <4>2
      <3>2. row \in mine
        BY <1>1, <1>2, <2>2
      <3> QED
        BY <3>1, <3>2
    <2>8. Upsert(Own, t.deal, deal, CountryOf[deal.company]) = (Own \ {row}) \cup {new}
      <3>1. Upsert(Own, t.deal, deal, CountryOf[deal.company])
               = (Own \ mine) \cup {Moved(r, t.deal, deal) : r \in mine}
        BY <1>6, <2>7 DEF Upsert, mine
      <3>2. {Moved(r, t.deal, deal) : r \in mine} = {new}
        BY <2>7
      <3> QED
        BY <2>7, <3>1, <3>2
    <2>9. \A j \in RowId \ {i} : rows[j] # row
      BY <2>2 DEF OneRowPerKey, OfKey
    <2> HIDE DEF row, new
    <2>10. rows'[i] = new /\ \A j \in RowId \ {i} : rows'[j] = rows[j]
      BY <2>1, <2>2, <2>5 DEF Types
    <2>11. row = rows[i]
      BY DEF row
    <2> HIDE DEF i
    <2>12. Own' = (Own \ {row}) \cup {new}
      <3>1. ASSUME NEW r, r \in Own' PROVE r \in (Own \ {row}) \cup {new}
        BY <1>2, <1>3, <2>2, <2>9, <2>10, <3>1
      <3>2. ASSUME NEW r, r \in (Own \ {row}) \cup {new} PROVE r \in Own'
        BY <1>2, <1>3, <2>2, <2>6, <2>10, <2>11, <3>2
      <3> QED
        BY <3>1, <3>2
    <2> QED
      BY <2>8, <2>12
  <1> QED
    BY <1>4, <1>5, <1>6

(* An upsert takes the next id, or writes on a row there is.               *)
LEMMA UpsertKeepsUnused ==
    ASSUME Types, Unused, NEW t \in Txn, NEW deal, CommitUpsert(t, deal)
    PROVE  Unused'
  <1>1. CASE Norm[deal.name] = Blank
    BY <1>1 DEF CommitUpsert, Unused
  <1>2. CASE Norm[deal.name] # Blank /\ t.mine = {}
    <2>1. /\ nextRow \in RowId /\ nextRow' = nextRow + 1 /\ nextRow \in Nat
          /\ \A i \in RowId \ {nextRow} : rows'[i] = rows[i]
      BY <1>2, DayTypes DEF CommitUpsert, Types
    <2>2. ASSUME NEW i \in RowId, i >= nextRow' PROVE rows'[i] = None
      <3>1. i \in Nat
        BY DayTypes
      <3>2. i >= nextRow /\ i # nextRow
        BY <2>1, <2>2, <3>1
      <3> QED
        BY <2>1, <3>2 DEF Unused
    <2> QED
      BY <2>2 DEF Unused
  <1>3. CASE Norm[deal.name] # Blank /\ t.mine # {}
    <2>1. PICK m \in t.mine :
             /\ rows' = [rows EXCEPT ![m[1]] = RowUpdated(m[1], m[2], t.deal, deal)]
             /\ nextRow' = nextRow
      BY <1>3 DEF CommitUpsert
    <2>2. m[1] \in RowId
      BY DEF Txn
    <2>3. rows[m[1]] = None => rows'[m[1]] = None
      BY <2>1, <2>2 DEF Types, RowUpdated
    <2>4. \A i \in RowId \ {m[1]} : rows'[i] = rows[i]
      BY <2>1, <2>2 DEF Types
    <2> QED
      BY <2>1, <2>3, <2>4 DEF Unused
  <1> QED
    BY <1>1, <1>2, <1>3

LEMMA InitSInv ==
    ASSUME NEW one \in Session, Init PROVE SInv(one)
  <1>1. txn[one] = Idle
    BY DEF Init
  <1>2. AsRead(txn[one]) /\ AsWritten(txn[one])
    BY <1>1, IdleFacts DEF AsRead, AsWritten
  <1>3. OneRowPerKey /\ Unused
    BY DEF Init, OneRowPerKey, Unused
  <1> QED
    BY <1>2, <1>3, InitIInv DEF SInv

(* It begins: what the guards just read is so.                             *)
LEMMA AloneReads ==
    ASSUME NEW one \in Session, SInv(one), Read(one) PROVE SInv(one)'
  <1>1. ASSUME NEW d \in Deal, NEW c \in Company, NEW n \in Name,
               ReadCreate(one, d, c, n)
        PROVE  \E t : Begin(one, t) /\ t.at = "read" /\ AsRead(t)
    <2> DEFINE t == [Idle EXCEPT !.kind = "create", !.deal = d,
                                 !.company = c, !.name = n]
    <2>1. t.kind = "create" /\ t.at = "read" /\ t.company = c /\ t.name = n
      BY DEF Idle
    <2>2. Begin(one, t) /\ ~RegistrationConflict(deals, c, n, today)
      BY <1>1 DEF ReadCreate
    <2> HIDE DEF t
    <2> QED
      BY <2>1, <2>2 DEF AsRead
  <1>2. ASSUME NEW d \in Deal, NEW kind \in {"approve", "reject"}, NEW days,
               ReadDecideDeal(one, d, kind, days)
        PROVE  \E t : Begin(one, t) /\ t.at = "read" /\ AsRead(t)
    <2> DEFINE t == [Idle EXCEPT !.kind = kind, !.deal = d, !.days = days]
    <2>1. t.kind = kind /\ t.at = "read" /\ t.deal = d
      BY DEF Idle
    <2>2. Begin(one, t) /\ deals[d].status = "pending"
      BY <1>2 DEF ReadDecideDeal
    <2> HIDE DEF t
    <2> QED
      BY <2>1, <2>2 DEF AsRead
  <1>3. ASSUME NEW q \in Request, NEW d \in Deal, NEW days \in ExtensionDays,
               ReadRequest(one, q, d, days)
        PROVE  \E t : Begin(one, t) /\ t.at = "read" /\ AsRead(t)
    <2> DEFINE t == [Idle EXCEPT !.kind = "request", !.deal = d,
                                 !.request = q, !.days = days]
    <2>1. /\ t.kind = "request" /\ t.at = "read" /\ t.request = q
          /\ t.deal = d /\ t.days = days
      BY DEF Idle
    <2>2. /\ Begin(one, t) /\ requests[q].status = "absent"
          /\ deals[d].status = "approved"
          /\ \A r \in Request :
                ~(requests[r].status = "pending" /\ requests[r].deal = d)
      BY <1>3 DEF ReadRequest, FreshRequest
    <2> HIDE DEF t
    <2> QED
      BY <2>1, <2>2 DEF AsRead, IndexRefuses
  <1>4. ASSUME NEW q \in Request, NEW kind \in {"grant", "refuse"}, NEW days,
               kind = "grant" => days \in ExtensionDays,
               ReadDecideRequest(one, q, kind, days)
        PROVE  \E t : Begin(one, t) /\ t.at = "read" /\ AsRead(t)
    <2> DEFINE d == requests[q].deal
               t == [Idle EXCEPT !.kind = kind, !.deal = d, !.request = q,
                                 !.days = days, !.saw = OnlyDeal(d)]
    <2>1. /\ t.kind = kind /\ t.at = "read" /\ t.deal = d /\ t.request = q
          /\ t.saw = OnlyDeal(d) /\ t.days = days
      BY DEF Idle
    <2>2. Begin(one, t) /\ requests[q].status = "pending"
      BY <1>4 DEF ReadDecideRequest
    <2>3. OnlyDeal(d)[d] = deals[d]
      BY <2>2 DEF OnlyDeal, SInv, IInv, Windows
    <2> HIDE DEF t, d
    <2> QED
      BY <1>4, <2>1, <2>2, <2>3 DEF d, AsRead
  <1>5. ASSUME ReadSweep(one)
        PROVE  \E t : Begin(one, t) /\ t.at = "read" /\ AsRead(t)
    <2> DEFINE seen == [d \in Deal |-> IF deals[d].status = "approved"
                                       THEN deals[d] ELSE NoDeal]
               t == [Idle EXCEPT !.kind = "sweep", !.saw = seen]
    <2>1. t.kind = "sweep" /\ t.at = "read" /\ t.saw = seen
      BY DEF Idle
    <2>2. Begin(one, t)
      BY <1>5 DEF ReadSweep
    <2> HIDE DEF t
    <2> QED
      BY <2>1, <2>2 DEF AsRead
  <1>6. PICK t : Begin(one, t) /\ t.at = "read" /\ AsRead(t)
    BY <1>1, <1>2, <1>3, <1>4, <1>5 DEF Read
  <1>7. UNCHANGED <<today, deals, requests, rows, nextRow, earned>> /\ txn'[one] = t
    BY <1>6 DEF Begin, tables, SInv, IInv, Types
  <1>8. AsRead(t)'
    BY <1>6, <1>7 DEF AsRead, IndexRefuses
  <1>9. AsRead(txn[one])' /\ AsWritten(txn[one])'
    BY <1>6, <1>7, <1>8 DEF AsRead, AsWritten
  <1>10. OneRowPerKey' /\ Unused'
    BY <1>7 DEF SInv, OneRowPerKey, Unused
  <1>11. IInv'
    BY ReadStep DEF SInv
  <1> QED
    BY <1>9, <1>10, <1>11 DEF SInv

(* It flushes: the rows it then looks for are so.                          *)
LEMMA AloneWrites ==
    ASSUME NEW one \in Session, SInv(one), Write(one), IInv' PROVE SInv(one)'
  <1> DEFINE t == txn[one]
  <1>1. Open(one) /\ UNCHANGED <<today, deals, requests, rows, nextRow, earned>>
    BY DEF Write, WriteApprove, WriteGrant, WriteSweep, Open, tables
  <1>2. t \in Txn /\ txn \in [Session -> Txn \cup {Idle}]
    BY <1>1, TxnFacts DEF SInv, IInv, Types
  <1>3. /\ txn'[one].kind = t.kind /\ txn'[one].deal = t.deal
        /\ txn'[one].request = t.request /\ txn'[one].saw = t.saw
        /\ txn'[one].days = t.days /\ txn'[one].company = t.company
        /\ txn'[one].name = t.name
        /\ t.kind \in {"approve", "grant"} => txn'[one].mine = OwnedNow(deals[t.deal])
        /\ t.kind = "approve" => (txn'[one].paid <=> t.deal \in earned)
        /\ t.kind = "sweep" =>
              txn'[one].mine = UNION {ReleasableNow(d) : d \in
                                      {e \in Deal : Lapsed(t.saw[e], today)}}
    <2>1. CASE WriteApprove(one)
      BY <1>2, <2>1 DEF WriteApprove, Holding, Txn
    <2>2. CASE WriteGrant(one)
      BY <1>2, <2>2 DEF WriteGrant, Holding, Txn
    <2>3. CASE WriteSweep(one)
      BY <1>2, <2>3 DEF WriteSweep, Holding, Txn
    <2> QED
      BY <2>1, <2>2, <2>3 DEF Write
  <1>4. AsRead(txn[one])'
    BY <1>1, <1>3 DEF SInv, AsRead, IndexRefuses
  <1>5. AsWritten(txn[one])'
    <2>1. t.kind = "sweep" => \A d \in Deal :
                                 Lapsed(t.saw[d], today) <=> Lapsed(deals[d], today)
      BY IdleFacts DEF SInv, AsRead, Lapsed
    <2>2. t.kind = "sweep" => txn'[one].mine = Releasable
      BY <1>3, <2>1 DEF Releasable
    <2>3. Releasable' = Releasable
      BY <1>1 DEF Releasable, ReleasableNow
    <2>4. OwnedNow(deals[txn[one].deal])' = OwnedNow(deals[t.deal])
      BY <1>1, <1>3 DEF OwnedNow
    <2> QED
      BY <1>1, <1>3, <2>2, <2>3, <2>4 DEF AsWritten
  <1>6. OneRowPerKey' /\ Unused'
    BY <1>1 DEF SInv, OneRowPerKey, Unused
  <1> QED
    BY <1>4, <1>5, <1>6 DEF SInv

(* It ends, and nothing is open.                                           *)
LEMMA AloneEnds ==
    ASSUME NEW one \in Session, SInv(one), Commit(one) \/ Rollback(one), IInv'
    PROVE  SInv(one)'
  <1> DEFINE t == txn[one]
  <1>1. txn'[one] = Idle
    BY DEF Commit, CommitCreate, CommitApprove, CommitReject, CommitRequest,
        CommitGrant, CommitRefuse, CommitSweep, Rollback, End, SInv, IInv, Types
  <1>2. AsRead(txn[one])' /\ AsWritten(txn[one])'
    BY <1>1, IdleFacts DEF AsRead, AsWritten
  <1>3. \/ UNCHANGED <<rows, nextRow>>
        \/ \E new : /\ t.kind \in {"approve", "grant"} /\ t.at = "written"
                    /\ new.name = deals[t.deal].name
                    /\ new.company = deals[t.deal].company
                    /\ CommitUpsert(t, new)
        \/ /\ nextRow' = nextRow
           /\ \A i \in RowId : rows'[i] \in {rows[i], None}
    <2>1. CASE CommitApprove(one)
      <3> DEFINE new == Approved(deals[t.deal], t.days, today)
      <3>1. deals[t.deal] \in DealRow /\ t.days \in Nat /\ today \in Nat
        BY <2>1, TxnFacts DEF CommitApprove, Open, SInv, IInv, Types, Arguments, Txn
      <3>2. new.name = deals[t.deal].name /\ new.company = deals[t.deal].company
        BY <3>1 DEF Approved, DealRow
      <3>3. UNCHANGED <<rows, nextRow>> \/ CommitUpsert(t, new)
        BY <2>1 DEF CommitApprove
      <3> HIDE DEF new
      <3> QED
        BY <2>1, <3>2, <3>3 DEF CommitApprove
    <2>2. CASE CommitGrant(one)
      <3> DEFINE new == ExtendedOver(deals[t.deal], t.saw[t.deal], t.days)
      <3>1. /\ deals[t.deal] \in DealRow /\ t.days \in Nat
            /\ t.saw[t.deal] \in DealRow
        BY <2>2, TxnFacts DEF CommitGrant, Open, SInv, IInv, Types, Arguments, Txn
      <3>2. new.name = deals[t.deal].name /\ new.company = deals[t.deal].company
        BY <3>1, ExtendedRow
      <3>3. UNCHANGED <<rows, nextRow>> \/ CommitUpsert(t, new)
        BY <2>2 DEF CommitGrant
      <3> HIDE DEF new
      <3> QED
        BY <2>2, <3>2, <3>3 DEF CommitGrant
    <2>3. CASE CommitSweep(one)
      BY <2>3 DEF CommitSweep
    <2> QED
      BY <2>1, <2>2, <2>3 DEF Commit, CommitCreate, CommitReject, CommitRequest,
          CommitRefuse, Rollback, tables
  <1>4. OneRowPerKey' /\ Unused'
    <2>1. CASE UNCHANGED <<rows, nextRow>>
      BY <2>1 DEF SInv, OneRowPerKey, Unused
    <2>2. ASSUME NEW new, t.kind \in {"approve", "grant"}, t.at = "written",
                 new.name = deals[t.deal].name, new.company = deals[t.deal].company,
                 CommitUpsert(t, new)
          PROVE  OneRowPerKey' /\ Unused'
      <3>1. t \in Txn
        BY <2>2, TxnFacts DEF Open, SInv
      <3>2. t.mine = OwnedNow(new)
        BY <2>2 DEF SInv, AsWritten, OwnedNow
      <3>3. t.mine = {} => \A i \in RowId : rows[i] # None => ~OfKey(rows[i], new)
        BY <3>2, OwnedFacts
      <3> QED
        BY <2>2, <3>1, <3>3, UpsertKeepsOne, UpsertKeepsUnused DEF SInv, IInv
    <2>3. CASE nextRow' = nextRow /\ \A i \in RowId : rows'[i] \in {rows[i], None}
      <3>1. OneRowPerKey'
        BY <2>3 DEF SInv, OneRowPerKey
      <3>2. Unused'
        BY <2>3 DEF SInv, Unused
      <3> QED
        BY <3>1, <3>2
    <2> QED
      BY <1>3, <2>1, <2>2, <2>3
  <1> QED
    BY <1>2, <1>4 DEF SInv

(* A session that has nothing open, before and after, does nothing.        *)
LEMMA NobodyElse ==
    ASSUME NEW one \in Session, OnlyOpens(one), OnlyOpens(one)', Types, [Next]_vars
    PROVE  \/ Read(one) \/ Write(one) \/ Commit(one) \/ Rollback(one)
           \/ DayPasses \/ UNCHANGED vars
  <1>1. ASSUME NEW s \in Session \ {one},
               Read(s) \/ Write(s) \/ Commit(s) \/ Rollback(s)
        PROVE  FALSE
    <2>1. txn[s].kind = "idle" /\ txn'[s].kind = "idle"
      BY DEF OnlyOpens, Open
    <2>2. ~ReadSweep(s)
      BY <2>1 DEF ReadSweep, Begin, Idle, Types
    <2>3. ~Read(s)
      BY <2>1, <2>2, OthersOnlySweep
    <2> QED
      BY <1>1, <2>1, <2>3 DEF Write, WriteApprove, WriteGrant, WriteSweep, Commit,
          CommitCreate, CommitApprove, CommitReject, CommitRequest, CommitGrant,
          CommitRefuse, CommitSweep, Rollback, Open
  <1> QED
    BY <1>1 DEF Next

LEMMA NextSInv ==
    ASSUME NEW one \in Session, OnlyOpens(one), SInv(one), [Next]_vars, OnlyOpens(one)'
    PROVE  SInv(one)'
  <1>1. IInv'
    BY NextIInv DEF SInv
  <1>2. CASE Read(one) \/ Write(one) \/ Commit(one) \/ Rollback(one)
    BY <1>1, <1>2, AloneReads, AloneWrites, AloneEnds
  <1>3. CASE DayPasses
    <2>1. UNCHANGED <<rows, nextRow, txn>> /\ ~Open(one)
      BY <1>3 DEF DayPasses, tables
    <2>2. txn[one] = Idle
      BY <2>1 DEF Open, SInv, IInv, Types, Txn, Kind
    <2>3. AsRead(txn[one])' /\ AsWritten(txn[one])'
      BY <2>1, <2>2, IdleFacts DEF AsRead, AsWritten
    <2> QED
      BY <1>1, <2>1, <2>3 DEF SInv, OneRowPerKey, Unused
  <1>4. CASE UNCHANGED vars
    <2>1. UNCHANGED <<today, deals, requests, rows, nextRow, earned, txn>>
      BY <1>4 DEF vars
    <2>2. OneRowPerKey' /\ Unused'
      BY <2>1 DEF SInv, OneRowPerKey, Unused
    <2>3. AsRead(txn[one])'
      BY <2>1 DEF SInv, AsRead, IndexRefuses
    <2>4. Releasable' = Releasable
          /\ OwnedNow(deals[txn[one].deal])' = OwnedNow(deals[txn[one].deal])
      BY <2>1 DEF Releasable, ReleasableNow, OwnedNow
    <2>5. AsWritten(txn[one])'
      BY <2>1, <2>4 DEF SInv, AsWritten
    <2> QED
      BY <1>1, <2>2, <2>3, <2>5 DEF SInv
  <1> QED
    BY <1>2, <1>3, <1>4, NobodyElse DEF SInv, IInv

LEMMA AloneInvariance ==
    ASSUME NEW one \in Session
    PROVE  Init /\ [][Next]_vars /\ []OnlyOpens(one) => []SInv(one)
  <1>1. Init => SInv(one)
    BY InitSInv
  <1>2. OnlyOpens(one) /\ SInv(one) /\ [Next]_vars /\ OnlyOpens(one)' => SInv(one)'
    BY NextSInv
  <1> QED
    BY <1>1, <1>2, PTL

(* The operators of Exclusivity are those of DealTables.                   *)
LEMMA SameOperators ==
    /\ \A c, n : Serial!Registered(c, n) = Registered(c, n)
    /\ \A row, days, day : Serial!Approved(row, days, day) = Approved(row, days, day)
    /\ \A row : Serial!Rejected(row) = Rejected(row)
    /\ \A row, days : Serial!Extended(row, days) = Extended(row, days)
    /\ \A row, day : Serial!Swept(row, day) = Swept(row, day)
    /\ \A row, day : Serial!Lapsed(row, day) <=> Lapsed(row, day)
    /\ \A c, n : Serial!RegistrationConflict(deals, c, n, today)
                    <=> RegistrationConflict(deals, c, n, today)
    /\ \A set, d, row, k : Serial!Upsert(set, d, row, k) = Upsert(set, d, row, k)
    /\ \A set, d, day : Serial!ReleasedBy(set, d, day) = ReleasedBy(set, d, day)
  <1>1. \A c, n : Serial!Registered(c, n) = Registered(c, n)
    BY DEF Serial!Registered, Registered, Serial!NoDeal, NoDeal, Serial!NoDay, NoDay
  <1>2. \A row, days, day : Serial!Approved(row, days, day) = Approved(row, days, day)
    BY DEF Serial!Approved, Approved
  <1>3. /\ \A row : Serial!Rejected(row) = Rejected(row)
        /\ \A row, days : Serial!Extended(row, days) = Extended(row, days)
    BY DEF Serial!Rejected, Rejected, Serial!Extended, Extended
  <1>4. \A row, day : Serial!Lapsed(row, day) <=> Lapsed(row, day)
    BY DEF Serial!Lapsed, Lapsed
  <1>5. \A row, day : Serial!Swept(row, day) = Swept(row, day)
    BY <1>4 DEF Serial!Swept, Swept, Serial!WarningDue, WarningDue, Serial!Expired,
        Expired, Serial!Warned, Warned
  <1>6. \A c, n : Serial!RegistrationConflict(deals, c, n, today)
                     <=> RegistrationConflict(deals, c, n, today)
    BY DEF Serial!RegistrationConflict, RegistrationConflict, Serial!LiveWindow,
        LiveWindow
  <1>7. \A set, d, row, k : Serial!Upsert(set, d, row, k) = Upsert(set, d, row, k)
    BY DEF Serial!Upsert, Upsert, Serial!RowsFor, RowsFor, Serial!Moved, Moved,
        Serial!OwnershipFrom, OwnershipFrom
  <1>8. \A set, d, day : Serial!ReleasedBy(set, d, day) = ReleasedBy(set, d, day)
    BY DEF Serial!ReleasedBy, ReleasedBy
  <1> QED
    BY <1>1, <1>2, <1>3, <1>4, <1>5, <1>6, <1>7, <1>8

(* What each commit of a lone transaction is to Exclusivity.               *)
LEMMA CreateIsCreate ==
    ASSUME NEW one \in Session, SInv(one), CommitCreate(one) PROVE Serial!Next
  <1> DEFINE t == txn[one]
  <1>1. /\ t.kind = "create" /\ t.deal \in Deal /\ t.company \in Company
        /\ t.name \in Name /\ deals[t.deal].status = "absent"
        /\ ~RegistrationConflict(deals, t.company, t.name, today)
    BY DEF CommitCreate, SInv, IInv, Arguments, Inserting, AsRead
  <1>2. /\ deals' = [deals EXCEPT ![t.deal] = Registered(t.company, t.name)]
        /\ UNCHANGED <<today, requests, rows, earned>>
    BY DEF CommitCreate
  <1>3. Serial!InsertDeal(t.deal, t.company, t.name)
    BY <1>1, <1>2, SameOperators DEF Serial!InsertDeal, Serial!companies
  <1>4. Serial!CreateDeal(t.deal, t.company, t.name)
    BY <1>1, <1>3, SameOperators DEF Serial!CreateDeal
  <1> QED
    BY <1>1, <1>4 DEF Serial!Next

LEMMA ApproveIsApprove ==
    ASSUME NEW one \in Session, SInv(one), CommitApprove(one) PROVE Serial!Next
  <1> DEFINE t == txn[one]
             deal == Approved(deals[t.deal], t.days, today)
  <1>1. /\ t.kind = "approve" /\ t.at = "written"
        /\ t \in Txn /\ t.deal \in Deal /\ t.days \in WindowDays
        /\ deals[t.deal].status = "pending"
        /\ t.mine = OwnedNow(deals[t.deal]) /\ (t.paid <=> t.deal \in earned)
    BY TxnFacts DEF CommitApprove, Open, SInv, Arguments, AsRead, AsWritten
  <1>2. /\ deals[t.deal] \in DealRow /\ t.days \in Nat /\ today \in Nat
        /\ deals[t.deal].company \in Company /\ deals[t.deal].name \in Name
    BY <1>1, DayTypes DEF SInv, IInv, Types, Windows
  <1>3. /\ deal \in DealRow /\ deal.company = deals[t.deal].company
        /\ deal.name = deals[t.deal].name
    <2>1. today + t.days \in Nat
      BY <1>2
    <2> QED
      BY <1>2, <2>1 DEF Approved, DealRow, DealStatus
  <1>4. /\ deals' = [deals EXCEPT ![t.deal] = deal]
        /\ IF Ambiguous(t) THEN UNCHANGED <<rows, nextRow>> ELSE CommitUpsert(t, deal)
        /\ earned' = IF t.paid THEN earned ELSE earned \cup {t.deal}
        /\ UNCHANGED <<today, requests>>
    BY DEF CommitApprove
  <1>5. deal = Serial!Approved(deals[t.deal], t.days, today)
    BY SameOperators
  <1> HIDE DEF deal
  <1>6. t.mine = OwnedNow(deal)
    BY <1>1, <1>3 DEF OwnedNow
  <1>7. CommitUpsert(t, deal)
    BY <1>4, <1>6, OwnedIsOne DEF SInv
  <1>8. Own' = Upsert(Own, t.deal, deal, CountryOf[deal.company])
    BY <1>1, <1>2, <1>3, <1>6, <1>7, UpsertIsUpsert DEF SInv, IInv
  <1>9. earned' = earned \cup {t.deal} /\ deal.company \in Company
    BY <1>1, <1>2, <1>3, <1>4
  <1>10. PICK d \in Deal, days \in WindowDays : d = t.deal /\ days = t.days
    BY <1>1
  <1>11. Serial!ApproveDeal(d, days)
    BY <1>1, <1>4, <1>5, <1>8, <1>9, <1>10, SameOperators
    DEF Serial!ApproveDeal, Serial!companies, Own
  <1> QED
    BY <1>11 DEF Serial!Next

LEMMA RejectIsReject ==
    ASSUME NEW one \in Session, SInv(one), CommitReject(one) PROVE Serial!Next
  <1> DEFINE t == txn[one]
  <1>1. t.deal \in Deal /\ deals[t.deal].status = "pending"
    BY DEF CommitReject, SInv, IInv, Arguments, AsRead
  <1>2. /\ deals' = [deals EXCEPT ![t.deal] = Rejected(deals[t.deal])]
        /\ UNCHANGED <<today, requests, rows, earned>>
    BY DEF CommitReject
  <1>3. Serial!RejectDeal(t.deal)
    BY <1>1, <1>2, SameOperators DEF Serial!RejectDeal, Serial!companies
  <1> QED
    BY <1>1, <1>3 DEF Serial!Next

LEMMA RequestIsRequest ==
    ASSUME NEW one \in Session, SInv(one), CommitRequest(one) PROVE Serial!Next
  <1> DEFINE t == txn[one]
  <1>1. /\ t.deal \in Deal /\ t.request \in Request /\ t.days \in ExtensionDays
        /\ requests[t.request].status = "absent"
        /\ deals[t.deal].status = "approved" /\ ~IndexRefuses(t)
    BY DEF CommitRequest, SInv, IInv, Arguments, AsRead
  <1>2. /\ requests' = [requests EXCEPT ![t.request] =
                           [status |-> "pending", deal |-> t.deal,
                            asked |-> t.days, granted |-> 0]]
        /\ UNCHANGED <<today, deals, rows, earned>>
    BY <1>1 DEF CommitRequest
  <1>3. ~Serial!OpenRequest(t.deal)
    BY <1>1 DEF Serial!OpenRequest, IndexRefuses
  <1>4. Serial!RequestExtension(t.request, t.deal, t.days)
    BY <1>1, <1>2, <1>3 DEF Serial!RequestExtension, Serial!companies
  <1> QED
    BY <1>1, <1>4 DEF Serial!Next

LEMMA GrantIsGrant ==
    ASSUME NEW one \in Session, SInv(one), CommitGrant(one) PROVE Serial!Next
  <1> DEFINE t == txn[one]
             row == deals[t.deal]
             deal == ExtendedOver(row, t.saw[t.deal], t.days)
  <1>1. /\ t.kind = "grant" /\ t.at = "written"
        /\ t \in Txn /\ t.deal \in Deal /\ t.request \in Request
        /\ t.days \in ExtensionDays /\ row.start # NoDay
        /\ requests[t.request].status = "pending"
        /\ requests[t.request].deal = t.deal
        /\ t.saw[t.deal] = row /\ t.mine = OwnedNow(row)
    BY TxnFacts DEF CommitGrant, Open, SInv, Arguments, AsRead, AsWritten
  <1>2. /\ row \in DealRow /\ t.days \in Nat
        /\ row.company \in Company /\ row.name \in Name
    BY <1>1, DayTypes DEF SInv, IInv, Types, Windows
  <1>3. /\ deal \in DealRow /\ deal.company = row.company /\ deal.name = row.name
    <2>1. row.end + t.days \in Nat
      BY <1>2 DEF DealRow
    <2> QED
      BY <1>1, <1>2, <2>1 DEF ExtendedOver, DealRow
  <1>4. deal = Extended(row, t.days)
    <2>1. row.warned \in BOOLEAN
      BY <1>2 DEF DealRow
    <2>2. CASE row.warned = TRUE
      BY <1>1, <1>2, <2>2 DEF ExtendedOver, Extended, DealRow
    <2>3. CASE row.warned = FALSE
      BY <1>1, <1>2, <2>3 DEF ExtendedOver, Extended, DealRow
    <2> QED
      BY <2>1, <2>2, <2>3
  <1>5. IF Ambiguous(t) THEN UNCHANGED <<deals, requests, rows, nextRow>>
        ELSE /\ deals' = [deals EXCEPT ![t.deal] = deal]
             /\ requests' = [requests EXCEPT ![t.request].status = "approved",
                                             ![t.request].granted = t.days]
             /\ CommitUpsert(t, deal)
    BY DEF CommitGrant
  <1>6. UNCHANGED <<today, earned>>
    BY DEF CommitGrant
  <1>7. deal = Serial!Extended(deals[requests[t.request].deal], t.days)
    BY <1>1, <1>4, SameOperators
  <1> HIDE DEF deal
  <1>8. t.mine = OwnedNow(deal)
    BY <1>1, <1>3 DEF OwnedNow
  <1>9. /\ deals' = [deals EXCEPT ![t.deal] = deal]
        /\ requests' = [requests EXCEPT ![t.request].status = "approved",
                                        ![t.request].granted = t.days]
        /\ CommitUpsert(t, deal)
    BY <1>5, <1>8, OwnedIsOne DEF SInv
  <1>10. Own' = Upsert(Own, t.deal, deal, CountryOf[deal.company])
    BY <1>1, <1>2, <1>3, <1>8, <1>9, UpsertIsUpsert DEF SInv, IInv
  <1>11. PICK q \in Request, days \in ExtensionDays : q = t.request /\ days = t.days
    BY <1>1
  <1>12. Serial!GrantExtension(q, days)
    BY <1>1, <1>6, <1>7, <1>9, <1>10, <1>11, SameOperators
    DEF Serial!GrantExtension, Serial!companies, Own
  <1> QED
    BY <1>12 DEF Serial!Next

LEMMA RefuseIsRefuse ==
    ASSUME NEW one \in Session, SInv(one), CommitRefuse(one) PROVE Serial!Next
  <1> DEFINE t == txn[one]
  <1>1. t.request \in Request /\ requests[t.request].status = "pending"
    BY DEF CommitRefuse, SInv, IInv, Arguments, AsRead
  <1>2. /\ requests' = [requests EXCEPT ![t.request].status = "refused"]
        /\ UNCHANGED <<today, deals, rows, earned>>
    BY DEF CommitRefuse
  <1>3. Serial!RefuseExtension(t.request)
    BY <1>1, <1>2 DEF Serial!RefuseExtension, Serial!companies
  <1> QED
    BY <1>1, <1>3 DEF Serial!Next

LEMMA SweepIsSweep ==
    ASSUME NEW one \in Session, SInv(one), CommitSweep(one) PROVE Serial!Next
  <1> DEFINE t == txn[one]
             over == {d \in Deal : Lapsed(deals[d], today)}
             released == UNION {ReleasedBy(Own, d, today) : d \in over}
  <1>1. /\ t.mine = Releasable
        /\ \A d \in Deal :
              t.saw[d] = IF deals[d].status = "approved" THEN deals[d] ELSE NoDeal
    BY DEF CommitSweep, SInv, AsRead, AsWritten
  <1>2. /\ deals' = [d \in Deal |-> SweptOver(deals[d], t.saw[d])]
        /\ rows' = [i \in RowId |->
                      IF \E m \in t.mine : m[1] = i THEN None ELSE rows[i]]
        /\ UNCHANGED <<today, requests, earned>>
    BY DEF CommitSweep
  <1>3. deals' = [d \in Deal |-> Swept(deals[d], today)]
    <2>1. ASSUME NEW d \in Deal PROVE SweptOver(deals[d], t.saw[d]) = Swept(deals[d], today)
      <3>1. deals[d] \in DealRow /\ deals[d].warned \in BOOLEAN
        BY DEF SInv, IInv, Types, DealRow
      <3>2. CASE deals[d].status # "approved"
        BY <1>1, <3>2, IdleFacts DEF SweptOver, Swept, Lapsed, WarningDue
      <3>3. CASE deals[d].status = "approved" /\ deals[d].warned = TRUE
        <4>1. t.saw[d] = deals[d]
          BY <1>1, <3>3
        <4> QED
          BY <3>1, <3>3, <4>1 DEF SweptOver, Swept, Expired, WarningDue, DealRow
      <3>4. CASE deals[d].status = "approved" /\ deals[d].warned = FALSE
        <4>1. t.saw[d] = deals[d]
          BY <1>1, <3>4
        <4> QED
          BY <3>1, <3>4, <4>1 DEF SweptOver, Swept, Expired, Warned, DealRow
      <3> QED
        BY <3>1, <3>2, <3>3, <3>4
    <2> QED
      BY <1>2, <2>1
  <1>4. Own' = Own \ released
    <2>1. ASSUME NEW i \in RowId, rows[i] # None
          PROVE  (\E m \in t.mine : m[1] = i) <=> rows[i] \in released
      <3>1. rows[i] \in Own
        BY <2>1 DEF Own
      <3>2. (\E m \in t.mine : m[1] = i) <=>
               \E d \in over : rows[i].source = d /\ rows[i].until <= today
        <4>1. ASSUME NEW m \in t.mine, m[1] = i
              PROVE  \E d \in over : rows[i].source = d /\ rows[i].until <= today
          <5>1. PICK d \in over : m \in ReleasableNow(d)
            BY <1>1 DEF Releasable
          <5>2. PICK j \in RowId : /\ m = <<j, rows[j]>>
                                   /\ rows[j].source = d /\ rows[j].until <= today
            BY <5>1 DEF ReleasableNow
          <5>3. j = i
            BY <4>1, <5>2
          <5> QED
            BY <5>2, <5>3
        <4>2. ASSUME NEW d \in over, rows[i].source = d, rows[i].until <= today
              PROVE  \E m \in t.mine : m[1] = i
          <5>1. <<i, rows[i]>> \in ReleasableNow(d)
            BY <2>1, <4>2 DEF ReleasableNow
          <5>2. <<i, rows[i]>> \in t.mine
            BY <1>1, <5>1 DEF Releasable
          <5> QED
            BY <5>2
        <4> QED
          BY <4>1, <4>2
      <3>3. rows[i] \in released <=>
               \E d \in over : rows[i].source = d /\ rows[i].until <= today
        BY <3>1 DEF ReleasedBy
      <3> QED
        BY <3>2, <3>3
    <2> HIDE DEF released
    <2>2. \A row : row \in Own <=> \E i \in RowId : rows[i] # None /\ row = rows[i]
      BY DEF Own
    <2>3. \A row : row \in Own' <=> \E i \in RowId : rows'[i] # None /\ row = rows'[i]
      BY DEF Own
    <2>4. ASSUME NEW i \in RowId
          PROVE  /\ rows[i] # None /\ rows[i] \notin released => rows'[i] = rows[i]
                 /\ ~(rows[i] # None /\ rows[i] \notin released) => rows'[i] = None
      BY <1>2, <2>1
    <2> QED
      BY <2>2, <2>3, <2>4
  <1>5. deals' = [d \in Deal |-> Serial!Swept(deals[d], today)]
    <2>1. [d \in Deal |-> Serial!Swept(deals[d], today)]
             = [d \in Deal |-> Swept(deals[d], today)]
      BY SameOperators
    <2> QED
      BY <1>3, <2>1
  <1>6. Own' = Own \ UNION {Serial!ReleasedBy(Own, d, today) :
                              d \in {e \in Deal : Serial!Lapsed(deals[e], today)}}
    <2>1. {e \in Deal : Serial!Lapsed(deals[e], today)} = over
      BY SameOperators
    <2>2. {Serial!ReleasedBy(Own, d, today) : d \in over}
             = {ReleasedBy(Own, d, today) : d \in over}
      BY SameOperators
    <2> QED
      BY <1>4, <2>1, <2>2
  <1>7. Serial!SweepExclusivity
    BY <1>2, <1>5, <1>6 DEF Serial!SweepExclusivity, Serial!companies, Own
  <1> QED
    BY <1>7 DEF Serial!Next

LEMMA InitIsInit == Init => Serial!Init
  <1>1. ASSUME Init PROVE Own = {}
    BY <1>1 DEF Init, Own
  <1> QED
    BY <1>1, CountryOfAssumption DEF Init, Serial!Init, Own, Serial!NoDeal, NoDeal,
        Serial!NoDay, NoDay, Serial!NoRequest, NoRequest

LEMMA AloneSteps ==
    ASSUME NEW one \in Session, SInv(one), OnlyOpens(one), [Next]_vars, OnlyOpens(one)'
    PROVE  StepOfExclusivity
  <1>1. ASSUME UNCHANGED <<today, deals, requests, rows, earned>>
        PROVE  StepOfExclusivity
    BY <1>1 DEF StepOfExclusivity, Serial!vars
  <1>2. CASE Read(one) \/ Write(one) \/ Rollback(one) \/ UNCHANGED vars
    BY <1>1, <1>2 DEF Read, ReadSweep, ReadCreate, ReadDecideDeal, ReadRequest,
        ReadDecideRequest, Begin, Write, WriteApprove, WriteGrant, WriteSweep,
        Rollback, tables, vars
  <1>3. CASE Commit(one)
    BY <1>3, CreateIsCreate, ApproveIsApprove, RejectIsReject,
        RequestIsRequest, GrantIsGrant, RefuseIsRefuse, SweepIsSweep
    DEF Commit, StepOfExclusivity
  <1>4. CASE DayPasses
    BY <1>4 DEF DayPasses, tables, StepOfExclusivity, Serial!Next,
        Serial!DayPasses, Serial!companies
  <1> QED
    BY <1>2, <1>3, <1>4, NobodyElse DEF SInv, IInv

(* With one transaction at a time, reading early and writing late changes  *)
(* nothing: every step of the statements is a step of the atomic handlers, *)
(* or none.  What is proved of Exclusivity is then about the code as it    *)
(* runs alone.                                                             *)
THEOREM AloneIsExclusivity ==
    ASSUME NEW one \in Session
    PROVE  Spec /\ []OnlyOpens(one) => Serial!Init /\ [][StepOfExclusivity]_vars
  <1>1. SInv(one) /\ OnlyOpens(one) /\ [Next]_vars /\ OnlyOpens(one)'
            => [StepOfExclusivity]_vars
    BY AloneSteps
  <1> QED
    BY <1>1, InitIsInit, AloneInvariance, PTL DEF Spec

-----------------------------------------------------------------------------
(* The crowds of MCDealTxn: its properties, whatever the constants are.    *)

LEMMA CrowdStep ==
    ASSUME [CrowdNext]_<<vars, crowd>>
    PROVE  /\ [Next]_vars /\ crowd' = crowd
           /\ Within' \/ UNCHANGED <<txn, crowd>>
  BY DEF CrowdNext, vars

(* Only h1 serves requests while the crowd is one user.                    *)
LEMMA OneUserServes ==
    ASSUME Types', crowd' = OneUser, Within' PROVE OnlyServes(h1)'
  <1>1. OneUser.handlers = {h1}
    BY DEF OneUser
  <1>2. ASSUME NEW s \in Session, s # h1 PROVE txn'[s].kind \in {"idle", "sweep"}
    BY <1>1, <1>2 DEF Within, Open
  <1> QED
    BY <1>2 DEF OnlyServes

(* Only z opens a transaction while it is alone.                           *)
LEMMA AloneOpens ==
    ASSUME crowd' = Alone, Within' PROVE OnlyOpens(z)'
  <1>1. Alone.handlers = {z} /\ Alone.sweepers = {z}
    BY DEF Alone
  <1> QED
    BY <1>1 DEF Within, OnlyOpens, Open

LEMMA CrowdInvariance ==
    CrowdSpec => /\ [](crowd = OneUser => UInv(h1) /\ Accounts)
                 /\ [](crowd = Alone => SInv(z) /\ OnlyOpens(z))
  <1>0. h1 \in Session \ Sweeper /\ z \in Session
    BY CrowdAssumption DEF Session
  <1>1. CrowdInit => (crowd = OneUser => UInv(h1) /\ Accounts)
    BY <1>0, InitUInv, InitAccounts DEF CrowdInit
  <1>2. CrowdInit => (crowd = Alone => SInv(z) /\ OnlyOpens(z))
    BY <1>0, InitSInv, IdleFacts DEF CrowdInit, Init, OnlyOpens, Open
  <1>3. ASSUME crowd = OneUser => UInv(h1) /\ Accounts, [CrowdNext]_<<vars, crowd>>
        PROVE  (crowd = OneUser => UInv(h1) /\ Accounts)'
    <2> SUFFICES ASSUME crowd = OneUser, crowd' = OneUser PROVE (UInv(h1) /\ Accounts)'
      BY <1>3, CrowdStep
    <2>1. UInv(h1) /\ Accounts /\ [Next]_vars
      BY <1>3, CrowdStep
    <2>2. CASE Within'
      <3>1. IInv'
        BY <2>1, NextIInv DEF UInv
      <3>2. OnlyServes(h1)'
        BY <2>2, <3>1, OneUserServes DEF IInv
      <3> QED
        BY <1>0, <2>1, <3>2, NextUInv, NextAccounts
    <2>3. CASE UNCHANGED <<txn, crowd>>
      <3>1. OnlyServes(h1)'
        BY <2>1, <2>3 DEF UInv, OnlyServes
      <3> QED
        BY <1>0, <2>1, <3>1, NextUInv, NextAccounts
    <2> QED
      BY <1>3, <2>2, <2>3, CrowdStep
  <1>4. ASSUME crowd = Alone => SInv(z) /\ OnlyOpens(z), [CrowdNext]_<<vars, crowd>>
        PROVE  (crowd = Alone => SInv(z) /\ OnlyOpens(z))'
    <2> SUFFICES ASSUME crowd = Alone, crowd' = Alone PROVE (SInv(z) /\ OnlyOpens(z))'
      BY <1>4, CrowdStep
    <2>1. SInv(z) /\ OnlyOpens(z) /\ [Next]_vars
      BY <1>4, CrowdStep
    <2>2. OnlyOpens(z)'
      <3>1. CASE Within'
        BY <3>1, AloneOpens
      <3>2. CASE UNCHANGED <<txn, crowd>>
        BY <2>1, <3>2 DEF OnlyOpens, Open
      <3> QED
        BY <1>4, <3>1, <3>2, CrowdStep
    <2> QED
      BY <1>0, <2>1, <2>2, NextSInv
  <1> QED
    BY <1>1, <1>2, <1>3, <1>4, PTL DEF CrowdSpec

(* However the sweeps of any number of server processes fall between the   *)
(* statements of the one user there is and of each other: a commission is  *)
(* of an approved registration, no customer, country and company has a     *)
(* second ownership row, no grant is lost and no decision taken back.      *)
THEOREM OneUserIsSafe == CrowdSpec => OneUserSafe
  <1>0. h1 \in Session \ Sweeper
    BY CrowdAssumption DEF Session
  <1>1. (crowd = OneUser => UInv(h1) /\ Accounts)
            => (crowd = OneUser => CommissionBacked /\ OneRowPerKey /\ WindowAccounting)
    BY AccountsAre DEF UInv
  <1>2. (crowd = OneUser => UInv(h1) /\ Accounts) /\ [CrowdNext]_<<vars, crowd>>
            => [crowd = OneUser => DecisionStands]_vars
    BY <1>0, CrowdStep, UserDecisionsStand
  <1> QED
    BY <1>1, <1>2, CrowdInvariance, PTL DEF CrowdSpec, OneUserSafe

(* The serial refinement as the run states it: while the crowd is one      *)
(* session, DealTxn implements Exclusivity.                                *)
THEOREM AloneIsSerial == CrowdSpec => SerialIsExclusivity
  <1>0. z \in Session
    BY CrowdAssumption DEF Session
  <1>1. CrowdInit => (crowd = Alone => Serial!Init)
    BY InitIsInit DEF CrowdInit
  <1>2. ASSUME crowd = Alone, SInv(z), OnlyOpens(z), [CrowdNext]_<<vars, crowd>>,
               (crowd = Alone => SInv(z) /\ OnlyOpens(z))'
        PROVE  StepOfExclusivity
    <2>1. [Next]_vars /\ crowd' = Alone
      BY <1>2, CrowdStep
    <2> QED
      BY <1>0, <1>2, <2>1, AloneSteps
  <1>3. (crowd = Alone => SInv(z) /\ OnlyOpens(z)) /\ [CrowdNext]_<<vars, crowd>>
            /\ (crowd = Alone => SInv(z) /\ OnlyOpens(z))'
            => [crowd = Alone => StepOfExclusivity]_vars
    BY <1>2
  <1> QED
    BY <1>1, <1>3, CrowdInvariance, PTL DEF CrowdSpec, SerialIsExclusivity
=============================================================================
