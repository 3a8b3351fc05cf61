--------------------------- MODULE PromisesProofs ---------------------------
(***************************************************************************)
(* Proofs about the parts that MCPromises puts side by side: commissions,  *)
(* licences and reminders, for any number of rows, of sessions and of      *)
(* loops (windows are in ExclusivityProofs).  They share no state; each part *)
(* has an inductive invariant and theorems of its own, and last comes what *)
(* they are side by side.                                                  *)
(***************************************************************************)
EXTENDS MCPromises, ExclusivityProofs, TLAPS

-----------------------------------------------------------------------------
(* Commissions: concurrent updates look like steps of the ledger.          *)
(*                                                                         *)
(* DecidesOnCurrent alone is not inductive: it has to be known that a      *)
(* session with a transaction open has it open on a row.                   *)

(* A session that is not idle works on a row that exists. *)
OnARow ==
    \A s \in Session : txn[s] # Idle => /\ txn[s].row \in Commission
                                        /\ txn[s].saw # "none"

CInv == CommissionTypeOK /\ OnARow /\ DecidesOnCurrent /\ PaidOnce

-----------------------------------------------------------------------------
LEMMA CommissionInitCInv == CommissionInit => CInv
  BY DEF CommissionInit, CInv, CommissionTypeOK, OnARow, DecidesOnCurrent,
         PaidOnce, Idle, CommissionStatus

(* INSERT: nobody works on a row that is not there. *)
LEMMA RecordCInv ==
    ASSUME CInv, NEW m \in Commission, Record(m) PROVE CInv'
  <1>1. CommissionTypeOK'
    BY DEF CInv, CommissionTypeOK, Record, CommissionStatus
  <1>2. \A s \in Session : txn[s] # Idle => txn[s].row # m
    BY DEF CInv, OnARow, DecidesOnCurrent, Record
  <1>3. OnARow' /\ DecidesOnCurrent'
    BY <1>2 DEF CInv, CommissionTypeOK, OnARow, DecidesOnCurrent, Record
  <1>4. PaidOnce'
    BY DEF CInv, CommissionTypeOK, PaidOnce, Record
  <1> QED
    BY <1>1, <1>3, <1>4 DEF CInv

(* The row was free, so no other session decides on it. *)
LEMMA SelectCInv ==
    ASSUME CInv, NEW s \in Session, NEW m \in Commission,
           NEW t \in CommissionStatus, SelectForUpdate(s, m, t)
    PROVE  CInv'
  <1> DEFINE new == [row |-> m, saw |-> status[m], target |-> t]
  <1>1. new \in [row : Commission \cup {None}, saw : CommissionStatus,
                 target : CommissionStatus]
    BY DEF CInv, CommissionTypeOK
  <1>2. /\ txn' = [txn EXCEPT ![s] = new] /\ lock' = [lock EXCEPT ![m] = s]
        /\ status[m] # "none" /\ lock[m] = None
        /\ status' = status /\ paid' = paid
    BY DEF SelectForUpdate
  <1>3. CommissionTypeOK'
    BY <1>1, <1>2 DEF CInv, CommissionTypeOK
  <1>4. ASSUME NEW r \in Session, txn'[r] # Idle
        PROVE  /\ txn'[r].row \in Commission /\ txn'[r].saw # "none"
               /\ lock'[txn'[r].row] = r /\ txn'[r].saw = status'[txn'[r].row]
    <2>1. CASE r = s
      BY <1>2, <2>1 DEF CInv, CommissionTypeOK
    <2>2. CASE r # s
      <3>1. txn'[r] = txn[r]
        BY <1>2, <2>2 DEF CInv, CommissionTypeOK
      <3>2. lock[txn[r].row] = r /\ txn[r].row \in Commission
        BY <1>4, <3>1 DEF CInv, OnARow, DecidesOnCurrent
      <3>3. txn[r].row # m
        BY <1>2, <3>2, CommissionAssumption
      <3> QED
        BY <1>2, <1>4, <3>1, <3>2, <3>3
        DEF CInv, CommissionTypeOK, OnARow, DecidesOnCurrent
    <2> QED
      BY <2>1, <2>2
  <1>5. OnARow' /\ DecidesOnCurrent'
    BY <1>4 DEF OnARow, DecidesOnCurrent
  <1>6. PaidOnce'
    BY <1>2 DEF CInv, PaidOnce
  <1> QED
    BY <1>3, <1>5, <1>6 DEF CInv

(* What the end of a transaction leaves to the others. *)
LEMMA ReleaseOthers ==
    ASSUME CInv, NEW s \in Session, Release(s),
           NEW r \in Session, txn'[r] # Idle
    PROVE  /\ r # s /\ txn'[r] = txn[r]
           /\ txn[r].row \in Commission /\ txn[r].saw # "none"
           /\ lock[txn[r].row] = r /\ lock'[txn[r].row] = r
           /\ txn[r].saw = status[txn[r].row]
  <1>1. r # s /\ txn'[r] = txn[r]
    BY DEF CInv, CommissionTypeOK, Release
  <1>2. /\ txn[r].row \in Commission /\ txn[r].saw # "none"
        /\ lock[txn[r].row] = r /\ txn[r].saw = status[txn[r].row]
    BY <1>1 DEF CInv, OnARow, DecidesOnCurrent
  <1> QED
    BY <1>1, <1>2 DEF Release

LEMMA ReleaseTypes ==
    ASSUME CInv, NEW s \in Session, Release(s)
    PROVE  /\ lock' \in [Commission -> Session \cup {None}]
           /\ txn' \in [Session -> [row : Commission \cup {None},
                          saw : CommissionStatus, target : CommissionStatus]]
  <1>1. Idle \in [row : Commission \cup {None}, saw : CommissionStatus,
                  target : CommissionStatus]
    BY DEF Idle, CommissionStatus
  <1> QED
    BY <1>1 DEF CInv, CommissionTypeOK, Release

LEMMA RefuseCInv ==
    ASSUME CInv, NEW s \in Session, RefuseStatus(s) PROVE CInv'
  <1>1. Release(s) /\ status' = status /\ paid' = paid
    BY DEF RefuseStatus
  <1>2. CommissionTypeOK'
    BY <1>1, ReleaseTypes DEF CInv, CommissionTypeOK
  <1>3. OnARow' /\ DecidesOnCurrent'
    BY <1>1, ReleaseOthers DEF OnARow, DecidesOnCurrent
  <1>4. PaidOnce'
    BY <1>1 DEF CInv, PaidOnce
  <1> QED
    BY <1>2, <1>3, <1>4 DEF CInv

(* A commit decides on the status the row still has, so the row moves one  *)
(* step, and is not one that was paid.                                     *)
LEMMA CommitMoves ==
    ASSUME CInv, NEW s \in Session, CommitStatus(s)
    PROVE  /\ txn[s].row \in Commission /\ lock[txn[s].row] = s
           /\ txn[s].target \in ValidTransitions(status[txn[s].row])
           /\ status[txn[s].row] \in {"pending", "approved"}
           /\ txn[s].target \in {"approved", "paid", "void"}
  <1>1. txn[s] # Idle /\ txn[s].target \in ValidTransitions(txn[s].saw)
    BY DEF CommitStatus
  <1>2. /\ txn[s].row \in Commission /\ lock[txn[s].row] = s
        /\ txn[s].saw = status[txn[s].row]
    BY <1>1 DEF CInv, OnARow, DecidesOnCurrent
  <1> QED
    BY <1>1, <1>2 DEF ValidTransitions

LEMMA CommitCInv ==
    ASSUME CInv, NEW s \in Session, CommitStatus(s) PROVE CInv'
  <1> DEFINE m == txn[s].row
             target == txn[s].target
  <1>1. /\ Release(s)
        /\ status' = [status EXCEPT ![m] = target]
        /\ paid' = [paid EXCEPT ![m] = IF target = "paid" THEN @ + 1 ELSE @]
    BY DEF CommitStatus
  <1>2. /\ m \in Commission /\ lock[m] = s
        /\ target \in {"approved", "paid", "void"}
        /\ status[m] \in {"pending", "approved"}
    BY CommitMoves
  <1>3. CommissionTypeOK'
    <2>1. status' \in [Commission -> CommissionStatus]
      BY <1>1, <1>2 DEF CInv, CommissionTypeOK, CommissionStatus
    <2>2. paid' \in [Commission -> Nat]
      BY <1>1, <1>2 DEF CInv, CommissionTypeOK
    <2> QED
      BY <1>1, <2>1, <2>2, ReleaseTypes DEF CommissionTypeOK
  <1>4. ASSUME NEW r \in Session, txn'[r] # Idle
        PROVE  /\ txn'[r].row \in Commission /\ txn'[r].saw # "none"
               /\ lock'[txn'[r].row] = r /\ txn'[r].saw = status'[txn'[r].row]
    <2>1. /\ r # s /\ txn'[r] = txn[r]
          /\ txn[r].row \in Commission /\ txn[r].saw # "none"
          /\ lock[txn[r].row] = r /\ lock'[txn[r].row] = r
          /\ txn[r].saw = status[txn[r].row]
      BY <1>1, <1>4, ReleaseOthers
    <2>2. txn[r].row # m
      BY <1>2, <2>1
    <2> QED
      BY <1>1, <2>1, <2>2 DEF CInv, CommissionTypeOK
  <1>5. OnARow' /\ DecidesOnCurrent'
    BY <1>4 DEF OnARow, DecidesOnCurrent
  <1>6. PaidOnce'
    <2>1. paid[m] = 0
      BY <1>2 DEF CInv, PaidOnce
    <2> QED
      BY <1>1, <1>2, <2>1 DEF CInv, CommissionTypeOK, PaidOnce
  <1> QED
    BY <1>3, <1>5, <1>6 DEF CInv

LEMMA CommissionNextCInv == CInv /\ [CommissionNext]_commissionVars => CInv'
  <1> SUFFICES ASSUME CInv, [CommissionNext]_commissionVars PROVE CInv'
    OBVIOUS
  <1>1. ASSUME NEW m \in Commission, Record(m) PROVE CInv'
    BY <1>1, RecordCInv
  <1>2. ASSUME NEW s \in Session, NEW m \in Commission,
               NEW t \in CommissionStatus \ {"none"}, SelectForUpdate(s, m, t)
        PROVE  CInv'
    BY <1>2, SelectCInv
  <1>3. ASSUME NEW s \in Session, RefuseStatus(s) \/ CommitStatus(s) PROVE CInv'
    BY <1>3, RefuseCInv, CommitCInv
  <1>4. CASE UNCHANGED commissionVars
    BY <1>4 DEF commissionVars, CInv, CommissionTypeOK, OnARow,
                DecidesOnCurrent, PaidOnce
  <1> QED
    BY <1>1, <1>2, <1>3, <1>4 DEF CommissionNext

(* Every step of a session, locked or refused, keeps the strengthening.    *)
THEOREM CommissionInductive == CommissionSpec => []CInv
  <1> QED
    BY CommissionInitCInv, CommissionNextCInv, PTL DEF CommissionSpec

-----------------------------------------------------------------------------
(* The theorems. *)

(* Rows, locks and transactions keep their types. *)
THEOREM CommissionTypeCorrect == CommissionSpec => []CommissionTypeOK
  <1>1. CInv => CommissionTypeOK
    BY DEF CInv
  <1> QED
    BY <1>1, CommissionInductive, PTL

(* update_commission_status marks a commission paid at most once, and what *)
(* a transaction decides on is what it then overwrites.                    *)
THEOREM CommissionPaidOnce == CommissionSpec => [](PaidOnce /\ DecidesOnCurrent)
  <1>1. CInv => PaidOnce /\ DecidesOnCurrent
    BY DEF CInv
  <1> QED
    BY <1>1, CommissionInductive, PTL

(* A step of CommissionTxn is a step of the ledger or none. *)
LEMMA StepOfLedger ==
    ASSUME CInv, [CommissionNext]_commissionVars
    PROVE  [Ledger!Next]_Ledger!vars
  <1>1. ASSUME NEW m \in Commission, Record(m) PROVE Ledger!Next
    BY <1>1 DEF Record, Ledger!Next, Ledger!Record
  <1>2. ASSUME NEW s \in Session, NEW m \in Commission,
               NEW t \in CommissionStatus \ {"none"}, SelectForUpdate(s, m, t)
        PROVE  UNCHANGED Ledger!vars
    BY <1>2 DEF SelectForUpdate, Ledger!vars
  <1>3. ASSUME NEW s \in Session, RefuseStatus(s) PROVE UNCHANGED Ledger!vars
    BY <1>3 DEF RefuseStatus, Ledger!vars
  <1>4. ASSUME NEW s \in Session, CommitStatus(s) PROVE Ledger!Next
    <2> DEFINE m == txn[s].row
               target == txn[s].target
    <2>1. /\ m \in Commission /\ target \in ValidTransitions(status[m])
          /\ status[m] \in {"pending", "approved"}
      BY <1>4, CommitMoves
    <2>2. /\ status' = [status EXCEPT ![m] = target]
          /\ paid' = [paid EXCEPT ![m] = IF target = "paid" THEN @ + 1 ELSE @]
      BY <1>4 DEF CommitStatus
    <2>3. target # "paid" => paid' = paid
      BY <2>2 DEF CInv, CommissionTypeOK
    <2>4. \/ status[m] = "pending" /\ target = "approved"
          \/ status[m] = "approved" /\ target = "paid"
          \/ status[m] \in {"pending", "approved"} /\ target = "void"
      BY <2>1 DEF ValidTransitions
    <2>5. CASE target = "approved"
      BY <2>1, <2>2, <2>3, <2>4, <2>5 DEF Ledger!Next, Ledger!Approve
    <2>6. CASE target = "paid"
      <3>1. paid' = [paid EXCEPT ![m] = @ + 1]
        BY <2>2, <2>6 DEF CInv, CommissionTypeOK
      <3> QED
        BY <2>1, <2>2, <2>4, <2>6, <3>1 DEF Ledger!Next, Ledger!Pay
    <2>7. CASE target = "void"
      BY <2>1, <2>2, <2>3, <2>4, <2>7 DEF Ledger!Next, Ledger!Void
    <2> QED
      BY <2>4, <2>5, <2>6, <2>7
  <1>5. CASE UNCHANGED commissionVars
    BY <1>5 DEF commissionVars, Ledger!vars
  <1> QED
    BY <1>1, <1>2, <1>3, <1>4, <1>5 DEF CommissionNext

(* Two administrators who act on one commission at once act one after the  *)
(* other, whatever they ask for: update_commission_status implements the   *)
(* ledger.                                                                 *)
THEOREM CommissionsAreALedger == CommissionSpec => ImplementsLedger
  <1>1. CommissionInit => Ledger!Init
    BY DEF CommissionInit, Ledger!Init
  <1> QED
    BY <1>1, StepOfLedger, CommissionInductive, PTL
    DEF CommissionSpec, ImplementsLedger, Ledger!Spec

-----------------------------------------------------------------------------
(* Licences: a renewal and its notice are of the dates that a licence has, *)
(* whatever upserts and passes of the loops follow one another.            *)
(*                                                                         *)
(* LicencesStand is not inductive: an upsert and a pass write later what   *)
(* they read, so what they hold has to be of the row as it still is.       *)

(* An upsert makes the row live and dates it in order; the stamp is not    *)
(* among its columns.  A row that it found is never absent again.          *)
IsUpsert(r) ==
    /\ r.new.state = "live" /\ r.seen.state # "gone"
    /\ r.new.noticed = r.seen.noticed
    /\ r.seen.state = "absent" => r.seen = NoLicence
    /\ r.seen.state = "live" => licence[r.licence].state # "absent"
    /\ r.new.activated # None /\ r.new.expires # None =>
          r.new.activated <= r.new.expires

UpsertsStand ==
    \A k \in LicenceClerk : recording[k] # NotRecording => IsUpsert(recording[k])

(* What a pass is to notify of has a row.                                  *)
AbsentIsEmpty ==
    /\ \A l \in Licence : licence[l].state = "absent" => licence[l] = NoLicence
    /\ \A s \in Notifier : \A l \in pass[s] : licence[l].state # "absent"

(* The dates that an upsert read are the dates that are there, and no      *)
(* other upsert has the licence in hand, unless both are the first; of two *)
(* first ones the unique key refuses the second.                           *)
UpsertsApart ==
    \A k \in LicenceClerk : recording[k] # NotRecording =>
        LET r == recording[k] IN
        r.seen.state = "live" =>
           /\ licence[r.licence].activated = r.seen.activated
           /\ licence[r.licence].expires = r.seen.expires
           /\ \A j \in LicenceClerk \ {k} : recording[j].licence # r.licence

(* A licence in a pass was told to nobody, and is in no other pass.        *)
PassesApart ==
    /\ \A s, t \in Notifier : s # t => pass[s] \cap pass[t] = {}
    /\ \A s \in Notifier : \A l \in pass[s] : ~licence[l].noticed

(* A licence in hand for a renewal has none, and is in no other hand.      *)
RenewalsApart ==
    /\ \A j, k \in LicenceClerk :
          j # k /\ raising[j] = raising[k] => raising[j] = None
    /\ \A k \in LicenceClerk : raising[k] # None => renewals[raising[k]] = 0

ToldAndRenewedOnce ==
    \A l \in Licence :
        LET row == licence[l] IN
        /\ notices[l] = IF row.noticed THEN 1 ELSE 0
        /\ renewals[l] <= 1
        /\ row.activated # None /\ row.expires # None => row.activated <= row.expires

LicInv ==
    /\ LicencesTypeOK
    /\ UpsertsStand
    /\ AbsentIsEmpty
    /\ crossed \/ (UpsertsApart /\ PassesApart /\ RenewalsApart /\ ToldAndRenewedOnce)

LEMMA OverlayOfLicences ==
    ASSUME NEW now \in LicenceRow, NEW seen \in LicenceRow, NEW new \in LicenceRow
    PROVE  LET row == Overlay(now, seen, new)
           IN  /\ row \in LicenceRow
               /\ row.state = IF new.state # seen.state THEN new.state ELSE now.state
               /\ row.activated = IF new.activated # seen.activated
                                  THEN new.activated ELSE now.activated
               /\ row.expires = IF new.expires # seen.expires
                                THEN new.expires ELSE now.expires
               /\ row.noticed = IF new.noticed # seen.noticed
                                THEN new.noticed ELSE now.noticed
  BY DEF Overlay, LicenceRow

LEMMA LicencesInitLicInv == LicencesInit => LicInv
  <1> SUFFICES ASSUME LicencesInit PROVE LicInv
    OBVIOUS
  <1>1. NoLicence \in LicenceRow /\ 1 \in Day
    BY LicencesAssumption DEF NoLicence, LicenceRow, Day
  <1>2. LicencesTypeOK
    <2>1. 0 \in 0 .. MaxFailures
      BY LicencesAssumption
    <2> QED
      BY <1>1, <2>1 DEF LicencesInit, LicencesTypeOK
  <1>3. UpsertsStand /\ AbsentIsEmpty /\ UpsertsApart /\ PassesApart /\ RenewalsApart
    BY DEF LicencesInit, UpsertsStand, AbsentIsEmpty, UpsertsApart, PassesApart,
        RenewalsApart
  <1>4. ToldAndRenewedOnce
    BY DEF LicencesInit, ToldAndRenewedOnce, NoLicence
  <1> QED
    BY <1>2, <1>3, <1>4 DEF LicInv

LEMMA BeginUpsertLicInv ==
    ASSUME LicInv, NEW k \in LicenceClerk, NEW l \in Licence,
           NEW activated \in Activation \cup {None}, NEW expires \in Date \cup {None},
           BeginUpsert(k, l, activated, expires)
    PROVE  LicInv'
  <1> DEFINE new == [licence[l] EXCEPT !.state = "live", !.activated = activated,
                                       !.expires = expires]
             r == [licence |-> l, seen |-> licence[l], new |-> new]
  <1>1. licence[l] \in LicenceRow /\ activated \in Date \cup {None}
    BY LicencesAssumption DEF LicInv, LicencesTypeOK, Date
  <1>2. /\ new \in LicenceRow /\ new.state = "live"
        /\ new.activated = activated /\ new.expires = expires
        /\ new.noticed = licence[l].noticed
    BY <1>1 DEF LicenceRow
  <1>3. /\ recording' = [recording EXCEPT ![k] = r]
        /\ crossed' = (crossed \/ \E other \in LicenceClerk :
                          licence[l].state = "live" /\ recording[other].licence = l)
        /\ UNCHANGED <<day, licence, raising, renewals, pass, notices, failures>>
        /\ licence[l].state # "gone"
        /\ activated # None /\ expires # None => activated <= expires
    BY DEF BeginUpsert
  <1> HIDE DEF new
  <1>4. /\ recording'[k] = r /\ r.licence = l /\ r.seen = licence[l] /\ r.new = new
        /\ \A j \in LicenceClerk \ {k} : recording'[j] = recording[j]
    BY <1>3 DEF LicInv, LicencesTypeOK
  <1>5. LicencesTypeOK'
    BY <1>1, <1>2, <1>3 DEF LicInv, LicencesTypeOK
  <1>6. UpsertsStand' /\ AbsentIsEmpty'
    BY <1>2, <1>3, <1>4 DEF LicInv, UpsertsStand, AbsentIsEmpty, IsUpsert
  <1>7. ASSUME ~crossed' PROVE UpsertsApart'
    <2>1. ~crossed /\ UpsertsApart
      BY <1>3, <1>7 DEF LicInv
    <2>2. licence[l].state = "live" =>
             \A j \in LicenceClerk \ {k} : recording[j].licence # l
      BY <1>3, <1>7
    <2>3. ASSUME NEW j \in LicenceClerk \ {k}, recording[j] # NotRecording,
                 recording[j].seen.state = "live"
          PROVE  recording[j].licence # l
      <3>1. recording[j].licence = l => licence[l].state # "absent"
        BY <2>3 DEF LicInv, UpsertsStand, IsUpsert
      <3>2. licence[l].state \in {"absent", "live"}
        BY <1>1, <1>3 DEF LicenceRow
      <3> QED
        BY <2>2, <3>1, <3>2
    <2> QED
      BY <1>3, <1>4, <2>1, <2>2, <2>3 DEF UpsertsApart
  <1>8. ASSUME ~crossed' PROVE PassesApart' /\ RenewalsApart' /\ ToldAndRenewedOnce'
    BY <1>3, <1>8 DEF LicInv, PassesApart, RenewalsApart, ToldAndRenewedOnce
  <1> QED
    BY <1>5, <1>6, <1>7, <1>8 DEF LicInv

LEMMA CommitUpsertLicInv ==
    ASSUME LicInv, NEW k \in LicenceClerk, CommitUpsert(k) PROVE LicInv'
  <1> DEFINE r == recording[k]
             row == Overlay(licence[r.licence], r.seen, r.new)
  <1>1. /\ r # NotRecording
        /\ r.seen.state = "absent" => licence[r.licence].state = "absent"
        /\ licence' = [licence EXCEPT ![r.licence] = row]
        /\ recording' = [recording EXCEPT ![k] = NotRecording]
        /\ UNCHANGED <<day, raising, renewals, pass, notices, failures, crossed>>
    BY DEF CommitUpsert
  <1>2. /\ r.licence \in Licence /\ r.seen \in LicenceRow /\ r.new \in LicenceRow
        /\ licence[r.licence] \in LicenceRow
    BY <1>1 DEF LicInv, LicencesTypeOK
  <1>3. IsUpsert(r)
    BY <1>1 DEF LicInv, UpsertsStand
  <1>4. /\ row \in LicenceRow
        /\ row.state = IF r.new.state # r.seen.state THEN r.new.state
                                                     ELSE licence[r.licence].state
        /\ row.noticed = licence[r.licence].noticed
        /\ row.activated = IF r.new.activated # r.seen.activated
                           THEN r.new.activated ELSE licence[r.licence].activated
        /\ row.expires = IF r.new.expires # r.seen.expires
                         THEN r.new.expires ELSE licence[r.licence].expires
    BY <1>2, <1>3, OverlayOfLicences DEF IsUpsert
  <1>5. row.state # "absent"
    BY <1>3, <1>4 DEF IsUpsert
  <1> HIDE DEF row
  <1>6. /\ licence'[r.licence] = row
        /\ \A l \in Licence \ {r.licence} : licence'[l] = licence[l]
        /\ recording'[k] = NotRecording
        /\ \A j \in LicenceClerk \ {k} : recording'[j] = recording[j]
    BY <1>1, <1>2 DEF LicInv, LicencesTypeOK
  <1>7. LicencesTypeOK'
    BY <1>1, <1>4 DEF LicInv, LicencesTypeOK
  <1>8. UpsertsStand'
    <2>1. ASSUME NEW j \in LicenceClerk \ {k}, recording[j] # NotRecording
          PROVE  IsUpsert(recording[j])'
      <3>1. IsUpsert(recording[j]) /\ recording[j].licence \in Licence
        BY <2>1 DEF LicInv, UpsertsStand, LicencesTypeOK
      <3> QED
        BY <1>5, <1>6, <3>1 DEF IsUpsert
    <2> QED
      BY <1>6, <2>1 DEF UpsertsStand
  <1>9. AbsentIsEmpty'
    BY <1>1, <1>5, <1>6 DEF LicInv, LicencesTypeOK, AbsentIsEmpty
  <1>10. ASSUME ~crossed PROVE UpsertsApart'
    <2> SUFFICES ASSUME NEW j \in LicenceClerk \ {k}, recording[j] # NotRecording,
                        recording[j].seen.state = "live"
                 PROVE  LET q == recording[j] IN
                        /\ licence'[q.licence].activated = q.seen.activated
                        /\ licence'[q.licence].expires = q.seen.expires
                        /\ \A i \in LicenceClerk \ {j} : recording'[i].licence # q.licence
      BY <1>6 DEF UpsertsApart
    <2>1. recording[j].licence \in Licence /\ recording[j].licence # None
      BY LicencesAssumption DEF LicInv, LicencesTypeOK
    <2>2. /\ recording[j].licence # r.licence
          /\ licence[recording[j].licence].activated = recording[j].seen.activated
          /\ licence[recording[j].licence].expires = recording[j].seen.expires
          /\ \A i \in LicenceClerk \ {j} : recording[i].licence # recording[j].licence
      BY <1>10 DEF LicInv, UpsertsApart
    <2>3. NotRecording.licence = None
      BY DEF NotRecording
    <2> QED
      BY <1>6, <2>1, <2>2, <2>3
  <1>11. ASSUME ~crossed PROVE PassesApart' /\ RenewalsApart'
    BY <1>1, <1>2, <1>4, <1>6, <1>11
    DEF LicInv, LicencesTypeOK, PassesApart, RenewalsApart
  <1>12. ASSUME ~crossed PROVE ToldAndRenewedOnce'
    <2>1. row.activated = r.new.activated /\ row.expires = r.new.expires
      <3>1. CASE r.seen.state = "live"
        BY <1>1, <1>4, <1>12, <3>1 DEF LicInv, UpsertsApart
      <3>2. CASE r.seen.state = "absent"
        <4>1. licence[r.licence] = r.seen
          BY <1>1, <1>2, <1>3, <3>2 DEF IsUpsert, LicInv, AbsentIsEmpty
        <4> QED
          BY <1>4, <4>1
      <3> QED
        BY <1>2, <1>3, <3>1, <3>2 DEF IsUpsert, LicenceRow
    <2>2. ToldAndRenewedOnce
      BY <1>12 DEF LicInv
    <2> QED
      BY <1>1, <1>3, <1>4, <1>6, <2>1, <2>2 DEF ToldAndRenewedOnce, IsUpsert
  <1> QED
    BY <1>1, <1>7, <1>8, <1>9, <1>10, <1>11, <1>12 DEF LicInv

LEMMA RefuseUpsertLicInv ==
    ASSUME LicInv, NEW k \in LicenceClerk, RefuseUpsert(k) PROVE LicInv'
  <1>1. /\ recording' = [recording EXCEPT ![k] = NotRecording]
        /\ UNCHANGED <<day, licence, raising, renewals, pass, notices, failures, crossed>>
    BY DEF RefuseUpsert
  <1>2. /\ recording'[k] = NotRecording
        /\ \A j \in LicenceClerk \ {k} : recording'[j] = recording[j]
    BY <1>1 DEF LicInv, LicencesTypeOK
  <1>3. LicencesTypeOK' /\ UpsertsStand' /\ AbsentIsEmpty'
    BY <1>1, <1>2 DEF LicInv, LicencesTypeOK, UpsertsStand, AbsentIsEmpty, IsUpsert
  <1>4. UpsertsApart => UpsertsApart'
    BY <1>1, <1>2, LicencesAssumption
    DEF LicInv, LicencesTypeOK, UpsertsApart, NotRecording
  <1>5. /\ PassesApart => PassesApart'
        /\ RenewalsApart => RenewalsApart'
        /\ ToldAndRenewedOnce => ToldAndRenewedOnce'
    BY <1>1 DEF PassesApart, RenewalsApart, ToldAndRenewedOnce
  <1> QED
    BY <1>1, <1>3, <1>4, <1>5 DEF LicInv

LEMMA RemoveSourceLicInv ==
    ASSUME LicInv, NEW l \in Licence, RemoveSource(l) PROVE LicInv'
  <1>1. /\ licence[l].state = "live"
        /\ licence' = [licence EXCEPT ![l].state = "gone"]
        /\ UNCHANGED <<day, recording, raising, renewals, pass, notices, failures, crossed>>
    BY DEF RemoveSource
  <1>2. \A m \in Licence :
           /\ licence'[m] \in LicenceRow
           /\ licence'[m].state = IF m = l THEN "gone" ELSE licence[m].state
           /\ m # l => licence'[m] = licence[m]
           /\ licence'[m].activated = licence[m].activated
           /\ licence'[m].expires = licence[m].expires
           /\ licence'[m].noticed = licence[m].noticed
    BY <1>1 DEF LicInv, LicencesTypeOK, LicenceRow
  <1>3. LicencesTypeOK'
    BY <1>1, <1>2 DEF LicInv, LicencesTypeOK
  <1>4. UpsertsStand' /\ AbsentIsEmpty'
    BY <1>1, <1>2 DEF LicInv, LicencesTypeOK, UpsertsStand, AbsentIsEmpty, IsUpsert
  <1>5. UpsertsApart => UpsertsApart'
    BY <1>1, <1>2 DEF LicInv, LicencesTypeOK, UpsertsApart
  <1>6. PassesApart => PassesApart'
    BY <1>1, <1>2 DEF LicInv, LicencesTypeOK, PassesApart
  <1>7. /\ RenewalsApart => RenewalsApart'
        /\ ToldAndRenewedOnce => ToldAndRenewedOnce'
    BY <1>1, <1>2 DEF RenewalsApart, ToldAndRenewedOnce
  <1> QED
    BY <1>1, <1>3, <1>4, <1>5, <1>6, <1>7 DEF LicInv

(* Steps of renewals write no licence.                                     *)
LEMMA RenewalLicInv ==
    ASSUME LicInv, NEW l \in Licence, NEW k,
           \/ k \in LicenceClerk /\ (BeginRenewal(k, l) \/ CommitRenewal(k))
           \/ RemoveRenewal(l)
    PROVE  LicInv'
  <1>1. UNCHANGED <<day, licence, recording, pass, notices, failures>>
    BY DEF BeginRenewal, CommitRenewal, RemoveRenewal
  <1>2. UpsertsStand' /\ AbsentIsEmpty' /\ (UpsertsApart => UpsertsApart')
        /\ (PassesApart => PassesApart')
    BY <1>1 DEF LicInv, UpsertsStand, AbsentIsEmpty, IsUpsert, UpsertsApart, PassesApart
  <1>3. CASE k \in LicenceClerk /\ BeginRenewal(k, l)
    <2>1. /\ raising' = [raising EXCEPT ![k] = l] /\ renewals' = renewals
          /\ renewals[l] = 0
          /\ crossed' = (crossed \/ \E other \in LicenceClerk : raising[other] = l)
      BY <1>3 DEF BeginRenewal, NotRenewed
    <2>2. LicencesTypeOK'
      BY <1>1, <2>1 DEF LicInv, LicencesTypeOK
    <2>3. ASSUME ~crossed' PROVE RenewalsApart' /\ ToldAndRenewedOnce'
      BY <1>1, <2>1, <2>3
      DEF LicInv, LicencesTypeOK, RenewalsApart, ToldAndRenewedOnce
    <2> QED
      BY <1>2, <2>1, <2>2, <2>3 DEF LicInv
  <1>4. CASE k \in LicenceClerk /\ CommitRenewal(k)
    <2> DEFINE m == raising[k]
    <2>1. /\ m \in Licence /\ renewals' = [renewals EXCEPT ![m] = renewals[m] + 1]
          /\ raising' = [raising EXCEPT ![k] = None] /\ crossed' = crossed
      BY <1>4 DEF CommitRenewal, LicInv, LicencesTypeOK
    <2>2. renewals[m] + 1 \in Nat
      BY <2>1 DEF LicInv, LicencesTypeOK
    <2>3. LicencesTypeOK'
      BY <1>1, <2>1, <2>2 DEF LicInv, LicencesTypeOK
    <2>4. ASSUME ~crossed PROVE RenewalsApart' /\ ToldAndRenewedOnce'
      <3>0. RenewalsApart /\ m # None
        BY <2>1, <2>4, LicencesAssumption DEF LicInv
      <3>1. renewals[m] = 0 /\ \A j \in LicenceClerk \ {k} : raising[j] # m
        BY <1>4, <3>0 DEF RenewalsApart
      <3>2. RenewalsApart'
        BY <2>1, <2>4, <3>1 DEF LicInv, LicencesTypeOK, RenewalsApart
      <3>3. renewals'[m] = 1 /\ \A n \in Licence \ {m} : renewals'[n] = renewals[n]
        BY <2>1, <3>1 DEF LicInv, LicencesTypeOK
      <3>4. ToldAndRenewedOnce'
        BY <1>1, <2>4, <3>3 DEF LicInv, ToldAndRenewedOnce
      <3> QED
        BY <3>2, <3>4
    <2> QED
      BY <1>2, <2>1, <2>3, <2>4 DEF LicInv
  <1>5. CASE RemoveRenewal(l)
    <2>1. /\ renewals[l] > 0 /\ renewals' = [renewals EXCEPT ![l] = renewals[l] - 1]
          /\ raising' = raising /\ crossed' = crossed
      BY <1>5 DEF RemoveRenewal
    <2>2. renewals[l] \in Nat /\ renewals[l] - 1 \in Nat /\ renewals[l] # 0
      BY <2>1 DEF LicInv, LicencesTypeOK
    <2>3. LicencesTypeOK'
      BY <1>1, <2>1, <2>2 DEF LicInv, LicencesTypeOK
    <2>4. ASSUME ~crossed PROVE RenewalsApart' /\ ToldAndRenewedOnce'
      <3>1. renewals[l] <= 1
        BY <2>4 DEF LicInv, ToldAndRenewedOnce
      <3>2. renewals'[l] = 0 /\ \A n \in Licence \ {l} : renewals'[n] = renewals[n]
        BY <2>1, <2>2, <3>1 DEF LicInv, LicencesTypeOK
      <3>3. RenewalsApart'
        BY <2>1, <2>4, <3>2 DEF LicInv, LicencesTypeOK, RenewalsApart
      <3>4. ToldAndRenewedOnce'
        BY <1>1, <2>4, <3>2 DEF LicInv, ToldAndRenewedOnce
      <3> QED
        BY <3>3, <3>4
    <2> QED
      BY <1>2, <2>1, <2>3, <2>4 DEF LicInv
  <1> QED
    BY <1>3, <1>4, <1>5

LEMMA NoticesLicInv ==
    ASSUME LicInv, NEW s \in Notifier,
           BeginNotices(s) \/ CommitNotices(s) \/ AbortNotices(s)
    PROVE  LicInv'
  <1>1. UNCHANGED <<day, recording, raising, renewals>>
    BY DEF BeginNotices, CommitNotices, AbortNotices
  <1>2. CASE BeginNotices(s)
    <2> DEFINE due == {l \in Licence : NoticeDue(l)}
    <2>1. /\ pass' = [pass EXCEPT ![s] = due]
          /\ crossed' = (crossed \/ \E t \in Notifier : pass[t] \cap due # {})
          /\ UNCHANGED <<licence, notices, failures>>
          /\ \A l \in due : ~licence[l].noticed /\ licence[l].state # "absent"
      BY <1>2 DEF BeginNotices, NoticeDue, Renewable
    <2>2. due \subseteq Licence
      OBVIOUS
    <2> HIDE DEF due
    <2>3. LicencesTypeOK'
      BY <1>1, <2>1, <2>2 DEF LicInv, LicencesTypeOK
    <2>4. UpsertsStand' /\ (UpsertsApart => UpsertsApart')
          /\ (RenewalsApart => RenewalsApart')
          /\ (ToldAndRenewedOnce => ToldAndRenewedOnce')
      BY <1>1, <2>1 DEF LicInv, UpsertsStand, IsUpsert, UpsertsApart,
          RenewalsApart, ToldAndRenewedOnce
    <2>6. AbsentIsEmpty'
      BY <2>1 DEF LicInv, LicencesTypeOK, AbsentIsEmpty
    <2>5. ASSUME ~crossed' PROVE PassesApart'
      <3>1. PassesApart /\ \A t \in Notifier : pass[t] \cap due = {}
        BY <2>1, <2>5 DEF LicInv
      <3>2. pass'[s] = due /\ \A t \in Notifier \ {s} : pass'[t] = pass[t]
        BY <2>1 DEF LicInv, LicencesTypeOK
      <3> QED
        BY <2>1, <3>1, <3>2 DEF PassesApart
    <2> QED
      BY <2>1, <2>3, <2>4, <2>5, <2>6 DEF LicInv
  <1>3. CASE CommitNotices(s)
    <2>1. /\ pass' = [pass EXCEPT ![s] = {}] /\ UNCHANGED <<failures, crossed>>
          /\ licence' = [l \in Licence |-> IF l \in pass[s]
                            THEN [licence[l] EXCEPT !.noticed = TRUE] ELSE licence[l]]
          /\ notices' = [l \in Licence |-> IF l \in pass[s] THEN notices[l] + 1
                                                            ELSE notices[l]]
      BY <1>3 DEF CommitNotices
    <2>2. \A l \in Licence :
             /\ licence'[l] \in LicenceRow
             /\ licence'[l].state = licence[l].state
             /\ licence'[l].activated = licence[l].activated
             /\ licence'[l].expires = licence[l].expires
             /\ l \in pass[s] => licence'[l].noticed = TRUE
             /\ l \notin pass[s] => licence'[l] = licence[l]
             /\ notices[l] \in Nat /\ notices[l] + 1 \in Nat
             /\ notices'[l] = IF l \in pass[s] THEN notices[l] + 1 ELSE notices[l]
      <3> SUFFICES ASSUME NEW l \in Licence
                   PROVE  /\ licence'[l] \in LicenceRow
                          /\ licence'[l].state = licence[l].state
                          /\ licence'[l].activated = licence[l].activated
                          /\ licence'[l].expires = licence[l].expires
                          /\ l \in pass[s] => licence'[l].noticed = TRUE
                          /\ l \notin pass[s] => licence'[l] = licence[l]
                          /\ notices[l] \in Nat /\ notices[l] + 1 \in Nat
                          /\ notices'[l] = IF l \in pass[s] THEN notices[l] + 1
                                                            ELSE notices[l]
        OBVIOUS
      <3>1. licence[l] \in LicenceRow /\ notices[l] \in Nat
        BY DEF LicInv, LicencesTypeOK
      <3>2. CASE l \in pass[s]
        <4>1. licence'[l] = [licence[l] EXCEPT !.noticed = TRUE]
          BY <2>1, <3>2
        <4>2. notices'[l] = notices[l] + 1 /\ notices[l] + 1 \in Nat
          BY <2>1, <3>1, <3>2
        <4>3. /\ licence'[l] \in LicenceRow
              /\ licence'[l].state = licence[l].state
              /\ licence'[l].activated = licence[l].activated
              /\ licence'[l].expires = licence[l].expires
              /\ licence'[l].noticed = TRUE
          BY <3>1, <4>1 DEF LicenceRow
        <4> QED
          BY <3>1, <3>2, <4>2, <4>3
      <3>3. CASE l \notin pass[s]
        BY <2>1, <3>1, <3>3
      <3> QED
        BY <3>2, <3>3
    <2>3. LicencesTypeOK'
      <3>1. notices' \in [Licence -> Nat] /\ licence' \in [Licence -> LicenceRow]
        BY <2>1, <2>2
      <3>2. pass' \in [Notifier -> SUBSET Licence]
        BY <2>1 DEF LicInv, LicencesTypeOK
      <3> QED
        BY <1>1, <2>1, <3>1, <3>2 DEF LicInv, LicencesTypeOK
    <2>4. UpsertsStand'
      BY <1>1, <2>2 DEF LicInv, LicencesTypeOK, UpsertsStand, IsUpsert
    <2>5. UpsertsApart => UpsertsApart'
      BY <1>1, <2>2 DEF LicInv, LicencesTypeOK, UpsertsApart
    <2>6. RenewalsApart => RenewalsApart'
      BY <1>1 DEF RenewalsApart
    <2>7. ASSUME ~crossed PROVE PassesApart' /\ ToldAndRenewedOnce'
      <3>1. pass'[s] = {} /\ \A t \in Notifier \ {s} : pass'[t] = pass[t]
        BY <2>1 DEF LicInv, LicencesTypeOK
      <3>2. PassesApart'
        BY <2>2, <2>7, <3>1 DEF LicInv, LicencesTypeOK, PassesApart
      <3>3. ASSUME NEW l \in Licence
            PROVE  notices'[l] = IF licence'[l].noticed THEN 1 ELSE 0
        <4>1. notices[l] = IF licence[l].noticed THEN 1 ELSE 0
          BY <2>7 DEF LicInv, ToldAndRenewedOnce
        <4>2. CASE l \in pass[s]
          <5>1. ~licence[l].noticed
            BY <2>7, <4>2 DEF LicInv, PassesApart
          <5> QED
            BY <2>2, <4>1, <4>2, <5>1
        <4>3. CASE l \notin pass[s]
          BY <2>2, <4>1, <4>3
        <4> QED
          BY <4>2, <4>3
      <3>4. ToldAndRenewedOnce'
        BY <1>1, <2>2, <2>7, <3>3 DEF LicInv, ToldAndRenewedOnce
      <3> QED
        BY <3>2, <3>4
    <2>8. AbsentIsEmpty'
      <3>1. ASSUME NEW l \in Licence, licence'[l].state = "absent"
            PROVE  licence'[l] = NoLicence
        <4>1. licence[l] = NoLicence /\ l \notin pass[s]
          BY <2>2, <3>1 DEF LicInv, AbsentIsEmpty
        <4> QED
          BY <2>2, <4>1
      <3>2. \A t \in Notifier : pass'[t] \subseteq pass[t] /\ pass[t] \subseteq Licence
        BY <2>1 DEF LicInv, LicencesTypeOK
      <3> QED
        BY <2>2, <3>1, <3>2 DEF LicInv, AbsentIsEmpty
    <2> QED
      BY <2>1, <2>3, <2>4, <2>5, <2>6, <2>7, <2>8 DEF LicInv
  <1>4. CASE AbortNotices(s)
    <2>1. /\ pass' = [pass EXCEPT ![s] = {}] /\ UNCHANGED <<licence, notices, crossed>>
          /\ failures' = failures + 1 /\ failures < MaxFailures
      BY <1>4 DEF AbortNotices
    <2>2. failures' \in 0 .. MaxFailures
      BY <2>1, LicencesAssumption DEF LicInv, LicencesTypeOK
    <2>3. LicencesTypeOK'
      BY <1>1, <2>1, <2>2 DEF LicInv, LicencesTypeOK
    <2>4. PassesApart => PassesApart'
      BY <2>1 DEF LicInv, LicencesTypeOK, PassesApart
    <2>5. UpsertsStand' /\ AbsentIsEmpty' /\ (UpsertsApart => UpsertsApart')
          /\ (RenewalsApart => RenewalsApart')
          /\ (ToldAndRenewedOnce => ToldAndRenewedOnce')
      BY <1>1, <2>1 DEF LicInv, LicencesTypeOK, UpsertsStand, AbsentIsEmpty, IsUpsert,
          UpsertsApart, RenewalsApart, ToldAndRenewedOnce
    <2> QED
      BY <2>1, <2>3, <2>4, <2>5 DEF LicInv
  <1> QED
    BY <1>2, <1>3, <1>4

LEMMA LicencesNextLicInv == LicInv /\ [LicencesNext]_licenceVars => LicInv'
  <1> SUFFICES ASSUME LicInv, [LicencesNext]_licenceVars PROVE LicInv'
    OBVIOUS
  <1>1. CASE NextDay \/ UNCHANGED licenceVars
    <2>1. UNCHANGED <<licence, recording, raising, renewals, pass, notices, failures,
                      crossed>>
      BY <1>1 DEF NextDay, licenceVars
    <2>2. day' \in Day
      BY <1>1, LicencesAssumption DEF NextDay, licenceVars, Day, LicInv, LicencesTypeOK
    <2> QED
      BY <2>1, <2>2 DEF LicInv, LicencesTypeOK, UpsertsStand, AbsentIsEmpty, IsUpsert,
          UpsertsApart, PassesApart, RenewalsApart, ToldAndRenewedOnce
  <1>2. ASSUME NEW k \in LicenceClerk, CommitRenewal(k) PROVE LicInv'
    <2>1. raising[k] \in Licence
      BY <1>2 DEF CommitRenewal, LicInv, LicencesTypeOK
    <2> QED
      BY <1>2, <2>1, RenewalLicInv
  <1>3. ASSUME NEW l \in Licence, RemoveRenewal(l) PROVE LicInv'
    BY <1>3, RenewalLicInv
  <1> QED
    BY <1>1, <1>2, <1>3, BeginUpsertLicInv, CommitUpsertLicInv, RefuseUpsertLicInv,
       RemoveSourceLicInv, RenewalLicInv, NoticesLicInv
    DEF LicencesNext, ClockAndLoops, LicenceRequests, NoticesOf

(* A licence is listed under the status that its page shows: the CASE of   *)
(* license_status_expr, where a comparison with NULL holds of no row,      *)
(* agrees with derive_license_status whatever the dates.                   *)
LEMMA StatusesAgree ==
    ASSUME LicencesTypeOK, NEW l \in Licence
    PROVE  l \in StatusFilter(DeriveStatus(licence[l]))
  <1> DEFINE a == licence[l].activated
             e == licence[l].expires
  <1>1. /\ a \in Date \cup {None} /\ e \in Date \cup {None}
        /\ day \in Date /\ None \notin Date
        /\ Date \subseteq Nat /\ SoonDays \in Nat
        /\ day + SoonDays + 1 \in Nat /\ day + SoonDays + 1 # None
        /\ e # None => e \in Nat
    BY LicencesAssumption DEF LicencesTypeOK, LicenceRow, Date, Day
  <1>2. CASE a = None \/ a > day
    BY <1>1, <1>2 DEF DeriveStatus, StatusFilter, Before
  <1>3. CASE ~(a = None \/ a > day) /\ e # None /\ e < day
    BY <1>1, <1>3 DEF DeriveStatus, StatusFilter, Before
  <1>4. CASE ~(a = None \/ a > day) /\ e # None /\ ~(e < day) /\ e - day <= SoonDays
    <2>1. e < day + SoonDays + 1
      <3>1. e \in Nat /\ day \in Nat
        BY <1>1, <1>4
      <3> QED
        BY <1>1, <1>4, <3>1
    <2> QED
      BY <1>1, <1>4, <2>1 DEF DeriveStatus, StatusFilter, Before
  <1>5. CASE ~(a = None \/ a > day) /\ e # None /\ ~(e < day) /\ ~(e - day <= SoonDays)
    <2>1. ~(e < day + SoonDays + 1)
      <3>1. e \in Nat /\ day \in Nat
        BY <1>1, <1>5
      <3> QED
        BY <1>1, <1>5, <3>1
    <2> QED
      BY <1>1, <1>5, <2>1 DEF DeriveStatus, StatusFilter, Before
  <1>6. CASE ~(a = None \/ a > day) /\ e = None
    BY <1>1, <1>6 DEF DeriveStatus, StatusFilter, Before
  <1> QED
    BY <1>2, <1>3, <1>4, <1>5, <1>6

(* Every upsert, renewal and pass keeps the strengthening, on any days.    *)
THEOREM LicencesInductive == LicencesSpec => []LicInv
  <1> QED
    BY LicencesInitLicInv, LicencesNextLicInv, PTL DEF LicencesSpec

(* Licences, the upserts and renewals of them and the passes keep their    *)
(* types.                                                                  *)
THEOREM LicencesTypeCorrect == LicencesSpec => []LicencesTypeOK
  <1>1. LicInv => LicencesTypeOK
    BY DEF LicInv
  <1> QED
    BY <1>1, LicencesInductive, PTL

(* While no two passes, and no two requests, have one licence in hand:     *)
(* people are told of a licence once and the stamp says so, it is renewed  *)
(* once at a time and does not end before it begins; and at all times it   *)
(* is listed under the status that its page shows.                         *)
THEOREM LicencesKeepTheirWord == LicencesSpec => []LicencesStand
  <1>1. LicInv => LicencesStand
    BY StatusesAgree DEF LicInv, LicencesStand, ToldAndRenewedOnce
  <1> QED
    BY <1>1, LicencesInductive, PTL

-----------------------------------------------------------------------------
(* Reminders: one goes out once, and a stamp is of the reminder that its   *)
(* entry shows, as long as no entry is written while an edit has it in hand. *)
(*                                                                         *)
(* RemindedOnce says what was sent; that nothing is sent again rests on    *)
(* what was not: a reminder lies ahead when it is set, so nobody can have  *)
(* been told of it.                                                        *)

(* The rows of a pass are its own, and stay due while it has them locked.  *)
BatchesStand ==
    /\ \A s, t \in Sweeper : s # t => batch[s] \cap batch[t] = {}
    /\ \A s \in Sweeper : \A a \in batch[s] : Due(a)

(* A row tells of its reminder whether it was sent. *)
TellsTruth(a, row) ==
    row.due # None => told[a][row.due] = IF row.sent THEN 1 ELSE 0

(* Nobody was told of what lies ahead, and of nothing twice. *)
ToldOnce ==
    \A a \in Activity :
        /\ \A h \in Hour : told[a][h] \in {0, 1} /\ (told[a][h] = 1 => h <= hour)
        /\ TellsTruth(a, activity[a])
        /\ activity[a].sent => activity[a].due # None

(* An edit has the row in hand as it is, and what it makes of it is true.  *)
EditStands ==
    \A k \in Editor : editing[k] # NotEditing =>
        LET e == editing[k] IN
        /\ e.seen = activity[e.activity] /\ e.seen.state # "absent"
        /\ TellsTruth(e.activity, e.new)
        /\ e.new.sent => e.new.due # None

RInv ==
    /\ RemindersTypeOK /\ BatchesStand
    /\ mixed \/ (ToldOnce /\ EditStands)

-----------------------------------------------------------------------------
LEMMA OverlayOfEntries ==
    ASSUME NEW now \in Entry, NEW seen \in Entry, NEW new \in Entry
    PROVE  /\ Overlay(now, seen, new) \in Entry
           /\ now = seen => Overlay(now, seen, new) = new
  <1>1. DOMAIN now = {"state", "due", "sent"}
    BY DEF Entry
  <1> DEFINE f == Overlay(now, seen, new)
  <1>2. f = [state |-> f.state, due |-> f.due, sent |-> f.sent]
    BY <1>1 DEF Overlay
  <1>3. /\ f.state \in {now.state, new.state} /\ f.due \in {now.due, new.due}
        /\ f.sent \in {now.sent, new.sent}
    BY <1>1 DEF Overlay
  <1>4. now = seen => f.state = new.state /\ f.due = new.due /\ f.sent = new.sent
    BY <1>1 DEF Overlay
  <1>5. f \in Entry
    <2>1. /\ f.state \in {"absent", "live", "deleted"}
          /\ f.due \in Hour \cup {None} /\ f.sent \in BOOLEAN
      BY <1>3 DEF Entry
    <2> QED
      BY <1>2, <2>1 DEF Entry
  <1>6. now = seen => f = new
    BY <1>2, <1>4 DEF Entry
  <1> QED
    BY <1>5, <1>6

LEMMA RemindersInitRInv == RemindersInit => RInv
  <1> SUFFICES ASSUME RemindersInit PROVE RInv
    OBVIOUS
  <1>1. /\ hour = 0 /\ aborts = 0 /\ mixed = FALSE
        /\ activity = [a \in Activity |-> NoEntry]
        /\ editing = [k \in Editor |-> NotEditing]
        /\ batch = [s \in Sweeper |-> {}]
        /\ told = [a \in Activity |-> [h \in Hour |-> 0]]
    BY DEF RemindersInit
  <1>2. NoEntry \in Entry /\ hour \in Hour /\ aborts \in 0 .. MaxAborts
    BY <1>1, RemindersAssumption DEF NoEntry, Entry, Hour
  <1>3. RemindersTypeOK
    BY <1>1, <1>2 DEF RemindersTypeOK
  <1>4. BatchesStand /\ EditStands
    BY <1>1 DEF BatchesStand, EditStands
  <1>5. ToldOnce
    <2>1. \A h \in Hour : \A a \in Activity : told[a][h] = 0
      BY <1>1
    <2> QED
      BY <1>1, <2>1 DEF ToldOnce, TellsTruth, NoEntry
  <1> QED
    BY <1>3, <1>4, <1>5 DEF RInv

-----------------------------------------------------------------------------
(* One lemma per action. *)

LEMMA HourRInv == ASSUME RInv, HourPasses PROVE RInv'
  <1>1. /\ hour \in Nat /\ hour' = hour + 1 /\ hour < LastHour
        /\ UNCHANGED <<activity, editing, batch, told, aborts, mixed>>
    BY RemindersAssumption DEF HourPasses, RInv, RemindersTypeOK, Hour
  <1>2. RemindersTypeOK'
    BY <1>1, RemindersAssumption DEF RInv, RemindersTypeOK, Hour
  <1>3. \A a \in Activity : Due(a) => Due(a)'
    <2>1. \A a \in Activity : activity[a].due \in Hour \cup {None}
      BY DEF RInv, RemindersTypeOK, Entry
    <2> QED
      BY <1>1, <2>1 DEF Due, Hour
  <1>4. BatchesStand'
    BY <1>1, <1>3 DEF RInv, BatchesStand, RemindersTypeOK
  <1>5. ASSUME ToldOnce PROVE ToldOnce'
    BY <1>1, <1>5 DEF ToldOnce, TellsTruth, Hour
  <1>6. EditStands => EditStands'
    BY <1>1 DEF EditStands, TellsTruth
  <1> QED
    BY <1>1, <1>2, <1>4, <1>5, <1>6 DEF RInv

LEMMA LogRInv ==
    ASSUME RInv, NEW a \in Activity, NEW due \in Hour \cup {None},
           LogActivity(a, due)
    PROVE  RInv'
  <1> DEFINE row == [state |-> "live", due |-> due, sent |-> FALSE]
  <1>1. /\ activity[a].state = "absent" /\ Ahead(due)
        /\ activity' = [activity EXCEPT ![a] = row]
        /\ UNCHANGED <<hour, editing, batch, told, aborts, mixed>>
    BY DEF LogActivity
  <1>2. RemindersTypeOK'
    BY <1>1 DEF RInv, RemindersTypeOK, Entry
  <1>3. \A b \in Activity : activity'[b] = IF b = a THEN row ELSE activity[b]
    BY <1>1 DEF RInv, RemindersTypeOK
  <1>4. BatchesStand'
    <2>1. \A s \in Sweeper : a \notin batch[s]
      BY <1>1 DEF RInv, BatchesStand, Due
    <2> QED
      BY <1>1, <1>3, <2>1 DEF RInv, BatchesStand, Due, RemindersTypeOK
  <1>5. ASSUME ToldOnce PROVE ToldOnce'
    <2>1. TellsTruth(a, row)
      BY <1>1, <1>5, RemindersAssumption
      DEF ToldOnce, TellsTruth, Ahead, Hour, RInv, RemindersTypeOK
    <2> QED
      BY <1>1, <1>3, <1>5, <2>1 DEF ToldOnce, TellsTruth
  <1>6. ASSUME EditStands, ~mixed PROVE EditStands'
    <2>1. \A k \in Editor : editing[k] # NotEditing => editing[k].activity # a
      BY <1>1, <1>6 DEF EditStands
    <2> QED
      BY <1>1, <1>3, <1>6, <2>1 DEF EditStands, TellsTruth
  <1> QED
    BY <1>1, <1>2, <1>4, <1>5, <1>6 DEF RInv

(* Only what is ahead, or none, is written over a reminder. *)
LEMMA BeginEditRInv ==
    ASSUME RInv, NEW k \in Editor, NEW a \in Activity, NEW new \in Entry,
           ToldOnce => TellsTruth(a, new) /\ (new.sent => new.due # None),
           BeginActivityEdit(k, a, new)
    PROVE  RInv'
  <1> DEFINE e == [activity |-> a, seen |-> activity[a], new |-> new]
  <1>1. /\ activity[a].state = "live" /\ editing' = [editing EXCEPT ![k] = e]
        /\ UNCHANGED <<hour, activity, batch, told, aborts, mixed>>
    BY DEF BeginActivityEdit
  <1>2. RemindersTypeOK'
    BY <1>1 DEF RInv, RemindersTypeOK
  <1>3. BatchesStand'
    BY <1>1 DEF RInv, BatchesStand, Due
  <1>4. ToldOnce => ToldOnce'
    BY <1>1 DEF ToldOnce, TellsTruth
  <1>5. \A l \in Editor : editing'[l] = IF l = k THEN e ELSE editing[l]
    BY <1>1 DEF RInv, RemindersTypeOK
  <1>6. ASSUME ToldOnce, EditStands PROVE EditStands'
    <2>1. ASSUME NEW l \in Editor, editing'[l] # NotEditing
          PROVE  /\ editing'[l].seen = activity[editing'[l].activity]
                 /\ editing'[l].seen.state # "absent"
                 /\ TellsTruth(editing'[l].activity, editing'[l].new)
                 /\ editing'[l].new.sent => editing'[l].new.due # None
      BY <1>1, <1>5, <1>6, <2>1 DEF EditStands
    <2> QED
      BY <1>1, <2>1 DEF EditStands, TellsTruth
  <1> QED
    BY <1>1, <1>2, <1>3, <1>4, <1>6 DEF RInv

LEMMA MoveRInv ==
    ASSUME RInv, NEW k \in Editor, NEW a \in Activity,
           NEW due \in Hour \cup {None}, MoveReminder(k, a, due)
    PROVE  RInv'
  <1> DEFINE new == Postponed(activity[a], due)
  <1>1. Ahead(due) /\ BeginActivityEdit(k, a, new)
    BY DEF MoveReminder
  <1>2. activity[a] \in Entry
    BY DEF RInv, RemindersTypeOK
  <1>3. new \in Entry /\ new.due = due /\ new.sent = FALSE
    BY <1>2 DEF Postponed, Entry
  <1>4. ASSUME ToldOnce PROVE TellsTruth(a, new)
    BY <1>1, <1>3, <1>4, RemindersAssumption
    DEF ToldOnce, TellsTruth, Ahead, Hour, RInv, RemindersTypeOK
  <1> QED
    BY <1>1, <1>3, <1>4, BeginEditRInv

LEMMA DeleteRInv ==
    ASSUME RInv, NEW k \in Editor, NEW a \in Activity, DeleteActivity(k, a)
    PROVE  RInv'
  <1> DEFINE new == [activity[a] EXCEPT !.state = "deleted"]
  <1>1. BeginActivityEdit(k, a, new)
    BY DEF DeleteActivity
  <1>2. activity[a] \in Entry
    BY DEF RInv, RemindersTypeOK
  <1>3. /\ new \in Entry /\ new.due = activity[a].due
        /\ new.sent = activity[a].sent
    BY <1>2 DEF Entry
  <1>4. ToldOnce => TellsTruth(a, new) /\ (new.sent => new.due # None)
    BY <1>3 DEF ToldOnce, TellsTruth
  <1> QED
    BY <1>1, <1>3, <1>4, BeginEditRInv

(* An entry that one edit alone had in hand becomes what the edit made of  *)
(* it; a pass has not locked it.                                           *)
LEMMA CommitActivityRInv ==
    ASSUME RInv, NEW k \in Editor, CommitActivity(k) PROVE RInv'
  <1> DEFINE e == editing[k]
             a == e.activity
             row == Overlay(activity[a], e.seen, e.new)
  <1>1. /\ e # NotEditing /\ ~Locked(a)
        /\ activity' = [activity EXCEPT ![a] = row]
        /\ mixed' = (mixed \/ \E other \in Editor \ {k} : InHand(other, {a}))
        /\ editing' = [editing EXCEPT ![k] = NotEditing]
        /\ UNCHANGED <<hour, batch, told, aborts>>
    BY DEF CommitActivity
  <1>2. a \in Activity /\ e.seen \in Entry /\ e.new \in Entry /\ activity[a] \in Entry
    BY <1>1 DEF RInv, RemindersTypeOK
  <1>3. row \in Entry /\ (activity[a] = e.seen => row = e.new)
    BY <1>2, OverlayOfEntries
  <1>4. RemindersTypeOK'
    BY <1>1, <1>2, <1>3 DEF RInv, RemindersTypeOK
  <1>5. \A b \in Activity : activity'[b] = IF b = a THEN row ELSE activity[b]
    BY <1>1 DEF RInv, RemindersTypeOK
  <1>6. BatchesStand'
    <2>1. \A s \in Sweeper : a \notin batch[s]
      BY <1>1 DEF Locked
    <2> QED
      BY <1>1, <1>5, <2>1 DEF RInv, BatchesStand, Due, RemindersTypeOK
  <1>7. ASSUME ~mixed' PROVE ToldOnce' /\ EditStands'
    <2>1. ToldOnce /\ EditStands
      BY <1>1, <1>7 DEF RInv
    <2>2. row = e.new /\ TellsTruth(a, row) /\ (row.sent => row.due # None)
      BY <1>1, <1>3, <2>1 DEF EditStands
    <2>3. ToldOnce'
      BY <1>1, <1>5, <2>1, <2>2 DEF ToldOnce, TellsTruth
    <2>4. ASSUME NEW l \in Editor, editing'[l] # NotEditing
          PROVE  /\ editing'[l] = editing[l] /\ editing[l].activity \in Activity
                 /\ editing[l].activity # a
      <3>1. l # k /\ editing'[l] = editing[l]
        BY <1>1, <2>4 DEF RInv, RemindersTypeOK
      <3>2. editing[l].activity # a
        BY <1>1, <1>7, <2>4, <3>1 DEF InHand
      <3> QED
        BY <2>4, <3>1, <3>2 DEF RInv, RemindersTypeOK
    <2>5. EditStands'
      BY <1>1, <1>5, <2>1, <2>4 DEF EditStands, TellsTruth
    <2> QED
      BY <2>3, <2>5
  <1> QED
    BY <1>4, <1>6, <1>7 DEF RInv

-----------------------------------------------------------------------------
LEMMA SweepRInv ==
    ASSUME RInv, NEW s \in Sweeper, NEW rows \in SUBSET Activity, Sweep(s, rows)
    PROVE  RInv'
  <1>1. /\ \A a \in rows : Due(a) /\ ~Locked(a)
        /\ batch' = [batch EXCEPT ![s] = rows]
        /\ UNCHANGED <<hour, activity, editing, told, aborts, mixed>>
    BY DEF Sweep, Takes
  <1>2. RemindersTypeOK'
    BY <1>1 DEF RInv, RemindersTypeOK
  <1>3. \A t \in Sweeper : batch'[t] = IF t = s THEN rows ELSE batch[t]
    BY <1>1 DEF RInv, RemindersTypeOK
  <1>4. BatchesStand'
    BY <1>1, <1>3 DEF RInv, BatchesStand, Locked, Due
  <1>5. (ToldOnce => ToldOnce') /\ (EditStands => EditStands')
    BY <1>1 DEF ToldOnce, EditStands, TellsTruth
  <1> QED
    BY <1>1, <1>2, <1>4, <1>5 DEF RInv

LEMMA CommitSweepRInv ==
    ASSUME RInv, NEW s \in Sweeper, CommitSweep(s) PROVE RInv'
  <1>1. /\ activity' = [a \in Activity |-> IF a \in batch[s]
                         THEN [activity[a] EXCEPT !.sent = TRUE] ELSE activity[a]]
        /\ told' = [a \in Activity |-> IF a \in batch[s]
                     THEN [told[a] EXCEPT ![activity[a].due] = @ + 1] ELSE told[a]]
        /\ batch' = [batch EXCEPT ![s] = {}]
        /\ mixed' = (mixed \/ \E k \in Editor : InHand(k, batch[s]))
        /\ UNCHANGED <<hour, editing, aborts>>
    BY DEF CommitSweep
  <1>2. \A a \in batch[s] : Due(a) /\ activity[a] \in Entry
    BY DEF RInv, BatchesStand, RemindersTypeOK
  <1>3. ASSUME NEW a \in Activity
        PROVE  activity'[a] \in Entry /\ told'[a] \in [Hour -> Nat]
    <2>1. activity[a] \in Entry /\ told[a] \in [Hour -> Nat]
      BY DEF RInv, RemindersTypeOK
    <2>2. [activity[a] EXCEPT !.sent = TRUE] \in Entry
      BY <2>1 DEF Entry
    <2>3. a \in batch[s] => activity[a].due \in Hour
      BY <1>2, <2>1 DEF Due, Entry
    <2>4. activity'[a] \in Entry
      BY <1>1, <2>1, <2>2
    <2>5. told'[a] \in [Hour -> Nat]
      BY <1>1, <2>1, <2>3
    <2> QED
      BY <2>4, <2>5
  <1>4. activity' \in [Activity -> Entry] /\ told' \in [Activity -> [Hour -> Nat]]
    BY <1>1, <1>3
  <1>5. RemindersTypeOK'
    BY <1>1, <1>4 DEF RInv, RemindersTypeOK
  <1>6. \A t \in Sweeper : batch'[t] = IF t = s THEN {} ELSE batch[t]
    BY <1>1 DEF RInv, RemindersTypeOK
  <1>7. BatchesStand'
    <2>1. ASSUME NEW t \in Sweeper, NEW a \in batch'[t] PROVE Due(a)'
      <3>1. t # s /\ a \in batch[t] /\ a \notin batch[s] /\ a \in Activity
        BY <1>6, <2>1 DEF RInv, BatchesStand, RemindersTypeOK
      <3>2. Due(a) /\ activity'[a] = activity[a]
        BY <1>1, <3>1 DEF RInv, BatchesStand
      <3> QED
        BY <1>1, <3>2 DEF Due
    <2>2. \A t, u \in Sweeper : t # u => batch'[t] \cap batch'[u] = {}
      BY <1>6 DEF RInv, BatchesStand
    <2> QED
      BY <2>1, <2>2 DEF BatchesStand
  <1>8. ASSUME ~mixed' PROVE ToldOnce' /\ EditStands'
    <2>1. ToldOnce /\ EditStands
      BY <1>1, <1>8 DEF RInv
    <2>2. ASSUME NEW a \in batch[s]
          PROVE  /\ activity[a].due \in Hour /\ activity[a].due <= hour
                 /\ told[a][activity[a].due] = 0
                 /\ activity'[a].due = activity[a].due /\ activity'[a].sent = TRUE
                 /\ told'[a] = [told[a] EXCEPT ![activity[a].due] = 1]
      <3>1. a \in Activity /\ Due(a) /\ activity[a] \in Entry /\ told[a] \in [Hour -> Nat]
        BY <1>2 DEF RInv, RemindersTypeOK
      <3>2. /\ activity[a].due \in Hour /\ activity[a].due <= hour
            /\ ~activity[a].sent
        BY <3>1 DEF Due, Entry
      <3>3. told[a][activity[a].due] = 0
        BY <2>1, <3>1, <3>2 DEF ToldOnce, TellsTruth, Due
      <3>4. activity'[a].due = activity[a].due /\ activity'[a].sent = TRUE
        BY <1>1, <3>1 DEF Entry
      <3>5. told'[a] = [told[a] EXCEPT ![activity[a].due] = 1]
        BY <1>1, <3>1, <3>2, <3>3
      <3> QED
        BY <3>2, <3>3, <3>4, <3>5
    <2>3. \A a \in Activity \ batch[s] : activity'[a] = activity[a] /\ told'[a] = told[a]
      BY <1>1
    <2>4. ASSUME NEW a \in Activity
          PROVE  /\ \A h \in Hour : told'[a][h] \in {0, 1} /\ (told'[a][h] = 1 => h <= hour)
                 /\ activity'[a].due # None =>
                       told'[a][activity'[a].due] = IF activity'[a].sent THEN 1 ELSE 0
                 /\ activity'[a].sent => activity'[a].due # None
      <3>1. CASE a \in batch[s]
        <4>1. /\ told[a] \in [Hour -> Nat] /\ activity[a].due # None
              /\ \A h \in Hour : told[a][h] \in {0, 1} /\ (told[a][h] = 1 => h <= hour)
          BY <1>2, <2>1, <3>1 DEF RInv, RemindersTypeOK, ToldOnce, Due
        <4>2. \A h \in Hour : told'[a][h] = IF h = activity[a].due THEN 1 ELSE told[a][h]
          BY <2>2, <3>1, <4>1
        <4> QED
          BY <2>2, <3>1, <4>1, <4>2
      <3>2. CASE a \notin batch[s]
        BY <2>1, <2>3, <3>2 DEF ToldOnce, TellsTruth
      <3> QED
        BY <3>1, <3>2
    <2>5. ToldOnce'
      BY <1>1, <2>4 DEF ToldOnce, TellsTruth
    <2>6. ASSUME NEW k \in Editor, editing[k] # NotEditing
          PROVE  /\ activity'[editing[k].activity] = activity[editing[k].activity]
                 /\ told'[editing[k].activity] = told[editing[k].activity]
      <3>1. editing[k].activity \in Activity \ batch[s]
        BY <1>1, <1>8, <2>6 DEF InHand, RInv, RemindersTypeOK
      <3> QED
        BY <2>3, <3>1
    <2>7. ASSUME NEW k \in Editor, editing[k] # NotEditing
          PROVE  /\ editing[k].seen = activity'[editing[k].activity]
                 /\ editing[k].seen.state # "absent"
                 /\ editing[k].new.due # None =>
                       told'[editing[k].activity][editing[k].new.due]
                          = IF editing[k].new.sent THEN 1 ELSE 0
                 /\ editing[k].new.sent => editing[k].new.due # None
      <3> DEFINE a == editing[k].activity
      <3>1. activity'[a] = activity[a] /\ told'[a] = told[a]
        BY <2>6, <2>7
      <3>2. /\ editing[k].seen = activity[a] /\ editing[k].seen.state # "absent"
            /\ TellsTruth(a, editing[k].new)
            /\ editing[k].new.sent => editing[k].new.due # None
        BY <2>1, <2>7 DEF EditStands
      <3> QED
        BY <3>1, <3>2 DEF TellsTruth
    <2>8. EditStands'
      BY <1>1, <2>7 DEF EditStands, TellsTruth
    <2> QED
      BY <2>5, <2>8
  <1> QED
    BY <1>5, <1>7, <1>8 DEF RInv

LEMMA AbortSweepRInv ==
    ASSUME RInv, NEW s \in Sweeper, AbortSweep(s) PROVE RInv'
  <1>1. /\ batch' = [batch EXCEPT ![s] = {}]
        /\ aborts < MaxAborts /\ aborts' = aborts + 1
        /\ UNCHANGED <<hour, activity, editing, told, mixed>>
    BY DEF AbortSweep
  <1>2. RemindersTypeOK'
    BY <1>1, RemindersAssumption DEF RInv, RemindersTypeOK
  <1>3. \A t \in Sweeper : batch'[t] = IF t = s THEN {} ELSE batch[t]
    BY <1>1 DEF RInv, RemindersTypeOK
  <1>4. BatchesStand'
    BY <1>1, <1>3 DEF RInv, BatchesStand, Due
  <1>5. (ToldOnce => ToldOnce') /\ (EditStands => EditStands')
    BY <1>1 DEF ToldOnce, EditStands, TellsTruth
  <1> QED
    BY <1>1, <1>2, <1>4, <1>5 DEF RInv

-----------------------------------------------------------------------------
LEMMA RemindersNextRInv == RInv /\ [RemindersNext]_reminderVars => RInv'
  <1> SUFFICES ASSUME RInv, [RemindersNext]_reminderVars PROVE RInv'
    OBVIOUS
  <1>1. CASE HourPasses
    BY <1>1, HourRInv
  <1>2. ASSUME NEW s \in Sweeper, SweepOf(s) \/ AbortSweep(s) PROVE RInv'
    BY <1>2, SweepRInv, CommitSweepRInv, AbortSweepRInv DEF SweepOf
  <1>3. ASSUME NEW k \in Editor, CommitActivity(k) PROVE RInv'
    BY <1>3, CommitActivityRInv
  <1>4. ASSUME NEW a \in Activity, NEW due \in Hour \cup {None},
               LogActivity(a, due) \/ \E k \in Editor : MoveReminder(k, a, due)
        PROVE  RInv'
    BY <1>4, LogRInv, MoveRInv
  <1>5. ASSUME NEW a \in Activity, NEW k \in Editor, DeleteActivity(k, a)
        PROVE  RInv'
    BY <1>5, DeleteRInv
  <1>6. CASE UNCHANGED reminderVars
    BY <1>6 DEF reminderVars, RInv, RemindersTypeOK, BatchesStand, ToldOnce,
                EditStands, TellsTruth, Due
  <1> QED
    BY <1>1, <1>2, <1>3, <1>4, <1>5, <1>6 DEF RemindersNext

(* Every edit and every pass, finished or failed, keeps the strengthening. *)
THEOREM RemindersInductive == RemindersSpec => []RInv
  <1> QED
    BY RemindersInitRInv, RemindersNextRInv, PTL DEF RemindersSpec

-----------------------------------------------------------------------------
(* The theorems. *)

(* Entries, edits and passes keep their types. *)
THEOREM RemindersTypeCorrect == RemindersSpec => []RemindersTypeOK
  <1>1. RInv => RemindersTypeOK
    BY DEF RInv
  <1> QED
    BY <1>1, RemindersInductive, PTL

(* send_due_reminders in any number of processes, failing or not, sends a  *)
(* reminder once, and update_activity never leaves the stamp of an old one *)
(* on a new one.                                                           *)
THEOREM RemindersGoOutOnce == RemindersSpec => []RemindedOnce
  <1>1. RInv => RemindedOnce
    <2> SUFFICES ASSUME RInv PROVE RemindedOnce
      OBVIOUS
    <2>1. \A s, t \in Sweeper : s # t => batch[s] \cap batch[t] = {}
      BY DEF RInv, BatchesStand
    <2>2. ASSUME ~mixed, NEW a \in Activity
          PROVE  /\ \A h \in Hour : told[a][h] <= 1
                 /\ activity[a].sent => /\ activity[a].due # None
                                        /\ told[a][activity[a].due] = 1
      BY <2>2 DEF RInv, ToldOnce, TellsTruth
    <2> QED
      BY <2>1, <2>2 DEF RemindedOnce
  <1> QED
    BY <1>1, RemindersInductive, PTL

-----------------------------------------------------------------------------
(* Side by side: MCPromises takes only steps of its parts.                 *)

(* Every step of the parts side by side is, for each part, a step of its   *)
(* own or none.                                                            *)
LEMMA StepsOfTheParts ==
    ASSUME [PromisesNext]_promiseVars
    PROVE  /\ [Next]_vars /\ [CommissionNext]_commissionVars
           /\ [LicencesNext]_licenceVars /\ [RemindersNext]_reminderVars
  <1>1. CASE Windows
    BY <1>1 DEF Windows, Only
  <1>2. CASE Commissions
    BY <1>2 DEF Commissions, Only
  <1>3. CASE LicenceDesk
    BY <1>3 DEF LicenceDesk, Only, LicencesNext
  <1>4. CASE Reminding
    BY <1>4 DEF Reminding, Only
  <1>5. CASE UNCHANGED promiseVars
    BY <1>5 DEF promiseVars
  <1> QED
    BY <1>1, <1>2, <1>3, <1>4, <1>5 DEF PromisesNext

(* Nothing happens side by side that does not happen in each part alone:   *)
(* what is proved of a part is so of the whole.                            *)
THEOREM PromisesAreTheirParts ==
    PromisesSpec => /\ Init /\ [][Next]_vars
                    /\ CommissionInit /\ [][CommissionNext]_commissionVars
                    /\ LicencesInit /\ [][LicencesNext]_licenceVars
                    /\ RemindersInit /\ [][RemindersNext]_reminderVars
  <1>1. PromisesInit => Init /\ CommissionInit /\ LicencesInit /\ RemindersInit
    BY DEF PromisesInit
  <1>2. [PromisesNext]_promiseVars =>
           /\ [Next]_vars /\ [CommissionNext]_commissionVars
           /\ [LicencesNext]_licenceVars /\ [RemindersNext]_reminderVars
    BY StepsOfTheParts
  <1> QED
    BY <1>1, <1>2, PTL DEF PromisesSpec

(* The four parts side by side keep their types: windows, commissions,     *)
(* licences and reminders.                                                 *)
THEOREM PromisesTypeCorrect == PromisesSpec => []PromisesTypeOK
  <1>1. PromisesInit => IInv /\ CInv /\ LicInv /\ RInv
    BY InitIInv, CommissionInitCInv, LicencesInitLicInv, RemindersInitRInv DEF PromisesInit
  <1>2. IInv /\ CInv /\ LicInv /\ RInv /\ [PromisesNext]_promiseVars
           => (IInv /\ CInv /\ LicInv /\ RInv)'
    BY StepsOfTheParts, NextIInv, CommissionNextCInv, LicencesNextLicInv, RemindersNextRInv
  <1>3. IInv /\ CInv /\ LicInv /\ RInv => PromisesTypeOK
    BY DEF PromisesTypeOK, IInv, CInv, LicInv, RInv
  <1> QED
    BY <1>1, <1>2, <1>3, PTL DEF PromisesSpec
=============================================================================
