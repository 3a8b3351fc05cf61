-------------------------- MODULE ExclusivityProofs --------------------------
(***************************************************************************)
(* Proofs about Exclusivity, for any number of companies, names, deals,    *)
(* requests and days.                                                      *)
(*                                                                         *)
(* The order is: what Upsert does to the ownership rows (the only operator *)
(* here that is more than an assignment); type correctness; the inductive  *)
(* invariant IInv, one lemma per kind of step; the theorems.               *)
(***************************************************************************)
EXTENDS Exclusivity, TLAPS

-----------------------------------------------------------------------------
(* The ownership rows. *)

KeyUnique(rows) ==
    \A r1, r2 \in rows :
        /\ r1.customer = r2.customer
        /\ r1.country = r2.country
        /\ r1.company = r2.company
        => r1 = r2

(* A row of Upsert(own, d, deal, k) was there before, or is d's: for the   *)
(* deal's company and customer, to the deal's end.                         *)
LEMMA UpsertRows ==
    ASSUME NEW rows, rows \subseteq OwnershipRow,
           NEW d \in Deal, NEW deal \in DealRow, NEW k \in Country,
           deal.company \in Company, deal.name \in Name,
           NEW row \in Upsert(rows, d, deal, k)
    PROVE  /\ row \in OwnershipRow
           /\ \/ row \in rows
              \/ /\ row.source = d
                 /\ row.company = deal.company
                 /\ row.customer = Norm[deal.name]
                 /\ row.country = k
                 /\ row.until = deal.end
                 /\ Norm[deal.name] # Blank
  <1> DEFINE mine == RowsFor(rows, deal, k)
  <1>1. CASE Norm[deal.name] = Blank
    BY <1>1 DEF Upsert
  <1>2. CASE Norm[deal.name] # Blank /\ mine = {}
    <2>1. row \in rows \/ row = OwnershipFrom(d, deal, k)
      BY <1>2 DEF Upsert
    <2>2. Norm[deal.name] \in Customer
      BY <1>2, NormAssumption
    <2>3. deal.end \in Nat
      BY DEF DealRow
    <2> QED
      BY <1>2, <2>1, <2>2, <2>3 DEF OwnershipFrom, OwnershipRow
  <1>3. CASE Norm[deal.name] # Blank /\ mine # {}
    <2>1. row \in rows \/ \E r \in mine : row = Moved(r, d, deal)
      BY <1>3 DEF Upsert
    <2>2. ASSUME NEW r \in mine, row = Moved(r, d, deal), row \notin rows
          PROVE  /\ row \in OwnershipRow
                 /\ row.source = d
                 /\ row.company = deal.company
                 /\ row.customer = Norm[deal.name]
                 /\ row.country = k
                 /\ row.until = deal.end
      <3>1. r \in rows /\ r \in OwnershipRow
        BY DEF RowsFor
      <3>2. /\ r.customer = Norm[deal.name]
            /\ r.country = k
            /\ r.company = deal.company
        BY DEF RowsFor
      <3>3. row = [r EXCEPT !.until = deal.end, !.source = d]
        BY <2>2, <3>1 DEF Moved
      <3>4. deal.end \in Nat
        BY DEF DealRow
      <3> QED
        BY <3>1, <3>2, <3>3, <3>4 DEF OwnershipRow
    <2> QED
      BY <1>3, <2>1, <2>2
  <1> QED
    BY <1>1, <1>2, <1>3

(* Upsert keeps at most one row per customer, country and company.         *)
LEMMA UpsertUnique ==
    ASSUME NEW rows, rows \subseteq OwnershipRow, KeyUnique(rows),
           NEW d \in Deal, NEW deal \in DealRow, NEW k \in Country
    PROVE  KeyUnique(Upsert(rows, d, deal, k))
  <1> DEFINE mine == RowsFor(rows, deal, k)
             after == Upsert(rows, d, deal, k)
             IsMine(r) == /\ r.customer = Norm[deal.name]
                          /\ r.country = k
                          /\ r.company = deal.company
  <1>1. CASE Norm[deal.name] = Blank
    BY <1>1 DEF Upsert
  <1>2. CASE Norm[deal.name] # Blank /\ mine = {}
    <2>1. after = rows \cup {OwnershipFrom(d, deal, k)}
      BY <1>2 DEF Upsert
    <2>2. \A r \in rows : ~IsMine(r)
      BY <1>2 DEF RowsFor
    <2>3. IsMine(OwnershipFrom(d, deal, k))
      BY DEF OwnershipFrom
    <2> QED
      BY <2>1, <2>2, <2>3 DEF KeyUnique
  <1>3. CASE Norm[deal.name] # Blank /\ mine # {}
    <2>1. PICK r0 \in mine : mine = {r0}
      BY <1>3 DEF KeyUnique, RowsFor
    <2>2. after = (rows \ mine) \cup {Moved(r0, d, deal)}
      BY <1>3, <2>1 DEF Upsert
    <2>3. \A r \in rows \ mine : ~IsMine(r)
      BY DEF RowsFor
    <2>4. IsMine(Moved(r0, d, deal))
      <3>1. r0 \in OwnershipRow /\ IsMine(r0)
        BY DEF RowsFor
      <3> QED
        BY <3>1 DEF Moved, OwnershipRow
    <2> QED
      BY <2>2, <2>3, <2>4 DEF KeyUnique
  <1> QED
    BY <1>1, <1>2, <1>3

(* No row that was there is cut short: its customer and company still have *)
(* a row, that runs at least as long.                                      *)
LEMMA UpsertKeeps ==
    ASSUME NEW rows, rows \subseteq OwnershipRow,
           NEW d \in Deal, NEW deal \in DealRow, NEW k \in Country,
           NEW r \in rows
    PROVE  \E row \in Upsert(rows, d, deal, k) :
              /\ row.company = r.company
              /\ row.customer = r.customer
              /\ row.until >= r.until
  <1> DEFINE mine == RowsFor(rows, deal, k)
  <1>0. r \in OwnershipRow /\ r.until \in Nat /\ deal.end \in Nat
    BY DEF OwnershipRow, DealRow
  <1>1. CASE r \in Upsert(rows, d, deal, k)
    BY <1>0, <1>1
  <1>2. CASE r \notin Upsert(rows, d, deal, k)
    <2>1. r \in mine /\ Moved(r, d, deal) \in Upsert(rows, d, deal, k)
      BY <1>2 DEF Upsert
    <2>2. /\ Moved(r, d, deal).company = r.company
          /\ Moved(r, d, deal).customer = r.customer
          /\ Moved(r, d, deal).until >= r.until
      BY <1>0 DEF Moved, OwnershipRow
    <2> QED
      BY <2>1, <2>2
  <1> QED
    BY <1>1, <1>2

(* The deal that was upserted is covered to its end.                       *)
LEMMA UpsertCovers ==
    ASSUME NEW rows, rows \subseteq OwnershipRow,
           NEW d \in Deal, NEW deal \in DealRow, NEW k \in Country,
           Norm[deal.name] # Blank
    PROVE  \E row \in Upsert(rows, d, deal, k) :
              /\ row.company = deal.company
              /\ row.customer = Norm[deal.name]
              /\ row.until >= deal.end
  <1> DEFINE mine == RowsFor(rows, deal, k)
  <1>0. deal.end \in Nat
    BY DEF DealRow
  <1>1. CASE mine = {}
    <2>1. OwnershipFrom(d, deal, k) \in Upsert(rows, d, deal, k)
      BY <1>1 DEF Upsert
    <2> QED
      BY <2>1, <1>0 DEF OwnershipFrom
  <1>2. CASE mine # {}
    <2>1. PICK r \in mine : TRUE
      BY <1>2
    <2>2. Moved(r, d, deal) \in Upsert(rows, d, deal, k)
      BY <1>2 DEF Upsert
    <2>3. r \in OwnershipRow /\ r.until \in Nat
      BY DEF RowsFor, OwnershipRow
    <2>4. r.company = deal.company /\ r.customer = Norm[deal.name]
      BY DEF RowsFor
    <2>5. /\ Moved(r, d, deal).company = deal.company
          /\ Moved(r, d, deal).customer = Norm[deal.name]
          /\ Moved(r, d, deal).until >= deal.end
      BY <1>0, <2>3, <2>4 DEF Moved, OwnershipRow
    <2> QED
      BY <2>2, <2>5
  <1> QED
    BY <1>1, <1>2

-----------------------------------------------------------------------------
(* What the decisions make of a row of deal_registrations. *)

(* Writing one column of a row with a value of its type gives a row.       *)
LEMMA SetColumn ==
    ASSUME NEW deal \in DealRow
    PROVE  /\ \A x \in DealStatus : [deal EXCEPT !.status = x] \in DealRow
           /\ \A n \in Nat : /\ [deal EXCEPT !.start = n] \in DealRow
                             /\ [deal EXCEPT !.end = n] \in DealRow
                             /\ [deal EXCEPT !.days = n] \in DealRow
                             /\ [deal EXCEPT !.told = n] \in DealRow
           /\ \A b \in BOOLEAN : [deal EXCEPT !.warned = b] \in DealRow
  BY DEF DealRow

(* Every decision, and the sweep, makes a row of a row.                    *)
LEMMA RowTypes ==
    ASSUME NEW deal \in DealRow, NEW days \in Nat, NEW day \in Nat
    PROVE  /\ Approved(deal, days, day) \in DealRow
           /\ Rejected(deal) \in DealRow
           /\ Extended(deal, days) \in DealRow
           /\ Swept(deal, day) \in DealRow
  <1>0. /\ {"approved", "rejected", "expired"} \subseteq DealStatus
        /\ deal.end \in Nat /\ deal.end + days \in Nat /\ day + days \in Nat
    BY DEF DealRow, DealStatus
  <1>1. Approved(deal, days, day) \in DealRow
    <2> DEFINE r1 == [deal EXCEPT !.status = "approved"]
               r2 == [r1 EXCEPT !.days = days]
               r3 == [r2 EXCEPT !.start = day]
    <2>1. r1 \in DealRow
      BY <1>0, SetColumn
    <2>2. r2 \in DealRow
      BY <2>1, SetColumn
    <2>3. r3 \in DealRow
      BY <2>2, SetColumn
    <2>4. Approved(deal, days, day) = [r3 EXCEPT !.end = day + days]
      BY DEF Approved
    <2> QED
      BY <1>0, <2>3, <2>4, SetColumn
  <1>2. Rejected(deal) \in DealRow
    BY <1>0, SetColumn DEF Rejected
  <1>3. Extended(deal, days) \in DealRow
    <2> DEFINE r1 == [deal EXCEPT !.end = @ + days]
    <2>1. r1 \in DealRow
      BY <1>0, SetColumn
    <2>2. Extended(deal, days) = [r1 EXCEPT !.warned = FALSE]
      BY DEF Extended
    <2> QED
      BY <2>1, <2>2, SetColumn
  <1>4. Expired(deal) \in DealRow
    <2> DEFINE r1 == [deal EXCEPT !.status = "expired"]
    <2>1. r1 \in DealRow
      BY <1>0, SetColumn
    <2>2. Expired(deal) = [r1 EXCEPT !.warned = TRUE]
      BY DEF Expired
    <2> QED
      BY <2>1, <2>2, SetColumn
  <1>5. Warned(deal) \in DealRow
    <2> DEFINE r1 == [deal EXCEPT !.warned = TRUE]
    <2>1. r1 \in DealRow
      BY SetColumn
    <2>2. Warned(deal) = [r1 EXCEPT !.told = deal.end]
      BY DEF Warned
    <2> QED
      BY <1>0, <2>1, <2>2, SetColumn
  <1> QED
    BY <1>1, <1>2, <1>3, <1>4, <1>5 DEF Swept

(* An approval opens the window today and keeps the warning stamp it finds.*)
LEMMA ApprovedRow ==
    ASSUME NEW deal \in DealRow, NEW days \in Nat, NEW day \in Nat
    PROVE  LET row == Approved(deal, days, day)
           IN  /\ row.status = "approved"
               /\ row.company = deal.company
               /\ row.name = deal.name
               /\ row.start = day
               /\ row.end = day + days
               /\ row.warned = deal.warned
  BY Zenon DEF Approved, DealRow

(* A grant moves the end and clears the warning stamp, and nothing else.   *)
LEMMA ExtendedRow ==
    ASSUME NEW deal \in DealRow, NEW days \in Nat
    PROVE  LET row == Extended(deal, days)
           IN  /\ row.status = deal.status
               /\ row.company = deal.company
               /\ row.name = deal.name
               /\ row.end = deal.end + days
               /\ row.warned = FALSE
  BY Zenon DEF Extended, DealRow

(* A sweep changes no customer, company or end; it closes exactly what has *)
(* lapsed, and stamps a warning only with the end that it quotes.          *)
LEMMA SweptRow ==
    ASSUME NEW deal \in DealRow, NEW day \in Nat
    PROVE  /\ Swept(deal, day).company = deal.company
           /\ Swept(deal, day).name = deal.name
           /\ Swept(deal, day).start = deal.start
           /\ Swept(deal, day).end = deal.end
           /\ Swept(deal, day).status =
                 IF Lapsed(deal, day) THEN "expired" ELSE deal.status
           /\ \/ Lapsed(deal, day)
              \/ /\ Swept(deal, day).warned = deal.warned
                 /\ Swept(deal, day).told = deal.told
              \/ /\ deal.status = "approved"
                 /\ Swept(deal, day).told = deal.end
  <1>1. CASE Lapsed(deal, day)
    BY <1>1 DEF Swept, Expired, DealRow
  <1>2. CASE ~Lapsed(deal, day) /\ WarningDue(deal, day)
    BY <1>2 DEF Swept, Warned, WarningDue, DealRow
  <1>3. CASE ~Lapsed(deal, day) /\ ~WarningDue(deal, day)
    BY <1>3 DEF Swept
  <1> QED
    BY <1>1, <1>2, <1>3

-----------------------------------------------------------------------------
(* The inductive invariant. *)

(* The days that the constants allow are naturals.                         *)
LEMMA DayTypes ==
    /\ WindowDays \subseteq Nat
    /\ ExtensionDays \subseteq Nat \ {0}
    /\ MaxDay \in Nat
    /\ 1 .. MaxDay \subseteq Nat
  BY DaysAssumption, MaxDayAssumption

(* An empty database satisfies the invariant.                              *)
LEMMA InitIInv ==
    ASSUME Init PROVE IInv
  <1>1. TypeOK
    BY MaxDayAssumption
    DEF Init, TypeOK, NoDeal, NoRequest, DealRow, RequestRow, DealStatus,
        RequestStatus, NoDay, OwnershipRow
  <1>2. /\ OneRowPerKey
        /\ OwnershipBacked
        /\ CommissionBacked
    BY DEF Init, OneRowPerKey, OwnershipBacked, CommissionBacked
  <1>3. LiveWindowIsOwned /\ WarningIsCurrent
    BY DEF Init, NoDeal, LiveWindowIsOwned, WarningIsCurrent
  <1>4. NothingEarly
    BY DEF Init, NoDeal, NoRequest, NothingEarly
  <1> QED
    BY <1>1, <1>2, <1>3, <1>4 DEF IInv

(* Steps that leave the day, the deals and the ownership rows alone. *)
LEMMA CompanyStep ==
    ASSUME IInv,
           \/ \E c \in Company, k \in Country : MoveCompany(c, k)
           \/ \E c \in Company : ReclassifyCompany(c)
    PROVE  IInv'
  <1>1. UNCHANGED <<today, deals, requests, own, earned>>
    BY DEF MoveCompany, ReclassifyCompany
  <1>2. country' \in [Company -> Country] /\ programme' \subseteq Company
    BY DEF MoveCompany, ReclassifyCompany, companies, IInv, TypeOK
  <1>3. TypeOK'
    BY <1>1, <1>2 DEF IInv, TypeOK
  <1> QED
    BY <1>1, <1>3 DEF IInv, OneRowPerKey, OwnershipBacked, LiveWindowIsOwned,
        WarningIsCurrent, CommissionBacked, NothingEarly

(* Asking for days, or refusing them, writes deal_extension_requests only. *)
LEMMA RequestStep ==
    ASSUME IInv,
           \/ \E q \in Request, d \in Deal, days \in ExtensionDays :
                 RequestExtension(q, d, days)
           \/ \E q \in Request : RefuseExtension(q)
    PROVE  IInv'
  <1>1. UNCHANGED <<today, country, programme, deals, own, earned>>
    BY DEF RequestExtension, RefuseExtension, companies
  <1>2. /\ requests' \in [Request -> RequestRow]
        /\ \A q \in Request : requests'[q].status # "absent" =>
              /\ requests'[q].deal \in Deal
              /\ deals[requests'[q].deal].status \in {"approved", "expired"}
    <2>1. CASE \E q \in Request, d \in Deal, days \in ExtensionDays :
                 RequestExtension(q, d, days)
      <3>1. PICK q \in Request, d \in Deal, days \in ExtensionDays :
               RequestExtension(q, d, days)
        BY <2>1
      <3>2. days \in Nat
        BY DayTypes
      <3> QED
        BY <3>1, <3>2 DEF RequestExtension, IInv, TypeOK, RequestRow,
            RequestStatus, NothingEarly
    <2>2. CASE \E q \in Request : RefuseExtension(q)
      BY <2>2 DEF RefuseExtension, IInv, TypeOK, RequestRow, RequestStatus,
          NothingEarly
    <2> QED
      BY <2>1, <2>2
  <1>3. TypeOK'
    BY <1>1, <1>2 DEF IInv, TypeOK
  <1>4. NothingEarly'
    BY <1>1, <1>2 DEF IInv, NothingEarly
  <1> QED
    BY <1>1, <1>3, <1>4 DEF IInv, OneRowPerKey, OwnershipBacked,
        LiveWindowIsOwned, WarningIsCurrent, CommissionBacked

(* A day that passes can only end windows, never need a new ownership row. *)
LEMMA DayStep ==
    ASSUME IInv, DayPasses
    PROVE  IInv'
  <1>1. UNCHANGED <<country, programme, deals, requests, own, earned>>
    BY DEF DayPasses, companies
  <1>2. today \in Nat /\ today' = today + 1 /\ today' \in 1 .. MaxDay
    BY MaxDayAssumption DEF DayPasses, IInv, TypeOK
  <1>3. TypeOK'
    BY <1>1, <1>2 DEF IInv, TypeOK
  <1>4. LiveWindowIsOwned'
    <2> SUFFICES ASSUME NEW d \in Deal,
                        deals[d].status = "approved",
                        today' <= deals[d].end,
                        Norm[deals[d].name] # Blank
                 PROVE  \E row \in own : /\ row.company = deals[d].company
                                         /\ row.customer = Norm[deals[d].name]
                                         /\ row.until >= deals[d].end
      BY <1>1 DEF LiveWindowIsOwned
    <2>1. deals[d].end \in Nat
      BY DEF IInv, TypeOK, DealRow
    <2>2. today <= deals[d].end
      BY <1>2, <2>1
    <2> QED
      BY <2>2 DEF IInv, LiveWindowIsOwned
  <1> QED
    BY <1>1, <1>3, <1>4 DEF IInv, OneRowPerKey, OwnershipBacked,
        WarningIsCurrent, CommissionBacked, NothingEarly

(* A registration that is new, or refused, has no window and no rows.      *)
LEMMA InsertStep ==
    ASSUME IInv, NEW d \in Deal, NEW c \in Company, NEW n \in Name,
           InsertDeal(d, c, n)
    PROVE  IInv'
  <1>1. /\ UNCHANGED <<today, country, programme, requests, own, earned>>
        /\ deals[d].status = "absent"
        /\ deals' = [deals EXCEPT ![d] = Registered(c, n)]
    BY DEF InsertDeal, companies
  <1>2. /\ Registered(c, n) \in DealRow
        /\ Registered(c, n).status = "pending"
        /\ Registered(c, n).company = c
        /\ Registered(c, n).name = n
        /\ Registered(c, n).end = NoDay
        /\ Registered(c, n).warned = FALSE
    <2> DEFINE r1 == [NoDeal EXCEPT !.status = "pending"]
               r2 == [r1 EXCEPT !.company = c]
    <2>1. Registered(c, n) = [r2 EXCEPT !.name = n]
      BY DEF Registered
    <2>2. NoDeal \in DealRow
      BY DEF NoDeal, DealRow, DealStatus, NoDay
    <2>3. r1 \in DealRow /\ r1.status = "pending" /\ r1.end = NoDay
             /\ r1.warned = FALSE
      BY <2>2 DEF DealRow, DealStatus, NoDeal
    <2>4. r2 \in DealRow /\ r2.status = "pending" /\ r2.end = NoDay
             /\ r2.warned = FALSE /\ r2.company = c
      BY <2>3 DEF DealRow
    <2> QED
      BY <2>1, <2>4 DEF DealRow
  <1>3. TypeOK'
    BY <1>1, <1>2 DEF IInv, TypeOK
  <1>4. OneRowPerKey'
    BY <1>1 DEF IInv, OneRowPerKey
  <1>5. OwnershipBacked'
    BY <1>1 DEF IInv, TypeOK, OwnershipBacked
  <1>6. LiveWindowIsOwned'
    BY <1>1, <1>2 DEF IInv, TypeOK, LiveWindowIsOwned
  <1>7. WarningIsCurrent'
    BY <1>1, <1>2 DEF IInv, TypeOK, WarningIsCurrent
  <1>8. CommissionBacked'
    BY <1>1 DEF IInv, TypeOK, CommissionBacked
  <1>9. NothingEarly'
    BY <1>1, <1>2 DEF IInv, TypeOK, NothingEarly
  <1> QED
    BY <1>3, <1>4, <1>5, <1>6, <1>7, <1>8, <1>9 DEF IInv

(* Rejecting a pending registration.                                       *)
LEMMA RejectStep ==
    ASSUME IInv, NEW d \in Deal, RejectDeal(d)
    PROVE  IInv'
  <1>1. /\ UNCHANGED <<today, country, programme, requests, own, earned>>
        /\ deals[d].status = "pending"
        /\ deals' = [deals EXCEPT ![d] = Rejected(deals[d])]
    BY DEF RejectDeal, companies
  <1>2. /\ Rejected(deals[d]) \in DealRow
        /\ Rejected(deals[d]).status = "rejected"
        /\ Rejected(deals[d]).company = deals[d].company
        /\ Rejected(deals[d]).name = deals[d].name
        /\ Rejected(deals[d]).end = deals[d].end
        /\ Rejected(deals[d]).warned = deals[d].warned
    BY DEF IInv, TypeOK, Rejected, DealRow, DealStatus
  <1>3. TypeOK'
    BY <1>1, <1>2 DEF IInv, TypeOK
  <1>4. OneRowPerKey'
    BY <1>1 DEF IInv, OneRowPerKey
  <1>5. OwnershipBacked'
    BY <1>1 DEF IInv, TypeOK, OwnershipBacked
  <1>6. LiveWindowIsOwned'
    BY <1>1, <1>2 DEF IInv, TypeOK, LiveWindowIsOwned
  <1>7. WarningIsCurrent'
    BY <1>1, <1>2 DEF IInv, TypeOK, WarningIsCurrent
  <1>8. CommissionBacked'
    BY <1>1 DEF IInv, TypeOK, CommissionBacked
  <1>9. NothingEarly'
    BY <1>1, <1>2 DEF IInv, TypeOK, NothingEarly
  <1> QED
    BY <1>3, <1>4, <1>5, <1>6, <1>7, <1>8, <1>9 DEF IInv

(* The heart of it: a registration gets a window, or a longer one, and the *)
(* ownership rows are upserted from it.  Shared by approval and grant.     *)
LEMMA WindowStep ==
    ASSUME IInv, NEW d \in Deal, NEW row \in DealRow,
           row.status = deals[d].status \/ row.status = "approved",
           row.status \in {"approved", "expired"},
           row.company = deals[d].company,
           row.name = deals[d].name,
           deals[d].status # "absent",
           row.end >= deals[d].end,
           row.warned = FALSE,
           deals' = [deals EXCEPT ![d] = row],
           own' = Upsert(own, d, row, country[row.company]),
           UNCHANGED today
    PROVE  /\ own' \subseteq OwnershipRow
           /\ OneRowPerKey'
           /\ OwnershipBacked'
           /\ LiveWindowIsOwned'
           /\ WarningIsCurrent'
  <1> DEFINE k == country[row.company]
  <1>1. /\ own \subseteq OwnershipRow
        /\ row.company \in Company
        /\ row.name \in Name
        /\ k \in Country
        /\ deals \in [Deal -> DealRow]
    BY DEF IInv, TypeOK, NothingEarly
  <1>2. own' \subseteq OwnershipRow
    BY <1>1, UpsertRows
  <1>3. OneRowPerKey'
    <2>1. KeyUnique(own)
      BY DEF IInv, OneRowPerKey, KeyUnique
    <2>2. KeyUnique(own')
      BY <1>1, <2>1, UpsertUnique
    <2> QED
      BY <2>2 DEF OneRowPerKey, KeyUnique
  <1>4. OwnershipBacked'
    <2> SUFFICES ASSUME NEW r \in own'
                 PROVE  /\ deals'[r.source].status \in {"approved", "expired"}
                        /\ deals'[r.source].company = r.company
                        /\ Norm[deals'[r.source].name] = r.customer
                        /\ r.until <= deals'[r.source].end
      BY DEF OwnershipBacked
    <2>1. CASE r \in own
      <3>1. /\ r.source \in Deal /\ r.until \in Nat
            /\ deals[r.source].status \in {"approved", "expired"}
            /\ deals[r.source].company = r.company
            /\ Norm[deals[r.source].name] = r.customer
            /\ r.until <= deals[r.source].end
        BY <2>1, <1>1 DEF IInv, OwnershipBacked, OwnershipRow
      <3>2. deals[d].end \in Nat /\ row.end \in Nat
        BY <1>1 DEF DealRow
      <3> QED
        BY <1>1, <3>1, <3>2
    <2>2. CASE /\ r.source = d
               /\ r.company = row.company
               /\ r.customer = Norm[row.name]
               /\ r.until = row.end
      <3>1. row.end \in Nat
        BY DEF DealRow
      <3> QED
        BY <1>1, <2>2, <3>1
    <2> QED
      BY <1>1, <2>1, <2>2, UpsertRows
  <1>5. LiveWindowIsOwned'
    <2> SUFFICES ASSUME NEW e \in Deal,
                        deals'[e].status = "approved",
                        today <= deals'[e].end,
                        Norm[deals'[e].name] # Blank
                 PROVE  \E r \in own' : /\ r.company = deals'[e].company
                                        /\ r.customer = Norm[deals'[e].name]
                                        /\ r.until >= deals'[e].end
      BY DEF LiveWindowIsOwned
    <2>1. CASE e = d
      BY <1>1, <2>1, UpsertCovers
    <2>2. CASE e # d
      <3>1. deals'[e] = deals[e] /\ deals[e].end \in Nat
        BY <1>1, <2>2 DEF DealRow
      <3>2. PICK r \in own : /\ r.company = deals[e].company
                             /\ r.customer = Norm[deals[e].name]
                             /\ r.until >= deals[e].end
        BY <3>1 DEF IInv, LiveWindowIsOwned
      <3>3. PICK r2 \in own' : /\ r2.company = r.company
                               /\ r2.customer = r.customer
                               /\ r2.until >= r.until
        BY <1>1, UpsertKeeps
      <3>4. r.until \in Nat /\ r2.until \in Nat
        BY <1>1, <1>2 DEF OwnershipRow
      <3> QED
        BY <3>1, <3>2, <3>3, <3>4
    <2> QED
      BY <2>1, <2>2
  <1>6. WarningIsCurrent'
    BY <1>1 DEF IInv, WarningIsCurrent
  <1> QED
    BY <1>2, <1>3, <1>4, <1>5, <1>6

(* Approval: WindowStep for a first window, and the commission row.        *)
LEMMA ApproveStep ==
    ASSUME IInv, NEW d \in Deal, NEW days \in WindowDays,
           ApproveDeal(d, days)
    PROVE  IInv'
  <1> DEFINE row == Approved(deals[d], days, today)
  <1>1. /\ UNCHANGED <<today, country, programme, requests>>
        /\ deals[d].status = "pending"
        /\ deals' = [deals EXCEPT ![d] = row]
        /\ own' = Upsert(own, d, row, country[row.company])
        /\ earned' \subseteq earned \cup {d}
    BY DEF ApproveDeal, companies
  <1>2. /\ deals \in [Deal -> DealRow] /\ deals[d] \in DealRow
        /\ days \in Nat /\ today \in Nat
        /\ deals[d].end = 0 /\ deals[d].warned = FALSE
    BY <1>1, DayTypes DEF IInv, TypeOK, NothingEarly, DealRow, NoDay
  <1>3. /\ row \in DealRow
        /\ row.status = "approved"
        /\ row.company = deals[d].company
        /\ row.name = deals[d].name
        /\ row.end = today + days
        /\ row.warned = FALSE
    <2> DEFINE old == deals[d]
    <2>0. old \in DealRow /\ days \in Nat /\ today \in Nat
      BY <1>2
    <2> HIDE DEF old
    <2>1. Approved(old, days, today) \in DealRow
      BY <2>0, RowTypes
    <2>2. /\ Approved(old, days, today).status = "approved"
          /\ Approved(old, days, today).company = old.company
          /\ Approved(old, days, today).name = old.name
          /\ Approved(old, days, today).end = today + days
          /\ Approved(old, days, today).warned = old.warned
      BY <2>0, ApprovedRow
    <2> QED
      BY <1>2, <2>1, <2>2 DEF old
  <1> HIDE DEF row
  <1>4. row.end >= deals[d].end
    BY <1>2, <1>3
  <1>5. /\ own' \subseteq OwnershipRow
        /\ OneRowPerKey'
        /\ OwnershipBacked'
        /\ LiveWindowIsOwned'
        /\ WarningIsCurrent'
    BY <1>1, <1>3, <1>4, WindowStep
  <1>6. TypeOK'
    BY <1>1, <1>2, <1>3, <1>5 DEF IInv, TypeOK
  <1>7. CommissionBacked'
    BY <1>1, <1>2, <1>3 DEF IInv, CommissionBacked
  <1>8. NothingEarly'
    BY <1>1, <1>2, <1>3 DEF IInv, NothingEarly
  <1> QED
    BY <1>5, <1>6, <1>7, <1>8 DEF IInv

(* A grant: WindowStep for a longer window, and the request's decision.    *)
LEMMA GrantStep ==
    ASSUME IInv, NEW q \in Request, NEW days \in ExtensionDays,
           GrantExtension(q, days)
    PROVE  IInv'
  <1> DEFINE d == requests[q].deal
             row == Extended(deals[d], days)
  <1>1. /\ UNCHANGED <<today, country, programme, earned>>
        /\ requests[q].status = "pending"
        /\ requests' = [requests EXCEPT ![q].status = "approved",
                                        ![q].granted = days]
        /\ deals' = [deals EXCEPT ![d] = row]
        /\ own' = Upsert(own, d, row, country[row.company])
    BY DEF GrantExtension, companies
  <1>2. /\ d \in Deal
        /\ deals \in [Deal -> DealRow] /\ deals[d] \in DealRow
        /\ deals[d].status \in {"approved", "expired"}
        /\ days \in Nat
    BY <1>1, DayTypes DEF IInv, TypeOK, NothingEarly
  <1>3. /\ row \in DealRow
        /\ row.status = deals[d].status
        /\ row.company = deals[d].company
        /\ row.name = deals[d].name
        /\ row.end = deals[d].end + days
        /\ row.warned = FALSE
    BY <1>2, RowTypes, ExtendedRow
  <1>4. /\ requests' \in [Request -> RequestRow]
        /\ \A r \in Request : requests'[r].deal = requests[r].deal
        /\ \A r \in Request :
              requests'[r].status # "absent" => requests[r].status # "absent"
    <2> DEFINE r1 == [requests[q] EXCEPT !.status = "approved"]
    <2>1. requests \in [Request -> RequestRow] /\ requests[q] \in RequestRow
      BY DEF IInv, TypeOK
    <2>2. r1 \in RequestRow /\ r1.deal = requests[q].deal
      BY <2>1 DEF RequestRow, RequestStatus
    <2>3. /\ [r1 EXCEPT !.granted = days] \in RequestRow
          /\ [r1 EXCEPT !.granted = days].deal = requests[q].deal
      BY <1>2, <2>2 DEF RequestRow
    <2>4. requests' = [requests EXCEPT ![q] = [r1 EXCEPT !.granted = days]]
      BY <1>1, <2>1
    <2> QED
      BY <1>1, <2>1, <2>3, <2>4
  <1> HIDE DEF row, d
  <1>5. row.end >= deals[d].end
    BY <1>2, <1>3 DEF DealRow
  <1>6. /\ own' \subseteq OwnershipRow
        /\ OneRowPerKey'
        /\ OwnershipBacked'
        /\ LiveWindowIsOwned'
        /\ WarningIsCurrent'
    BY <1>1, <1>2, <1>3, <1>5, WindowStep
  <1>7. TypeOK'
    BY <1>1, <1>2, <1>3, <1>4, <1>6 DEF IInv, TypeOK
  <1>8. CommissionBacked'
    BY <1>1, <1>2, <1>3 DEF IInv, CommissionBacked
  <1>9. NothingEarly'
    BY <1>1, <1>2, <1>3, <1>4 DEF IInv, NothingEarly
  <1> QED
    BY <1>6, <1>7, <1>8, <1>9 DEF IInv

(* A row that the sweep releases ended before today, so no registration    *)
(* that is still in force was relying on it.                               *)
LEMMA SweepStep ==
    ASSUME IInv, SweepExclusivity
    PROVE  IInv'
  <1>1. /\ UNCHANGED <<today, country, programme, requests, earned>>
        /\ deals' = [d \in Deal |-> Swept(deals[d], today)]
        /\ own' \subseteq own
    BY DEF SweepExclusivity, companies
  <1>2. /\ today \in Nat /\ own \subseteq OwnershipRow
        /\ deals \in [Deal -> DealRow]
    BY MaxDayAssumption DEF IInv, TypeOK
  <1>3. \A d \in Deal : deals'[d] = Swept(deals[d], today)
    BY <1>1
  <1>4. deals' \in [Deal -> DealRow]
    <2>1. \A d \in Deal : Swept(deals[d], today) \in DealRow
      <3> SUFFICES ASSUME NEW d \in Deal
                   PROVE  Swept(deals[d], today) \in DealRow
        OBVIOUS
      <3>1. deals[d] \in DealRow
        BY <1>2
      <3>2. 0 \in Nat
        OBVIOUS
      <3> QED
        BY <1>2, <3>1, <3>2, RowTypes
    <2> QED
      BY <1>1, <2>1
  <1>5. \A d \in Deal :
           /\ deals'[d].company = deals[d].company
           /\ deals'[d].name = deals[d].name
           /\ deals'[d].end = deals[d].end
           /\ deals'[d].status =
                 IF Lapsed(deals[d], today) THEN "expired" ELSE deals[d].status
           /\ \/ Lapsed(deals[d], today)
              \/ /\ deals'[d].warned = deals[d].warned
                 /\ deals'[d].told = deals[d].told
              \/ /\ deals[d].status = "approved"
                 /\ deals'[d].told = deals[d].end
    BY <1>2, <1>3, SweptRow
  <1>6. TypeOK'
    BY <1>1, <1>4 DEF IInv, TypeOK
  <1>7. OneRowPerKey'
    BY <1>1 DEF IInv, OneRowPerKey
  <1>8. OwnershipBacked'
    <2> SUFFICES ASSUME NEW r \in own'
                 PROVE  /\ deals'[r.source].status \in {"approved", "expired"}
                        /\ deals'[r.source].company = r.company
                        /\ Norm[deals'[r.source].name] = r.customer
                        /\ r.until <= deals'[r.source].end
      BY DEF OwnershipBacked
    <2>1. /\ r.source \in Deal
          /\ deals[r.source].status \in {"approved", "expired"}
          /\ deals[r.source].company = r.company
          /\ Norm[deals[r.source].name] = r.customer
          /\ r.until <= deals[r.source].end
      BY <1>1, <1>2 DEF IInv, OwnershipBacked, OwnershipRow
    <2> QED
      BY <1>5, <2>1
  <1>9. LiveWindowIsOwned'
    <2> SUFFICES ASSUME NEW d \in Deal,
                        deals'[d].status = "approved",
                        today <= deals'[d].end,
                        Norm[deals'[d].name] # Blank
                 PROVE  \E r \in own' : /\ r.company = deals'[d].company
                                        /\ r.customer = Norm[deals'[d].name]
                                        /\ r.until >= deals'[d].end
      BY <1>1 DEF LiveWindowIsOwned
    <2>1. /\ deals[d].status = "approved"
          /\ deals[d].end \in Nat
      BY <1>2, <1>5 DEF DealRow
    <2>2. PICK r \in own : /\ r.company = deals[d].company
                           /\ r.customer = Norm[deals[d].name]
                           /\ r.until >= deals[d].end
      BY <1>5, <2>1 DEF IInv, LiveWindowIsOwned
    <2>3. r \in own'
      <3>1. SUFFICES ASSUME r \notin own' PROVE FALSE
        OBVIOUS
      <3>2. PICK e \in Deal : Lapsed(deals[e], today)
                             /\ r \in ReleasedBy(own, e, today)
        BY <3>1 DEF SweepExclusivity
      <3>3. /\ r.source = e
            /\ r.until \in Nat
            /\ r.until <= deals[e].end
            /\ deals[e].end \in Nat
            /\ deals[e].end < today
        BY <1>2, <3>2
        DEF ReleasedBy, Lapsed, IInv, OwnershipBacked, OwnershipRow, DealRow
      <3> QED
        BY <1>2, <1>5, <2>1, <2>2, <3>3
    <2> QED
      BY <1>5, <2>2, <2>3
  <1>10. WarningIsCurrent'
    <2> SUFFICES ASSUME NEW d \in Deal,
                        deals'[d].status = "approved",
                        deals'[d].warned
                 PROVE  deals'[d].told = deals'[d].end
      BY DEF WarningIsCurrent
    <2>1. ~Lapsed(deals[d], today) /\ deals[d].status = "approved"
      BY <1>5
    <2> QED
      BY <1>5, <2>1 DEF IInv, WarningIsCurrent
  <1>11. CommissionBacked'
    BY <1>1, <1>5 DEF IInv, CommissionBacked
  <1>12. NothingEarly'
    <2>1. ASSUME NEW d \in Deal, deals'[d].status # "absent"
          PROVE  deals'[d].company \in Company /\ deals'[d].name \in Name
      BY <1>5, <2>1 DEF IInv, NothingEarly, Lapsed
    <2>2. ASSUME NEW d \in Deal,
                 deals'[d].status \in {"absent", "pending", "rejected"}
          PROVE  ~deals'[d].warned /\ deals'[d].end = NoDay
      <3>1. /\ ~Lapsed(deals[d], today)
            /\ deals[d].status \in {"absent", "pending", "rejected"}
        BY <1>5, <2>2
      <3> QED
        BY <1>5, <3>1 DEF IInv, NothingEarly
    <2>3. ASSUME NEW q \in Request, requests'[q].status # "absent"
          PROVE  /\ requests'[q].deal \in Deal
                 /\ deals'[requests'[q].deal].status
                       \in {"approved", "expired"}
      BY <1>1, <1>5, <2>3 DEF IInv, NothingEarly
    <2> QED
      BY <2>1, <2>2, <2>3 DEF NothingEarly
  <1> QED
    BY <1>6, <1>7, <1>8, <1>9, <1>10, <1>11, <1>12 DEF IInv

(* IInv is inductive.                                                      *)
LEMMA NextIInv ==
    ASSUME IInv, [Next]_vars
    PROVE  IInv'
  <1>1. CASE \/ \E c \in Company, k \in Country : MoveCompany(c, k)
             \/ \E c \in Company : ReclassifyCompany(c)
    BY <1>1, CompanyStep
  <1>2. CASE \E d \in Deal, c \in Company, n \in Name :
                CreateDeal(d, c, n) \/ RenewLicence(d, c, n)
    <2>1. PICK d \in Deal, c \in Company, n \in Name : InsertDeal(d, c, n)
      BY <1>2 DEF CreateDeal, RenewLicence
    <2> QED
      BY <2>1, InsertStep
  <1>3. CASE \E d \in Deal, days \in WindowDays : ApproveDeal(d, days)
    BY <1>3, ApproveStep
  <1>4. CASE \E d \in Deal : RejectDeal(d)
    BY <1>4, RejectStep
  <1>5. CASE \/ \E q \in Request, d \in Deal, days \in ExtensionDays :
                   RequestExtension(q, d, days)
             \/ \E q \in Request : RefuseExtension(q)
    BY <1>5, RequestStep
  <1>6. CASE \E q \in Request, days \in ExtensionDays : GrantExtension(q, days)
    BY <1>6, GrantStep
  <1>7. CASE SweepExclusivity
    BY <1>7, SweepStep
  <1>8. CASE DayPasses
    BY <1>8, DayStep
  <1>9. CASE UNCHANGED vars
    BY <1>9
    DEF vars, IInv, TypeOK, OneRowPerKey, OwnershipBacked, LiveWindowIsOwned,
        WarningIsCurrent, CommissionBacked, NothingEarly
  <1> QED
    BY <1>1, <1>2, <1>3, <1>4, <1>5, <1>6, <1>7, <1>8, <1>9 DEF Next

-----------------------------------------------------------------------------
(* The theorems. *)

(* The inductive invariant holds of every behaviour: Exclusivity's handlers*)
(* and sweep, in any order, on any days.                                   *)
THEOREM Inductive == Spec => []IInv
  <1>1. Init => IInv
    BY InitIInv
  <1>2. IInv /\ [Next]_vars => IInv'
    BY NextIInv
  <1> QED
    BY <1>1, <1>2, PTL DEF Spec

(* Every column keeps its type, whatever is granted and however often.     *)
THEOREM TypeCorrect == Spec => []TypeOK
  <1>1. IInv => TypeOK
    BY DEF IInv
  <1> QED
    BY <1>1, Inductive, PTL

(* upsert_ownership_from_deal's scalar_one_or_none() never meets a second  *)
(* active row of a customer, country and company.                          *)
THEOREM UpsertFindsOne == Spec => []OneRowPerKey
  <1>1. IInv => OneRowPerKey
    BY DEF IInv
  <1> QED
    BY <1>1, Inductive, PTL

(* The block and the window agree: an active row says no more than the     *)
(* approved registration it came from, the window of an approved           *)
(* registration is covered to its end by an active row, and no key has two *)
(* rows.                                                                   *)
THEOREM OwnershipAgrees == Spec => []OwnershipStands
  <1>1. IInv => OwnershipStands
    BY DEF IInv, OwnershipStands
  <1> QED
    BY <1>1, Inductive, PTL

(* No sequence of warnings and extensions leaves the people of an approved *)
(* registration with a warning stamped and an end date they were not told. *)
THEOREM WarnedOfTheRealEnd == Spec => []WarningIsCurrent
  <1>1. IInv => WarningIsCurrent
    BY DEF IInv
  <1> QED
    BY <1>1, Inductive, PTL

(* A commission row has an approved registration behind it, and nothing    *)
(* has a window, a warning or an extension before it is approved.          *)
THEOREM DecidedBeforeEarned == Spec => []DecisionsInOrder
  <1>1. IInv => DecisionsInOrder
    BY DEF IInv, DecisionsInOrder
  <1> QED
    BY <1>1, Inductive, PTL

-----------------------------------------------------------------------------
(* The refinement of WindowLifecycle, its closing under fairness apart.    *)

Phases == [d \in Deal |-> PhaseOf(deals[d])]
Untils == [d \in Deal |-> IF deals[d].status = "approved" THEN deals[d].end ELSE 0]

(* A handler that writes one registration moves its phase and its day.     *)
LEMMA OneWindowMoves ==
    ASSUME NEW d \in Deal, NEW row, TypeOK, deals' = [deals EXCEPT ![d] = row]
    PROVE  /\ Phases' = [Phases EXCEPT ![d] = PhaseOf(row)]
           /\ Untils' = [Untils EXCEPT ![d] =
                            IF row.status = "approved" THEN row.end ELSE 0]
  <1>1. \A e \in Deal : deals'[e] = IF e = d THEN row ELSE deals[e]
    BY DEF TypeOK
  <1>2. Phases' = [Phases EXCEPT ![d] = PhaseOf(row)]
    <2>1. Phases' = [e \in Deal |-> PhaseOf(deals'[e])]
      BY DEF Phases
    <2>2. \A e \in Deal : PhaseOf(deals'[e]) =
                           IF e = d THEN PhaseOf(row) ELSE PhaseOf(deals[e])
      BY <1>1
    <2> QED
      BY <2>1, <2>2 DEF Phases
  <1>3. Untils' = [Untils EXCEPT ![d] =
                     IF row.status = "approved" THEN row.end ELSE 0]
    <2>1. Untils' = [e \in Deal |->
                       IF deals'[e].status = "approved" THEN deals'[e].end ELSE 0]
      BY DEF Untils
    <2>2. \A e \in Deal :
             (IF deals'[e].status = "approved" THEN deals'[e].end ELSE 0) =
             IF e = d THEN (IF row.status = "approved" THEN row.end ELSE 0)
             ELSE IF deals[e].status = "approved" THEN deals[e].end ELSE 0
      BY <1>1
    <2> QED
      BY <2>1, <2>2 DEF Untils
  <1> QED
    BY <1>2, <1>3

LEMMA PromiseInit == Init => Promise!Init
  BY DEF Init, Promise!Init, NoDeal, PhaseOf

LEMMA RegisterIsPromised ==
    ASSUME IInv, NEW d \in Deal, NEW c \in Company, NEW n \in Name, InsertDeal(d, c, n)
    PROVE  Promise!Next
  <1>1. /\ deals[d].status = "absent" /\ UNCHANGED today
        /\ deals' = [deals EXCEPT ![d] = Registered(c, n)]
    BY DEF InsertDeal
  <1>2. Registered(c, n).status = "pending"
    BY DEF Registered, NoDeal
  <1>3. /\ Phases[d] = "none" /\ Phases' = [Phases EXCEPT ![d] = "waiting"]
        /\ Untils[d] = 0 /\ Untils' = [Untils EXCEPT ![d] = 0]
    BY <1>1, <1>2, OneWindowMoves DEF IInv, Phases, Untils, PhaseOf
  <1>4. Untils' = Untils
    BY <1>3 DEF Untils
  <1>5. Promise!Register(d)
    BY <1>1, <1>3, <1>4 DEF Promise!Register, Phases, Untils
  <1> QED
    BY <1>5 DEF Promise!Next

LEMMA ApprovalIsPromised ==
    ASSUME IInv, NEW d \in Deal, NEW days \in WindowDays, ApproveDeal(d, days)
    PROVE  Promise!Next
  <1>1. /\ deals[d].status = "pending" /\ UNCHANGED today
        /\ deals' = [deals EXCEPT ![d] = Approved(deals[d], days, today)]
    BY DEF ApproveDeal
  <1>2. deals[d] \in DealRow /\ days \in Nat /\ today \in Nat
    BY DayTypes DEF IInv, TypeOK
  <1>3. /\ Approved(deals[d], days, today).status = "approved"
        /\ Approved(deals[d], days, today).end = today + days
    BY <1>2, ApprovedRow
  <1>4. /\ Phases[d] = "waiting" /\ Phases' = [Phases EXCEPT ![d] = "open"]
        /\ Untils' = [Untils EXCEPT ![d] = today + days]
    BY <1>1, <1>3, OneWindowMoves DEF IInv, Phases, PhaseOf
  <1>5. Promise!Open(d, days)
    BY <1>1, <1>4 DEF Promise!Open, Phases, Untils
  <1> QED
    BY <1>5 DEF Promise!Next

LEMMA RejectionIsPromised ==
    ASSUME IInv, NEW d \in Deal, RejectDeal(d) PROVE Promise!Next
  <1>1. /\ deals[d].status = "pending" /\ UNCHANGED today
        /\ deals' = [deals EXCEPT ![d] = Rejected(deals[d])]
    BY DEF RejectDeal
  <1>2. Rejected(deals[d]).status = "rejected"
    BY DEF Rejected, IInv, TypeOK, DealRow
  <1>3. /\ Phases[d] = "waiting" /\ Phases' = [Phases EXCEPT ![d] = "refused"]
        /\ Untils[d] = 0 /\ Untils' = [Untils EXCEPT ![d] = 0]
    BY <1>1, <1>2, OneWindowMoves DEF IInv, Phases, Untils, PhaseOf
  <1>4. Untils' = Untils
    BY <1>3 DEF Untils
  <1>5. Promise!Refuse(d)
    BY <1>1, <1>3, <1>4 DEF Promise!Refuse, Phases, Untils
  <1> QED
    BY <1>5 DEF Promise!Next

(* A grant moves the day of an open window; on a registration that has     *)
(* expired it moves an end that nobody is promised any more.               *)
LEMMA GrantIsPromised ==
    ASSUME IInv, NEW q \in Request, NEW days \in ExtensionDays, GrantExtension(q, days)
    PROVE  Promise!Next \/ UNCHANGED <<today, Phases, Untils>>
  <1> DEFINE d == requests[q].deal
             row == Extended(deals[d], days)
  <1>1. /\ requests[q].status = "pending" /\ UNCHANGED today
        /\ deals' = [deals EXCEPT ![d] = row]
    BY DEF GrantExtension
  <1>2. d \in Deal /\ deals[d].status \in {"approved", "expired"}
    BY <1>1 DEF IInv, NothingEarly
  <1>3. deals[d] \in DealRow /\ days \in Nat
    BY <1>2, DayTypes DEF IInv, TypeOK
  <1>4. row.status = deals[d].status /\ row.end = deals[d].end + days
    BY <1>3, ExtendedRow
  <1>5. PICK e \in Deal : e = d
    BY <1>2
  <1> HIDE DEF d, row
  <1>6. deals' = [deals EXCEPT ![e] = row]
    BY <1>1, <1>5
  <1>7. /\ Phases' = [Phases EXCEPT ![e] = PhaseOf(row)]
        /\ Untils' = [Untils EXCEPT ![e] =
                         IF row.status = "approved" THEN row.end ELSE 0]
    BY <1>6, OneWindowMoves DEF IInv
  <1>8. PhaseOf(row) = Phases[e]
    BY <1>2, <1>4, <1>5 DEF PhaseOf, Phases
  <1>9. Phases' = Phases
    BY <1>7, <1>8 DEF Phases
  <1>10. CASE deals[e].status = "approved"
    <2>1. Phases[e] = "open" /\ Untils[e] = deals[e].end
      BY <1>10 DEF Phases, PhaseOf, Untils
    <2>2. Untils' = [Untils EXCEPT ![e] = Untils[e] + days]
      BY <1>4, <1>5, <1>7, <1>10, <2>1
    <2>3. Promise!Extend(e, days)
      BY <1>1, <1>9, <2>1, <2>2 DEF Promise!Extend, Phases, Untils
    <2> QED
      BY <2>3 DEF Promise!Next
  <1>11. CASE deals[e].status = "expired"
    <2>1. Untils[e] = 0 /\ Untils' = [Untils EXCEPT ![e] = 0]
      BY <1>4, <1>5, <1>7, <1>11 DEF Untils
    <2>2. Untils' = Untils
      BY <2>1 DEF Untils
    <2> QED
      BY <1>1, <1>9, <2>2
  <1> QED
    BY <1>2, <1>5, <1>10, <1>11

(* A pass closes all the windows that are over, and touches no other.      *)
LEMMA SweepIsPromised ==
    ASSUME IInv, SweepExclusivity
    PROVE  Promise!Next \/ UNCHANGED <<today, Phases, Untils>>
  <1>1. deals' = [d \in Deal |-> Swept(deals[d], today)] /\ UNCHANGED today
    BY DEF SweepExclusivity
  <1>2. today \in Nat /\ \A d \in Deal : deals[d] \in DealRow
    BY DayTypes DEF IInv, TypeOK
  <1>3. \A d \in Deal :
           /\ deals'[d].end = deals[d].end
           /\ deals'[d].status = IF Lapsed(deals[d], today) THEN "expired"
                                                            ELSE deals[d].status
    BY <1>1, <1>2, SweptRow
  <1>4. \A d \in Deal : Lapsed(deals[d], today) <=>
                           Phases[d] = "open" /\ Untils[d] < today
    BY <1>2 DEF Phases, Untils, PhaseOf, Lapsed, DealRow, DealStatus
  <1>5. Phases' = [d \in Deal |-> IF Phases[d] = "open" /\ Untils[d] < today
                                 THEN "closed" ELSE Phases[d]]
    <2>1. \A d \in Deal : PhaseOf(deals'[d]) =
             IF Lapsed(deals[d], today) THEN "closed" ELSE PhaseOf(deals[d])
      BY <1>2, <1>3 DEF PhaseOf, DealRow, DealStatus
    <2> QED
      BY <1>4, <2>1 DEF Phases
  <1>6. Untils' = [d \in Deal |-> IF Phases[d] = "open" /\ Untils[d] < today
                                 THEN 0 ELSE Untils[d]]
    <2>1. \A d \in Deal :
             (IF deals'[d].status = "approved" THEN deals'[d].end ELSE 0) =
             IF Lapsed(deals[d], today) THEN 0
             ELSE IF deals[d].status = "approved" THEN deals[d].end ELSE 0
      BY <1>3
    <2> QED
      BY <1>4, <2>1 DEF Untils
  <1>7. CASE \E d \in Deal : Phases[d] = "open" /\ Untils[d] < today
    <2>1. Promise!Close
      BY <1>1, <1>5, <1>6, <1>7 DEF Promise!Close, Promise!Over, Phases, Untils
    <2> QED
      BY <2>1 DEF Promise!Next
  <1>8. CASE ~\E d \in Deal : Phases[d] = "open" /\ Untils[d] < today
    <2>1. Phases' = [d \in Deal |-> Phases[d]] /\ Untils' = [d \in Deal |-> Untils[d]]
      BY <1>5, <1>6, <1>8
    <2> QED
      BY <1>1, <2>1 DEF Phases, Untils
  <1> QED
    BY <1>7, <1>8

LEMMA StepIsPromised ==
    IInv /\ [Next]_vars => Promise!Next \/ UNCHANGED <<today, Phases, Untils>>
  <1> SUFFICES ASSUME IInv, [Next]_vars
               PROVE  Promise!Next \/ UNCHANGED <<today, Phases, Untils>>
    OBVIOUS
  <1>1. ASSUME UNCHANGED <<today, deals>> PROVE UNCHANGED <<today, Phases, Untils>>
    BY <1>1 DEF Phases, Untils
  <1>2. ASSUME \/ \E c \in Company, k \in Country : MoveCompany(c, k)
               \/ \E c \in Company : ReclassifyCompany(c)
               \/ \E q \in Request, d \in Deal, days \in ExtensionDays :
                     RequestExtension(q, d, days)
               \/ \E q \in Request : RefuseExtension(q)
               \/ UNCHANGED vars
        PROVE  UNCHANGED <<today, deals>>
    BY <1>2 DEF MoveCompany, ReclassifyCompany, RequestExtension, RefuseExtension, vars
  <1>3. ASSUME NEW d \in Deal, NEW c \in Company, NEW n \in Name,
               CreateDeal(d, c, n) \/ RenewLicence(d, c, n)
        PROVE  Promise!Next
    BY <1>3, RegisterIsPromised DEF CreateDeal, RenewLicence
  <1>4. ASSUME DayPasses PROVE Promise!Next
    <2>1. today < MaxDay /\ today' = today + 1 /\ UNCHANGED deals
      BY <1>4 DEF DayPasses
    <2>2. Promise!DayPasses
      BY <2>1 DEF Promise!DayPasses
    <2> QED
      BY <2>2 DEF Promise!Next
  <1> QED
    BY <1>1, <1>2, <1>3, <1>4, ApprovalIsPromised, RejectionIsPromised,
       GrantIsPromised, SweepIsPromised
    DEF Next

(* A registration lives as its partner is promised: however approvals,     *)
(* rejections, grants, sweeps and renewals follow one another, its window  *)
(* opens once, on a decision, for the days of that decision; its day moves *)
(* only while it is open; and it closes after that day and for good.       *)
(* (KeepsPromise also says that it does close; that needs fairness.)       *)
THEOREM WindowsLiveAsPromised ==
    Spec => Promise!Init /\ [][Promise!Next]_(Promise!vars)
  <1>1. IInv /\ [Next]_vars => [Promise!Next]_(Promise!vars)
    BY StepIsPromised DEF Promise!vars, Phases, Untils
  <1>2. Spec => Promise!Init
    BY PromiseInit DEF Spec
  <1> QED
    BY <1>1, <1>2, Inductive, PTL DEF Spec
=============================================================================
