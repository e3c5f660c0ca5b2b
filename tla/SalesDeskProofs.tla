---------------------------- MODULE SalesDeskProofs ----------------------------
(***************************************************************************)
(* What covers the price of a sale, the papers written of it, the client's *)
(* record and the reports tell the same story, for any methods, bills,     *)
(* goods, prices, clerks, papers, dates, periods and sizes of a page.      *)
(*                                                                         *)
(* Of a payment, TakingsAddUp rests on what each request has checked and   *)
(* not yet written (RequestAddsUp) and on the receipt's snapshot being     *)
(* still true of a sale nobody changed (StillTrue).                        *)
(*                                                                         *)
(* Of the papers, every figure of a report follows from one invariant      *)
(* (PapersInv): each paper is priced as its units are (Priced), returns    *)
(* and exchanges are of a live sale and stay within its units (OfSale,     *)
(* Fits), an exchange shares the fate of its return (Paired), the shelf is *)
(* what the papers and the movements left of it (Shelved), the client's    *)
(* record is that of the papers unless an older total was written over it, *)
(* and a change of dates under way knows the dates that were there         *)
(* (RedateHolds).  That the reports add up is then arithmetic: a paper and *)
(* a product are a cell, each report adds up the same cells in its own     *)
(* order, and each order is shown to reach every cell once.                *)
(***************************************************************************)
EXTENDS SalesPosProofs, MCSalesDesk, SequenceTheorems

-----------------------------------------------------------------------------
(* What covers the price of a sale.                                        *)

Columns == Method \cup {Bonus}

\* What a split, or one payment by a method, says of the price of a sale.
AddsUp(split, method, charge, debt, bonus) ==
    IF split = NoSplit
      THEN method \in Method /\ bonus = 0 /\ debt \in {0, charge}
      ELSE SumOver(split, Columns) + debt = charge /\ split[Bonus] = bonus

PayRequest ==
    [step : {"pay"}, payable : Amounts, bonus : Amounts, debt : Amounts,
     rows : [method : Columns, split : Splits]]
ChangeRequest ==
    [step : {"change"}, method : Method, draft : BOOLEAN, promised : Amounts, split : Splits]
SnapshotRecord ==
    [paid : BOOLEAN, came : [Columns -> Amounts], total : Amounts,
     debt : Amounts, after : Nat, before : Nat]
ReceiptRequest == [step : {"receipt"}, snapshot : SnapshotRecord]

\* A payment adds up to the price it was checked with; a change that was checked
\* on a paid sale adds up to its price with the debt it names.
RequestAddsUp(r) ==
    /\ r.step = "pay" => AddsUp(r.rows.split, r.rows.method, r.payable, r.debt, r.bonus)
    /\ r.step = "change" /\ ~r.draft =>
          /\ bill.paid
          /\ r.split # NoSplit => AddsUp(r.split, r.method, bill.payable, r.promised, 0)

\* What was written down of a paid sale is what the sale still says.
StillTrue(snapshot) == bill.paid /\ (~bill.changed => snapshot = Snapshot)

PaymentTypes ==
    /\ bill \in [paid : BOOLEAN, payable : Amounts, method : Columns,
                 split : Splits, debt : Amounts, bonusPaid : Amounts,
                 bonusEarned : Nat, changed : BOOLEAN, missing : Amounts]
    /\ balance \in Nat
    /\ counter \in [Cashier -> {AtCounter} \cup PayRequest \cup ChangeRequest \cup ReceiptRequest]
    /\ receipt \in {NoReceipt} \cup SnapshotRecord
    /\ outrun \in BOOLEAN /\ early \in BOOLEAN

DraftHolds ==
    ~bill.paid => /\ bill.debt = 0 /\ bill.bonusPaid = 0 /\ bill.bonusEarned = 0
                  /\ bill.changed => early
                  /\ ~bill.changed => bill.split = NoSplit

\* Only the split of a change leaves something to a debt nobody wrote.
MissingHolds == ~bill.changed \/ bill.split = NoSplit => bill.missing = 0

PaidHolds ==
    bill.paid /\ ~outrun /\ (bill.changed => ~early /\ bill.debt = 0 /\ bill.bonusPaid = 0) =>
        AddsUp(bill.split, bill.method, bill.payable, bill.debt + bill.missing, bill.bonusPaid)

PaymentsInv ==
    /\ PaymentTypes
    /\ balance = OpeningBalance - bill.bonusPaid + bill.bonusEarned
    /\ DraftHolds
    /\ MissingHolds
    /\ PaidHolds
    /\ \A c \in Cashier :
          /\ RequestAddsUp(counter[c])
          /\ counter[c].step = "receipt" /\ counter[c].snapshot.paid =>
                StillTrue(counter[c].snapshot)
    /\ receipt # NoReceipt /\ receipt.paid => StillTrue(receipt)

-----------------------------------------------------------------------------
LEMMA ColumnsFinite == IsFiniteSet(Columns)
BY PaymentsAssumption, FS_AddElement DEF Columns

\* The bills have a largest one.
LEMMA MostType == Most \in Nat /\ Bills \subseteq Amounts
<1>1. Bills \in SUBSET Nat /\ IsFiniteSet(Bills) /\ Bills # {}
  BY PaymentsAssumption
<1>2. \E n \in Bills : \A k \in Bills : k <= n
  BY <1>1, GreatestExists
<1>3. Most \in Bills /\ \A k \in Bills : k <= Most
  BY <1>2 DEF Most
<1> QED BY <1>1, <1>3 DEF Amounts

\* The rows of money, with a bonus among them, sum to both.
LEMMA RowsSum ==
    ASSUME NEW money \in [Method -> Amounts], NEW bonus \in Amounts
    PROVE  /\ Rows(money, bonus) \in [Columns -> Amounts]
           /\ Rows(money, bonus) # NoSplit
           /\ Rows(money, bonus)[Bonus] = bonus
           /\ Total(money) \in Nat
           /\ SumOver(Rows(money, bonus), Columns) = Total(money) + bonus
<1> DEFINE rows == Rows(money, bonus)
<1>1. rows \in [Columns -> Amounts] /\ rows[Bonus] = bonus
  BY DEF Rows, Columns
<1>2. Amounts \subseteq Nat
  BY DEF Amounts
<1>3. rows # NoSplit
  <2>1. rows \in [Columns -> Nat]
    BY <1>1, <1>2
  <2> QED BY <2>1, PaymentsAssumption DEF Columns
<1>4. SumOver(rows, Columns) = SumOver(rows, Columns \ {Bonus}) + rows[Bonus]
  <2>1. \A m \in Columns : rows[m] \in Nat
    BY <1>1, <1>2
  <2>2. Bonus \in Columns
    BY DEF Columns
  <2> HIDE DEF rows
  <2> QED BY <2>1, <2>2, ColumnsFinite, SumSplit
<1>5. Columns \ {Bonus} = Method
  BY PaymentsAssumption DEF Columns
<1>6. SumOver(rows, Method) = SumOver(money, Method)
  <2>1. \A m \in Method : rows[m] = money[m]
    BY PaymentsAssumption DEF Rows
  <2> HIDE DEF rows
  <2> QED BY <2>1, SumCongruence
<1>7. Total(money) \in Nat
  <2>1. \A m \in Method : money[m] \in Int
    BY DEF Amounts
  <2>2. IsFiniteSet(Method)
    BY PaymentsAssumption
  <2>3. SumOver(money, Method) \in Nat
    BY <2>1, <2>2, SumType
  <2> QED BY <2>3 DEF Total
<1> QED BY <1>1, <1>3, <1>4, <1>5, <1>6, <1>7 DEF Total

\* Nothing named, nothing paid.
LEMMA NothingNamed ==
    ASSUME NEW money \in [Method -> Amounts], Named(money) = {}
    PROVE  Total(money) = 0
<1>1. \A m \in Method \ {} : money[m] = 0
  BY DEF Named, Amounts
<1>2. SumOver(money, Method) = SumOver(money, {})
  BY <1>1, SumZeroRows
<1> QED BY <1>2, SumEmpty DEF Total

\* What is covered adds up, with the bonus as well.
LEMMA CoveredAddsUp ==
    ASSUME NEW money \in [Method -> Amounts], NEW first \in Method, NEW debt \in Debts,
           NEW bonus \in Amounts, NEW charge \in Amounts, bonus <= charge,
           Covers(money, debt, charge - bonus)
    PROVE  LET rows == WithBonus(money, first, debt, charge - bonus, bonus)
           IN  /\ rows \in [method : Columns, split : Splits]
               /\ DebtOf(debt, charge - bonus) \in Amounts
               /\ AddsUp(rows.split, rows.method, charge, DebtOf(debt, charge - bonus), bonus)
<1> DEFINE due == charge - bonus
           all == [m \in Method |-> IF m = first /\ ~debt.asked THEN due ELSE 0]
           owed == DebtOf(debt, due)
           split == MoneySplit(money, debt)
           rows == WithBonus(money, first, debt, due, bonus)
<1>1. Most \in Nat /\ due \in Amounts /\ due \in Nat /\ charge = due + bonus /\ 0 \in Amounts
      /\ bonus \in Nat
  BY MostType DEF Amounts
<1>2. debt.asked \in BOOLEAN /\ debt.amount \in Amounts /\ (~debt.asked => debt.amount = 0)
  BY <1>1 DEF Debts
<1>3. owed \in Amounts /\ (~debt.asked => owed = 0)
  BY <1>1, <1>2 DEF DebtOf
<1>4. all \in [Method -> Amounts]
  BY <1>1
<1>5. /\ Rows(money, bonus) \in [Columns -> Amounts] /\ Rows(money, bonus) # NoSplit
      /\ Rows(money, bonus)[Bonus] = bonus /\ Total(money) \in Nat
      /\ SumOver(Rows(money, bonus), Columns) = Total(money) + bonus
  BY RowsSum
<1>6. /\ Rows(money, 0) \in [Columns -> Amounts] /\ Rows(money, 0) # NoSplit
      /\ Rows(money, 0)[Bonus] = 0
      /\ SumOver(Rows(money, 0), Columns) = Total(money) + 0
  BY <1>1, RowsSum
<1>7. /\ Rows(all, bonus) \in [Columns -> Amounts] /\ Rows(all, bonus) # NoSplit
      /\ Rows(all, bonus)[Bonus] = bonus
      /\ SumOver(Rows(all, bonus), Columns) = Total(all) + bonus
  <2> HIDE DEF all
  <2> QED BY <1>4, RowsSum
<1>8. Total(all) = IF debt.asked THEN 0 ELSE due
  <2>1. CASE debt.asked
    <3>1. Named(all) = {}
      BY <2>1 DEF Named
    <3> HIDE DEF all
    <3> QED BY <2>1, <3>1, <1>4, NothingNamed
  <2>2. CASE ~debt.asked
    <3>1. all[first] = due /\ \A m \in Method \ {first} : all[m] = 0
      BY <2>2
    <3> HIDE DEF all, due
    <3> QED BY <2>2, <3>1, <1>1, SumOneRow DEF Total
  <2> QED BY <2>1, <2>2, <1>2
<1>9. Named(money) = {} => Total(money) = 0
  BY NothingNamed
<1>10. /\ debt.asked => Total(money) + owed = due
       /\ ~debt.asked /\ Named(money) # {} => Total(money) = due
  BY DEF Covers
<1>11. Named(money) # {} => Total(money) + owed = due
  <2> HIDE DEF due, owed
  <2> QED BY <1>1, <1>2, <1>3, <1>10
<1>12. Columns = Method \cup {Bonus} /\ Splits = {NoSplit} \cup [Columns -> Amounts]
  BY DEF Columns, Splits
<1>13. split = IF Cardinality(Named(money)) > 1 \/ (debt.asked /\ Named(money) # {})
                 THEN Rows(money, 0) ELSE NoSplit
  BY DEF MoneySplit
<1>14. rows = IF bonus = 0 THEN [method |-> first, split |-> split]
              ELSE [method |-> IF due = 0 THEN Bonus ELSE first,
                    split |-> IF split = NoSplit THEN Rows(all, bonus) ELSE Rows(money, bonus)]
  BY DEF WithBonus
<1>15. Cardinality(Named(money)) > 1 => Named(money) # {}
  BY FS_EmptySet
<1> HIDE DEF due, all, owed, split, rows
<1>16. rows \in [method : Columns, split : Splits]
  BY <1>5, <1>6, <1>7, <1>12, <1>13, <1>14
<1>17. AddsUp(rows.split, rows.method, charge, owed, bonus)
  <2>1. CASE bonus = 0 /\ split = NoSplit
    <3>1. rows.split = NoSplit /\ rows.method = first
      BY <2>1, <1>14
    <3>2. owed \in {0, charge}
      BY <2>1, <1>1, <1>3, <1>6, <1>9, <1>10, <1>13, <1>2
    <3> QED BY <2>1, <3>1, <3>2 DEF AddsUp
  <2>2. CASE bonus = 0 /\ split # NoSplit
    <3>1. rows.split = Rows(money, 0)
      BY <2>2, <1>13, <1>14
    <3>2. Named(money) # {}
      BY <2>2, <1>13, <1>15
    <3> QED BY <2>2, <3>1, <3>2, <1>1, <1>3, <1>5, <1>6, <1>11 DEF AddsUp, Amounts
  <2>3. CASE bonus # 0 /\ split = NoSplit
    <3>1. rows.split = Rows(all, bonus)
      BY <2>3, <1>14
    <3>2. Total(all) + owed = due
      BY <2>3, <1>1, <1>2, <1>3, <1>6, <1>8, <1>9, <1>10, <1>13 DEF Amounts
    <3> QED BY <2>3, <3>1, <3>2, <1>1, <1>2, <1>3, <1>7, <1>8 DEF AddsUp, Amounts
  <2>4. CASE bonus # 0 /\ split # NoSplit
    <3>1. rows.split = Rows(money, bonus)
      BY <2>4, <1>14
    <3>2. Named(money) # {}
      BY <2>4, <1>13, <1>15
    <3> QED BY <2>4, <3>1, <3>2, <1>1, <1>3, <1>5, <1>11 DEF AddsUp, Amounts
  <2> QED BY <2>1, <2>2, <2>3, <2>4
<1> QED BY <1>3, <1>16, <1>17 DEF due, owed, rows

-----------------------------------------------------------------------------
LEMMA PaymentsBegin == PaymentsInit => PaymentsInv
<1> SUFFICES ASSUME PaymentsInit PROVE PaymentsInv
  OBVIOUS
<1>1. 0 \in Amounts /\ DefaultMethod \in Columns /\ NoSplit \in Splits
  BY MostType, PaymentsAssumption DEF Amounts, Columns, Splits
<1>2. PaymentTypes
  BY <1>1, PaymentsAssumption DEF PaymentsInit, PaymentTypes
<1>3. \A c \in Cashier : counter[c].step = "idle"
  BY DEF PaymentsInit, AtCounter
<1> QED BY <1>2, <1>3, PaymentsAssumption DEF PaymentsInit, PaymentsInv, DraftHolds, PaidHolds,
      MissingHolds, RequestAddsUp

\* A request of a cashier, by its step.
LEMMA RequestKinds ==
    ASSUME PaymentTypes, NEW c \in Cashier
    PROVE  /\ counter[c] = AtCounter <=> counter[c].step = "idle"
           /\ counter[c].step = "pay" => counter[c] \in PayRequest
           /\ counter[c].step = "change" => counter[c] \in ChangeRequest
           /\ counter[c].step = "receipt" => counter[c] \in ReceiptRequest
<1>1. counter[c] \in {AtCounter} \cup PayRequest \cup ChangeRequest \cup ReceiptRequest
  BY DEF PaymentTypes
<1>2. /\ AtCounter.step = "idle"
      /\ \A r \in PayRequest : r.step = "pay"
      /\ \A r \in ChangeRequest : r.step = "change"
      /\ \A r \in ReceiptRequest : r.step = "receipt"
  BY DEF AtCounter, PayRequest, ChangeRequest, ReceiptRequest
<1> QED BY <1>1, <1>2

\* A snapshot of a paid sale with this bill, balance and nothing else.
LEMMA SnapshotType ==
    ASSUME PaymentsInv
    PROVE  Snapshot \in SnapshotRecord
<1> USE DEF PaymentsInv
<1>1. MethodStats \in [Columns -> Amounts]
  <2> SUFFICES ASSUME NEW m \in Columns PROVE Counted(m) \in Amounts
    BY DEF MethodStats, Columns
  <2>1. bill.split \in Splits /\ bill.payable \in Amounts /\ 0 \in Amounts
    BY MostType DEF PaymentTypes, Amounts
  <2> QED BY <2>1 DEF Counted, Splits, Columns
<1>2. /\ bill.bonusPaid \in Nat /\ bill.bonusEarned \in Nat
      /\ balance \in Nat /\ balance - bill.bonusEarned + bill.bonusPaid = OpeningBalance
  BY MostType, PaymentsAssumption DEF PaymentTypes, Amounts
<1> QED BY <1>1, <1>2, PaymentsAssumption DEF Snapshot, SnapshotRecord, PaymentTypes

\* A step that leaves the sale alone keeps what is known of it.
LEMMA SameBill ==
    ASSUME PaymentsInv, UNCHANGED <<bill, balance, outrun, early>>,
           NEW c \in Cashier, NEW r, Turn(c, r),
           r \in {AtCounter} \cup PayRequest \cup ChangeRequest \cup ReceiptRequest,
           RequestAddsUp(r), r.step = "receipt" /\ r.snapshot.paid => StillTrue(r.snapshot),
           receipt' \in {NoReceipt} \cup SnapshotRecord,
           receipt' # NoReceipt /\ receipt'.paid => StillTrue(receipt')
    PROVE  PaymentsInv'
<1> USE DEF PaymentsInv
<1>1. PaymentTypes'
  BY DEF PaymentTypes, Turn
<1>2. Snapshot' = Snapshot
  BY DEF Snapshot, MethodStats, Counted
<1>3. ASSUME NEW d \in Cashier
      PROVE  counter'[d] = IF d = c THEN r ELSE counter[d]
  BY DEF Turn, PaymentTypes
<1>4. ASSUME NEW d \in Cashier
      PROVE  /\ RequestAddsUp(counter[d])'
             /\ (counter[d].step = "receipt" /\ counter[d].snapshot.paid =>
                   StillTrue(counter[d].snapshot))'
  BY <1>2, <1>3 DEF RequestAddsUp, StillTrue
<1>5. (receipt # NoReceipt /\ receipt.paid => StillTrue(receipt))'
  BY <1>2 DEF StillTrue
<1>6. /\ DraftHolds' /\ MissingHolds' /\ PaidHolds'
      /\ (balance = OpeningBalance - bill.bonusPaid + bill.bonusEarned)'
  BY DEF DraftHolds, MissingHolds, PaidHolds
<1> QED BY <1>1, <1>4, <1>5, <1>6

LEMMA IdleRequest ==
    /\ RequestAddsUp(AtCounter) /\ AtCounter.step = "idle"
    /\ AtCounter \in {AtCounter} \cup PayRequest \cup ChangeRequest \cup ReceiptRequest
BY DEF AtCounter, RequestAddsUp

LEMMA EditBillKeeps ==
    ASSUME PaymentsInv, NEW n \in Bills, EditBill(n)
    PROVE  PaymentsInv'
<1> USE DEF PaymentsInv
<1>1. bill' = [bill EXCEPT !.payable = n] /\ ~bill.paid /\ n \in Amounts
  BY MostType DEF EditBill
<1>2. /\ bill'.paid = bill.paid /\ bill'.method = bill.method /\ bill'.split = bill.split
      /\ bill'.debt = bill.debt /\ bill'.bonusPaid = bill.bonusPaid
      /\ bill'.bonusEarned = bill.bonusEarned /\ bill'.changed = bill.changed
      /\ bill'.missing = bill.missing
  BY <1>1 DEF PaymentTypes
<1>3. PaymentTypes'
  BY <1>1 DEF PaymentTypes, EditBill
<1>4. \A c \in Cashier : RequestAddsUp(counter[c])'
  BY <1>1, <1>2 DEF RequestAddsUp, EditBill
<1>5. /\ \A c \in Cashier : ~(counter[c].step = "receipt" /\ counter[c].snapshot.paid)'
      /\ ~(receipt # NoReceipt /\ receipt.paid)'
  BY <1>1 DEF EditBill, StillTrue
<1> QED BY <1>1, <1>2, <1>3, <1>4, <1>5 DEF EditBill, DraftHolds, MissingHolds, PaidHolds

LEMMA CheckPaymentKeeps ==
    ASSUME PaymentsInv, NEW c \in Cashier, NEW money \in [Method -> Amounts],
           NEW first \in Method, NEW debt \in Debts, NEW bonus \in Amounts,
           CheckPayment(c, money, first, debt, bonus)
    PROVE  PaymentsInv'
<1> DEFINE due == bill.payable - bonus
           r == [step |-> "pay", payable |-> bill.payable, bonus |-> bonus,
                 debt |-> DebtOf(debt, due),
                 rows |-> WithBonus(money, first, debt, due, bonus)]
<1>1. /\ Covers(money, debt, due) /\ bonus <= bill.payable /\ Turn(c, r)
      /\ UNCHANGED <<bill, balance, receipt, outrun, early>>
  BY DEF CheckPayment, BonusAccepted
<1>2. bill.payable \in Amounts
  BY DEF PaymentsInv, PaymentTypes
<1>3. /\ WithBonus(money, first, debt, due, bonus) \in [method : Columns, split : Splits]
      /\ DebtOf(debt, due) \in Amounts
      /\ AddsUp(WithBonus(money, first, debt, due, bonus).split,
                WithBonus(money, first, debt, due, bonus).method,
                bill.payable, DebtOf(debt, due), bonus)
  BY <1>1, <1>2, CoveredAddsUp
<1>4. r \in PayRequest /\ r.step = "pay"
  BY <1>2, <1>3 DEF PayRequest
<1>5. RequestAddsUp(r)
  BY <1>3 DEF RequestAddsUp
<1> HIDE DEF r
<1>6. /\ receipt' \in {NoReceipt} \cup SnapshotRecord
      /\ receipt' # NoReceipt /\ receipt'.paid => StillTrue(receipt')
  BY <1>1 DEF PaymentsInv, PaymentTypes
<1> QED BY <1>1, <1>4, <1>5, <1>6, SameBill

LEMMA CheckChangeKeeps ==
    ASSUME PaymentsInv, NEW c \in Cashier, NEW money \in [Method -> Amounts],
           NEW first \in Method, NEW debt \in Debts, CheckChange(c, money, first, debt)
    PROVE  PaymentsInv'
<1> DEFINE split == IF Cardinality(Named(money)) > 1 THEN Rows(money, 0) ELSE NoSplit
           promised == DebtOf(debt, bill.payable)
           r == [step |-> "change", method |-> first, draft |-> ~bill.paid,
                 promised |-> promised, split |-> split]
<1>1. /\ Covers(money, debt, bill.payable) /\ Turn(c, r)
      /\ UNCHANGED <<bill, balance, receipt, outrun, early>>
  BY DEF CheckChange
<1>2. 0 \in Amounts /\ Amounts \subseteq Nat /\ bill.paid \in BOOLEAN
  BY MostType DEF Amounts, PaymentsInv, PaymentTypes
<1>3. /\ Rows(money, 0) \in [Columns -> Amounts]
      /\ Rows(money, 0)[Bonus] = 0 /\ Total(money) \in Nat
      /\ SumOver(Rows(money, 0), Columns) = Total(money) + 0
  BY <1>2, RowsSum
<1>4. split \in Splits
  BY <1>3 DEF Splits, Columns
<1>5. /\ debt.asked \in BOOLEAN /\ bill.payable \in Amounts
      /\ promised \in Amounts /\ (~debt.asked => promised = 0)
  BY <1>2 DEF Debts, DebtOf, PaymentsInv, PaymentTypes
<1>6. split # NoSplit => AddsUp(split, first, bill.payable, promised, 0)
  <2> SUFFICES ASSUME split # NoSplit PROVE AddsUp(split, first, bill.payable, promised, 0)
    OBVIOUS
  <2>1. split = Rows(money, 0) /\ Cardinality(Named(money)) > 1
    OBVIOUS
  <2>2. Named(money) # {}
    BY <2>1, FS_EmptySet
  <2>3. Total(money) + promised = bill.payable
    <3>1. CASE debt.asked
      BY <1>1, <3>1 DEF Covers
    <3>2. CASE ~debt.asked
      <4>1. promised = 0 /\ Total(money) = bill.payable
        BY <1>1, <1>5, <2>2, <3>2 DEF Covers
      <4> HIDE DEF promised
      <4> QED BY <4>1, <1>2, <1>3, <1>5
    <3> QED BY <3>1, <3>2, <1>5
  <2> HIDE DEF split, promised
  <2> QED BY <1>3, <2>1, <2>3 DEF AddsUp
<1> HIDE DEF split, promised
<1>7. r \in ChangeRequest /\ r.step = "change"
  BY <1>2, <1>4, <1>5 DEF ChangeRequest
<1>8. RequestAddsUp(r)
  BY <1>2, <1>6 DEF RequestAddsUp
<1>9. /\ receipt' \in {NoReceipt} \cup SnapshotRecord
      /\ receipt' # NoReceipt /\ receipt'.paid => StillTrue(receipt')
  BY <1>1 DEF PaymentsInv, PaymentTypes
<1> HIDE DEF r
<1> QED BY <1>1, <1>7, <1>8, <1>9, SameBill

LEMMA EarnedType ==
    ASSUME NEW charge \in Nat, NEW bonus \in Nat, bonus <= charge
    PROVE  Earned(charge, bonus) \in Nat
<1>1. charge - bonus \in Nat /\ BonusPercent \in Nat
  BY PaymentsAssumption
<1>2. (charge - bonus) * BonusPercent \in Nat
  BY <1>1
<1>3. 2 * ((charge - bonus) * BonusPercent) + 100 \in Nat
  BY <1>2
<1>4. 2 * (charge - bonus) * BonusPercent + 100 \in Nat
  BY <1>1, <1>3
<1>5. (2 * (charge - bonus) * BonusPercent + 100) \div 200 \in Nat
  <2> DEFINE n == 2 * (charge - bonus) * BonusPercent + 100
  <2> HIDE DEF n
  <2>1. n \in Nat
    BY <1>4 DEF n
  <2>2. n \div 200 \in Nat
    BY <2>1
  <2> QED BY <2>2 DEF n
<1> QED BY <1>5 DEF Earned

LEMMA CommitPaymentKeeps ==
    ASSUME PaymentsInv, NEW c \in Cashier, CommitPayment(c)
    PROVE  PaymentsInv'
<1> USE DEF PaymentsInv
<1> DEFINE r == counter[c]
           earned == IF bill.payable > r.bonus THEN Earned(bill.payable, r.bonus) ELSE 0
<1>1. /\ r \in PayRequest /\ AddsUp(r.rows.split, r.rows.method, r.payable, r.debt, r.bonus)
      /\ ~bill.paid /\ r.bonus <= balance
  BY RequestKinds DEF CommitPayment, RequestAddsUp, CanDebit
<1>2. /\ r.payable \in Amounts /\ r.bonus \in Amounts /\ r.debt \in Amounts
      /\ r.rows.method \in Columns /\ r.rows.split \in Splits
  BY <1>1 DEF PayRequest
<1>3. Amounts \subseteq Nat /\ bill.payable \in Amounts
  BY DEF Amounts, PaymentTypes
<1>4. earned \in Nat
  <2>1. bill.payable \in Nat /\ r.bonus \in Nat
    BY <1>2, <1>3
  <2> HIDE DEF r
  <2> QED BY <2>1, EarnedType
<1> DEFINE b == [bill EXCEPT
                  !.paid = TRUE, !.method = r.rows.method, !.debt = r.debt,
                  !.split = IF r.rows.split = NoSplit THEN @ ELSE r.rows.split,
                  !.bonusPaid = r.bonus, !.bonusEarned = earned]
<1>5. /\ bill' = b /\ balance' = balance - r.bonus + earned
      /\ outrun' = (r.payable # bill.payable) /\ Turn(c, AtCounter)
      /\ receipt' = receipt /\ early' = early
  BY DEF CommitPayment
<1> HIDE DEF earned, r
<1>6. /\ bill' \in [paid : BOOLEAN, payable : Amounts, method : Columns,
                    split : Splits, debt : Amounts, bonusPaid : Amounts,
                    bonusEarned : Nat, changed : BOOLEAN, missing : Amounts]
      /\ bill'.paid /\ bill'.payable = bill.payable /\ bill'.method = r.rows.method
      /\ bill'.split = IF r.rows.split = NoSplit THEN bill.split ELSE r.rows.split
      /\ bill'.debt = r.debt /\ bill'.bonusPaid = r.bonus /\ bill'.bonusEarned = earned
      /\ bill'.changed = bill.changed /\ bill'.missing = bill.missing
  BY <1>2, <1>4, <1>5 DEF PaymentTypes
<1> HIDE DEF b
<1>7. balance' \in Nat /\ balance' = OpeningBalance - bill'.bonusPaid + bill'.bonusEarned
  <2>1. balance = OpeningBalance /\ OpeningBalance \in Nat
    BY <1>1, PaymentsAssumption DEF DraftHolds
  <2>2. r.bonus \in Nat
    BY <1>2, <1>3
  <2> QED BY <1>1, <1>4, <1>5, <1>6, <2>1, <2>2
<1>8. PaymentTypes'
  BY <1>5, <1>6, <1>7 DEF PaymentTypes, Turn
<1>9. DraftHolds' /\ MissingHolds'
  BY <1>6 DEF DraftHolds, MissingHolds
<1>10. PaidHolds'
  <2> SUFFICES ASSUME ~outrun', bill'.changed => ~early'
               PROVE  AddsUp(bill'.split, bill'.method, bill'.payable,
                             bill'.debt + bill'.missing, bill'.bonusPaid)
    BY <1>6 DEF PaidHolds
  <2>1. r.payable = bill.payable /\ bill.split = NoSplit /\ bill.missing = 0
    BY <1>1, <1>5, <1>6 DEF DraftHolds, MissingHolds
  <2>2. bill'.debt + bill'.missing = r.debt
    <3>1. r.debt \in Nat /\ bill'.debt = r.debt
      BY <1>2, <1>3, <1>6
    <3>2. bill'.missing = 0
      BY <1>6, <2>1
    <3> QED BY <3>1, <3>2
  <2>3. /\ bill'.split = r.rows.split /\ bill'.method = r.rows.method
        /\ bill'.payable = r.payable /\ bill'.bonusPaid = r.bonus
    BY <1>6, <2>1
  <2>4. AddsUp(r.rows.split, r.rows.method, r.payable, r.debt, r.bonus)
    BY <1>1
  <2> QED BY <2>2, <2>3, <2>4
<1>11. ASSUME NEW d \in Cashier
       PROVE  /\ RequestAddsUp(counter[d])'
              /\ ~(counter[d].step = "receipt" /\ counter[d].snapshot.paid)'
  <2>1. counter'[d] = IF d = c THEN AtCounter ELSE counter[d]
    BY <1>5 DEF Turn, PaymentTypes
  <2>2. RequestAddsUp(counter[d]) /\ ~(counter[d].step = "receipt" /\ counter[d].snapshot.paid)
    BY <1>1 DEF StillTrue
  <2> QED BY <1>1, <2>1, <2>2, IdleRequest DEF RequestAddsUp
<1>12. ~(receipt # NoReceipt /\ receipt.paid)'
  BY <1>1, <1>5 DEF StillTrue
<1> QED BY <1>7, <1>8, <1>9, <1>10, <1>11, <1>12

LEMMA CommitChangeKeeps ==
    ASSUME PaymentsInv, NEW c \in Cashier, CommitChange(c)
    PROVE  PaymentsInv'
<1> USE DEF PaymentsInv
<1> DEFINE r == counter[c]
<1>1. r \in ChangeRequest /\ RequestAddsUp(r) /\ r.step = "change"
  BY RequestKinds DEF CommitChange
<1>2. r.method \in Method /\ r.split \in Splits /\ r.draft \in BOOLEAN /\ r.promised \in Amounts
  BY <1>1 DEF ChangeRequest
<1>3. /\ bill' = [bill EXCEPT !.method = r.method, !.changed = TRUE,
                              !.split = IF r.split = NoSplit THEN @ ELSE r.split,
                              !.missing = IF r.split = NoSplit THEN @ ELSE r.promised]
      /\ early' = (early \/ r.draft) /\ Turn(c, AtCounter)
      /\ balance' = balance /\ receipt' = receipt /\ outrun' = outrun
  BY DEF CommitChange
<1> HIDE DEF r
<1>4. /\ bill' \in [paid : BOOLEAN, payable : Amounts, method : Columns,
                    split : Splits, debt : Amounts, bonusPaid : Amounts,
                    bonusEarned : Nat, changed : BOOLEAN, missing : Amounts]
      /\ bill'.paid = bill.paid /\ bill'.payable = bill.payable /\ bill'.method = r.method
      /\ bill'.split = IF r.split = NoSplit THEN bill.split ELSE r.split
      /\ bill'.debt = bill.debt /\ bill'.bonusPaid = bill.bonusPaid
      /\ bill'.bonusEarned = bill.bonusEarned /\ bill'.changed
      /\ bill'.missing = IF r.split = NoSplit THEN bill.missing ELSE r.promised
  BY <1>2, <1>3 DEF PaymentTypes, Columns
<1>5. PaymentTypes'
  BY <1>2, <1>3, <1>4 DEF PaymentTypes, Turn
<1>6. \/ r.draft
      \/ bill.paid /\ (r.split # NoSplit => AddsUp(r.split, r.method, bill.payable, r.promised, 0))
  BY <1>1 DEF RequestAddsUp
<1>7. DraftHolds' /\ MissingHolds'
  <2>1. MissingHolds'
    BY <1>4 DEF MissingHolds
  <2> QED BY <1>3, <1>4, <1>6, <2>1 DEF DraftHolds
<1>8. PaidHolds'
  <2> SUFFICES ASSUME bill.paid, ~outrun, ~early', bill.debt = 0, bill.bonusPaid = 0
               PROVE  AddsUp(bill'.split, bill'.method, bill'.payable,
                             bill'.debt + bill'.missing, bill'.bonusPaid)
    BY <1>3, <1>4 DEF PaidHolds
  <2>1. /\ bill.missing \in Nat /\ r.promised \in Nat
        /\ 0 + bill.missing = bill.missing /\ 0 + r.promised = r.promised
    BY <1>2 DEF PaymentTypes, Amounts
  <2>2. AddsUp(bill.split, bill.method, bill.payable, bill.missing, 0)
    BY <1>3, <2>1 DEF PaidHolds
  <2>3. r.split # NoSplit => AddsUp(r.split, r.method, bill.payable, r.promised, 0)
    BY <1>3, <1>6
  <2>4. CASE r.split = NoSplit
    <3>1. bill'.split = bill.split /\ bill'.debt + bill'.missing = bill.missing
      BY <1>4, <2>1, <2>4
    <3> QED BY <1>2, <1>4, <2>2, <3>1 DEF AddsUp
  <2>5. CASE r.split # NoSplit
    <3>1. bill'.split = r.split /\ bill'.debt + bill'.missing = r.promised
      BY <1>4, <2>1, <2>5
    <3> QED BY <1>2, <1>4, <2>3, <2>5, <3>1 DEF AddsUp
  <2> QED BY <2>4, <2>5
<1>9. ASSUME NEW d \in Cashier
      PROVE  /\ RequestAddsUp(counter[d])'
             /\ (counter[d].step = "receipt" /\ counter[d].snapshot.paid =>
                   StillTrue(counter[d].snapshot))'
  <2>1. counter'[d] = IF d = c THEN AtCounter ELSE counter[d]
    BY <1>3 DEF Turn, PaymentTypes
  <2> QED BY <1>4, <2>1, IdleRequest DEF RequestAddsUp, StillTrue, AddsUp
<1>10. (receipt # NoReceipt /\ receipt.paid => StillTrue(receipt))'
  BY <1>3, <1>4 DEF StillTrue
<1> QED BY <1>3, <1>4, <1>5, <1>7, <1>8, <1>9, <1>10

LEMMA ReceiptKeeps ==
    ASSUME PaymentsInv, NEW c \in Cashier, AskReceipt(c) \/ CommitReceipt(c) \/ LeaveCounter(c)
    PROVE  PaymentsInv'
<1>1. UNCHANGED <<bill, balance, outrun, early>>
  BY DEF AskReceipt, CommitReceipt, LeaveCounter
<1>2. /\ receipt \in {NoReceipt} \cup SnapshotRecord
      /\ receipt # NoReceipt /\ receipt.paid => StillTrue(receipt)
  BY DEF PaymentsInv, PaymentTypes
<1>3. CASE AskReceipt(c)
  <2> DEFINE r == [step |-> "receipt", snapshot |-> Snapshot]
  <2>1. Turn(c, r) /\ receipt' = receipt
    BY <1>3 DEF AskReceipt
  <2>2. Snapshot \in SnapshotRecord
    BY SnapshotType
  <2>3. r \in ReceiptRequest /\ r.step = "receipt" /\ RequestAddsUp(r)
    BY <2>2 DEF ReceiptRequest, RequestAddsUp
  <2>4. r.snapshot.paid => StillTrue(r.snapshot)
    BY DEF Snapshot, StillTrue
  <2> HIDE DEF r
  <2> QED BY <1>1, <1>2, <2>1, <2>3, <2>4, SameBill
<1>4. CASE CommitReceipt(c)
  <2>1. /\ Turn(c, AtCounter) /\ counter[c] \in ReceiptRequest
        /\ receipt' = IF receipt = NoReceipt THEN counter[c].snapshot ELSE receipt
    BY <1>4, RequestKinds DEF CommitReceipt, PaymentsInv
  <2>2. counter[c].snapshot \in SnapshotRecord
        /\ (counter[c].snapshot.paid => StillTrue(counter[c].snapshot))
    BY <1>4, <2>1 DEF CommitReceipt, PaymentsInv, ReceiptRequest
  <2>3. /\ receipt' \in {NoReceipt} \cup SnapshotRecord
        /\ receipt' # NoReceipt /\ receipt'.paid => StillTrue(receipt')
    BY <1>2, <2>1, <2>2
  <2> QED BY <1>1, <2>1, <2>3, IdleRequest, SameBill
<1>5. CASE LeaveCounter(c)
  <2>1. Turn(c, AtCounter) /\ receipt' = receipt
    BY <1>5 DEF LeaveCounter
  <2> QED BY <1>1, <1>2, <2>1, IdleRequest, SameBill
<1> QED BY <1>3, <1>4, <1>5

LEMMA PaymentsStep == PaymentsInv /\ [PaymentsNext]_paymentVars => PaymentsInv'
<1> SUFFICES ASSUME PaymentsInv, [PaymentsNext]_paymentVars PROVE PaymentsInv'
  OBVIOUS
<1>1. ASSUME NEW n \in Bills, EditBill(n) PROVE PaymentsInv'
  BY <1>1, EditBillKeeps
<1>2. ASSUME NEW c \in Cashier, NEW money \in [Method -> Amounts], NEW first \in Method,
             NEW debt \in Debts, NEW bonus \in Amounts,
             CheckPayment(c, money, first, debt, bonus)
      PROVE  PaymentsInv'
  BY <1>2, CheckPaymentKeeps
<1>3. ASSUME NEW c \in Cashier, NEW money \in [Method -> Amounts], NEW first \in Method,
             NEW debt \in Debts, CheckChange(c, money, first, debt)
      PROVE  PaymentsInv'
  BY <1>3, CheckChangeKeeps
<1>4. ASSUME NEW c \in Cashier, CommitPayment(c) PROVE PaymentsInv'
  BY <1>4, CommitPaymentKeeps
<1>5. ASSUME NEW c \in Cashier, CommitChange(c) PROVE PaymentsInv'
  BY <1>5, CommitChangeKeeps
<1>6. ASSUME NEW c \in Cashier, AskReceipt(c) \/ CommitReceipt(c) \/ LeaveCounter(c)
      PROVE  PaymentsInv'
  BY <1>6, ReceiptKeeps
<1>7. CASE UNCHANGED paymentVars
  BY <1>7 DEF paymentVars, PaymentsInv, PaymentTypes, DraftHolds, MissingHolds, PaidHolds, RequestAddsUp,
     StillTrue, Snapshot, MethodStats, Counted
<1> QED BY <1>1, <1>2, <1>3, <1>4, <1>5, <1>6, <1>7 DEF PaymentsNext

LEMMA PaymentsInvTypes == PaymentsInv => PaymentsTypeOK
<1> SUFFICES ASSUME PaymentsInv PROVE PaymentsTypeOK
  OBVIOUS
<1>1. \A c \in Cashier : counter[c].step \in {"idle", "pay", "change", "receipt"}
  BY DEF PaymentsInv, PaymentTypes, AtCounter, PayRequest, ChangeRequest, ReceiptRequest
<1> QED BY <1>1 DEF PaymentsInv, PaymentTypes, PaymentsTypeOK, SnapshotRecord, Columns

LEMMA TakingsFollow == PaymentsInv => TakingsAddUp
<1> SUFFICES ASSUME PaymentsInv, bill.paid, ~outrun,
                    bill.changed => ~early /\ bill.debt = 0 /\ bill.bonusPaid = 0
             PROVE  LET came == SumOver(MethodStats, Method \cup {Bonus})
                    IN /\ bill.split # NoSplit => came + bill.debt + bill.missing = bill.payable
                       /\ bill.split = NoSplit => came = bill.payable /\ bill.debt \in {0, bill.payable}
                       /\ Counted(Bonus) = bill.bonusPaid
                       /\ receipt # NoReceipt /\ receipt.paid /\ ~bill.changed =>
                          /\ receipt.came = MethodStats
                          /\ receipt.total = bill.payable /\ receipt.debt = bill.debt
                          /\ receipt.before = OpeningBalance /\ receipt.after = balance
  BY DEF TakingsAddUp
<1> USE DEF PaymentsInv
<1> DEFINE came == SumOver(MethodStats, Columns)
<1>1. AddsUp(bill.split, bill.method, bill.payable, bill.debt + bill.missing, bill.bonusPaid)
  BY DEF PaidHolds
<1>2. ASSUME bill.split # NoSplit PROVE came + bill.debt + bill.missing = bill.payable
  <2>1. \A m \in Columns : MethodStats[m] = bill.split[m]
    BY <1>2 DEF MethodStats, Counted, Columns
  <2>2. came = SumOver(bill.split, Columns)
    BY <2>1, SumCongruence
  <2>3. \A m \in Columns : bill.split[m] \in Nat
    BY <1>2 DEF PaymentTypes, Splits, Columns, Amounts
  <2>4. came \in Nat /\ bill.debt \in Nat /\ bill.missing \in Nat
    BY <2>2, <2>3, ColumnsFinite, SumType DEF PaymentTypes, Amounts
  <2> QED BY <1>1, <1>2, <2>2, <2>4 DEF AddsUp
<1>3. ASSUME bill.split = NoSplit
      PROVE  came = bill.payable /\ bill.debt \in {0, bill.payable} /\ bill.method # Bonus
             /\ bill.bonusPaid = 0
  <2>1. bill.method \in Method /\ bill.debt \in {0, bill.payable} /\ bill.bonusPaid = 0
    <3>1. bill.debt + bill.missing = bill.debt
      BY <1>3 DEF MissingHolds, PaymentTypes, Amounts
    <3> QED BY <1>1, <1>3, <3>1 DEF AddsUp
  <2>2. /\ bill.method \in Columns /\ MethodStats[bill.method] = bill.payable
        /\ \A m \in Columns \ {bill.method} : MethodStats[m] = 0
    BY <1>3, <2>1 DEF MethodStats, Counted, Columns
  <2>3. bill.payable \in Nat
    BY DEF PaymentTypes, Amounts
  <2>4. came = bill.payable
    BY <2>2, <2>3, SumOneRow
  <2> QED BY <2>1, <2>4, PaymentsAssumption
<1>4. Counted(Bonus) = bill.bonusPaid
  BY <1>1, <1>3 DEF Counted, AddsUp
<1>5. ASSUME receipt # NoReceipt, receipt.paid, ~bill.changed
      PROVE  /\ receipt.came = MethodStats
             /\ receipt.total = bill.payable /\ receipt.debt = bill.debt
             /\ receipt.before = OpeningBalance /\ receipt.after = balance
  <2>1. receipt = Snapshot
    BY <1>5 DEF StillTrue
  <2>2. balance - bill.bonusEarned + bill.bonusPaid = OpeningBalance
    BY PaymentsAssumption, MostType DEF PaymentTypes, Amounts
  <2> QED BY <2>1, <2>2 DEF Snapshot
<1>6. Columns = Method \cup {Bonus}
  BY DEF Columns
<1> HIDE DEF came
<1> QED BY <1>2, <1>3, <1>4, <1>5, <1>6 DEF came
-----------------------------------------------------------------------------
(* Rounding, and sums over goods.                                          *)

LEMMA RoundDivFacts ==
    ASSUME NEW a \in Nat, NEW b \in Nat, b > 0
    PROVE  /\ RoundDiv(a, b) \in Nat
           /\ 2 * b * RoundDiv(a, b) <= 2 * a + b
           /\ 2 * a <= 2 * b * RoundDiv(a, b) + b
<1> DEFINE n == 2 * a + b
           d == 2 * b
           q == n \div d
<1>1. n \in Nat /\ d \in Nat /\ d > 0
  OBVIOUS
<1> HIDE DEF n, d
<1>2. q \in Nat /\ d * q <= n /\ n < d * q + d
  BY <1>1, SMTT(30)
<1>3. RoundDiv(a, b) = q
  BY DEF RoundDiv, n, d, q
<1> QED BY <1>2, <1>3 DEF n, d

LEMMA PositiveType == ASSUME NEW n \in Int PROVE Positive(n) \in Nat /\ n <= Positive(n)
BY DEF Positive

LEMMA GoodSum ==
    ASSUME NEW f, \A g \in Good : f[g] \in Nat
    PROVE  Sum(f) \in Nat /\ \A g \in Good : f[g] <= Sum(f)
<1>1. IsFiniteSet(Good)
  BY AdjustmentsAssumption
<1>2. \A g \in Good : f[g] \in Int
  OBVIOUS
<1> QED BY <1>1, <1>2, SumType, SumBoundsRow DEF Sum

LEMMA FinalPricesType ==
    ASSUME NEW units \in [Good -> Nat], NEW cut \in Nat
    PROVE  /\ FinalPrices(units, cut) \in [Good -> Nat]
           /\ \A g \in Good : FinalPrices(units, cut)[g] <= units[g] * RetailPrice[g]
<1> DEFINE retail == [g \in Good |-> units[g] * RetailPrice[g]]
           share(g) == IF Sum(retail) > 0 THEN RoundDiv(cut * retail[g], Sum(retail)) ELSE 0
<1>1. \A g \in Good : retail[g] \in Nat /\ retail[g] = units[g] * RetailPrice[g]
  BY AdjustmentsAssumption
<1>2. FinalPrices(units, cut) = [g \in Good |-> Positive(retail[g] - share(g))]
  BY DEF FinalPrices
<1> HIDE DEF retail
<1>3. Sum(retail) \in Nat
  BY <1>1, GoodSum
<1>4. ASSUME NEW g \in Good PROVE share(g) \in Nat
  <2>1. cut * retail[g] \in Nat
    BY <1>1
  <2> QED BY <1>3, <2>1, RoundDivFacts
<1> HIDE DEF share
<1> QED BY <1>1, <1>2, <1>4 DEF Positive

-----------------------------------------------------------------------------
(* The papers.                                                             *)

UnitColumn(ps, g) == [i \in DOMAIN ps |-> ps[i].units[g]]
ReturnsOf(ps, b) == {i \in LiveChildren(ps, b) : ps[i].type = "return"}
Out(ps, g) == SumOver(UnitColumn(ps, g), Purchases(ps))
In(ps, g) == SumOver(UnitColumn(ps, g), LiveOfType(ps, {"return"}))

GoodsOf(p) == {g \in Good : p.units[g] > 0}

\* A line has a price only if it has units, at most the retail price of what was
\* sold; what was paid for a sale is the sum of its lines but for their rounding.
Priced(p) ==
    /\ \A g \in Good : /\ p.units[g] = 0 => p.final[g] = 0
                       /\ p.type # "return" => p.final[g] <= p.units[g] * RetailPrice[g]
    /\ p.type = "sale" => /\ p.payable <= Sum(p.final) + Cardinality(GoodsOf(p))
                          /\ Sum(p.final) <= p.payable + Cardinality(GoodsOf(p))
    /\ p.type # "sale" => p.payable = Sum(p.final) /\ GoodsOf(p) # {}

\* Adjustments are of a sale, which is live as long as one of them is.
OfSale(ps, i) ==
    /\ ps[i].type = "sale" <=> ps[i].base = NoPaper
    /\ ps[i].base # NoPaper =>
          /\ ps[i].base \in DOMAIN ps /\ ps[ps[i].base].type = "sale"
          /\ Live(ps, i) => Live(ps, ps[i].base)

\* No more comes back than was sold.
Fits(ps, b) ==
    \A g \in Good : SumOver(UnitColumn(ps, g), ReturnsOf(ps, b)) <= ps[b].units[g]

Booked(ps) ==
    /\ ps \in Seq(PaperRecord)
    /\ \A i \in DOMAIN ps : Priced(ps[i]) /\ OfSale(ps, i) /\ Fits(ps, i)

\* An exchange and its return follow each other and share their fate.
Paired(ps, i) ==
    LET n == ps[i].group
    IN  /\ ps[i].type = "exchange" => n # NoPaper
        /\ ps[i].type = "sale" => n = NoPaper
        /\ n # NoPaper =>
              /\ i \in {n, n + 1} /\ {n, n + 1} \subseteq DOMAIN ps
              /\ ps[n].type = "return" /\ ps[n + 1].type = "exchange"
              /\ ps[n].group = n /\ ps[n + 1].group = n
              /\ ps[n].base = ps[n + 1].base
              /\ Live(ps, n) <=> Live(ps, n + 1)

AllPaired(ps) == \A i \in DOMAIN ps : Paired(ps, i)

\* The papers differ in their dates and statuses only, and the same ones are cancelled.
Alike(ps, qs) ==
    /\ DOMAIN qs = DOMAIN ps
    /\ \A i \in DOMAIN ps :
          /\ qs[i].type = ps[i].type /\ qs[i].base = ps[i].base /\ qs[i].group = ps[i].group
          /\ qs[i].units = ps[i].units /\ qs[i].final = ps[i].final
          /\ qs[i].payable = ps[i].payable
          /\ Live(qs, i) <=> Live(ps, i)

-----------------------------------------------------------------------------
LEMMA PaperFields ==
    ASSUME NEW ps \in Seq(PaperRecord), NEW i \in DOMAIN ps
    PROVE  /\ ps[i] \in PaperRecord
           /\ ps[i].type \in {"sale", "return", "exchange"} /\ ps[i].base \in Ids \cup {NoPaper}
           /\ ps[i].group \in Ids \cup {NoPaper} /\ ps[i].at \in Minutes
           /\ ps[i].units \in [Good -> Nat] /\ ps[i].final \in [Good -> Nat]
           /\ ps[i].payable \in Nat
           /\ i \in Nat /\ i > 0 /\ i <= Len(ps) /\ DOMAIN ps = 1 .. Len(ps) /\ Len(ps) \in Nat
<1>1. DOMAIN ps = 1 .. Len(ps) /\ Len(ps) \in Nat /\ ps[i] \in PaperRecord
  OBVIOUS
<1> QED BY <1>1 DEF PaperRecord

LEMMA DomainFinite ==
    ASSUME NEW ps \in Seq(PaperRecord)
    PROVE  /\ IsFiniteSet(DOMAIN ps)
           /\ \A T \in SUBSET DOMAIN ps : IsFiniteSet(T)
<1>1. DOMAIN ps = 1 .. Len(ps) /\ Len(ps) \in Nat
  OBVIOUS
<1>2. IsFiniteSet(1 .. Len(ps))
  BY <1>1, FS_Interval
<1> QED BY <1>1, <1>2, FS_Subset

\* Units over any of the papers.
LEMMA UnitSums ==
    ASSUME NEW ps \in Seq(PaperRecord), NEW g \in Good
    PROVE  /\ \A i \in DOMAIN ps : UnitColumn(ps, g)[i] \in Nat /\ UnitColumn(ps, g)[i] = ps[i].units[g]
           /\ \A T \in SUBSET DOMAIN ps : SumOver(UnitColumn(ps, g), T) \in Nat
<1>1. \A i \in DOMAIN ps : ps[i].units[g] \in Nat
  BY PaperFields
<1>2. \A i \in DOMAIN ps : UnitColumn(ps, g)[i] = ps[i].units[g]
  BY DEF UnitColumn
<1>3. ASSUME NEW T \in SUBSET DOMAIN ps PROVE SumOver(UnitColumn(ps, g), T) \in Nat
  <2>1. \A i \in T : UnitColumn(ps, g)[i] \in Int
    BY <1>1, <1>2
  <2> QED BY <2>1, DomainFinite, SumType
<1> QED BY <1>1, <1>2, <1>3

LEMMA PaperSets ==
    ASSUME NEW ps
    PROVE  /\ Purchases(ps) \subseteq DOMAIN ps
           /\ \A types : LiveOfType(ps, types) \subseteq DOMAIN ps
           /\ \A b : ReturnsOf(ps, b) \subseteq DOMAIN ps /\ LiveChildren(ps, b) \subseteq DOMAIN ps
BY DEF Purchases, LiveOfType, ReturnsOf, LiveChildren, Children

LEMMA AggregatesType ==
    ASSUME NEW ps \in Seq(PaperRecord)
    PROVE  Aggregates(ps) \in BooksRecord
<1> DEFINE amount == [i \in DOMAIN ps |-> ps[i].payable]
           dates == {ps[i].at : i \in Purchases(ps)}
<1>1. \A i \in DOMAIN ps : amount[i] \in Int
  BY PaperFields
<1>2. \A T \in SUBSET DOMAIN ps : SumOver(amount, T) \in Nat
  <2> SUFFICES ASSUME NEW T \in SUBSET DOMAIN ps PROVE SumOver(amount, T) \in Nat
    OBVIOUS
  <2> HIDE DEF amount
  <2> QED BY <1>1, DomainFinite, SumType
<1>3. /\ SumOver(amount, Purchases(ps)) \in Nat
      /\ SumOver(amount, LiveOfType(ps, {"return"})) \in Nat
      /\ Cardinality(Purchases(ps)) \in Nat
  <2> HIDE DEF amount
  <2> QED BY <1>2, PaperSets, DomainFinite, FS_CardinalityType
<1>4. 0 \in Minutes /\ Minutes \subseteq Nat /\ IsFiniteSet(Minutes)
  <2>1. LastMinute + Ahead \in Nat /\ LastMinute + Ahead \in Int /\ 0 \in Int
    BY AdjustmentsAssumption DEF Ahead
  <2> QED BY <2>1, FS_Interval DEF Minutes
<1>5. dates \subseteq Minutes
  BY PaperSets, PaperFields
<1>6. Purchases(ps) # {} => (CHOOSE t \in dates : \A i \in Purchases(ps) : ps[i].at <= t) \in Minutes
  <2> SUFFICES ASSUME Purchases(ps) # {}
               PROVE  \E t \in dates : \A i \in Purchases(ps) : ps[i].at <= t
    BY <1>5
  <2>1. dates # {} /\ dates \in SUBSET Nat /\ IsFiniteSet(dates)
    <3>1. dates # {}
      OBVIOUS
    <3> HIDE DEF dates
    <3> QED BY <3>1, <1>4, <1>5, FS_Subset
  <2>2. PICK t \in dates : \A u \in dates : u <= t
    <3> HIDE DEF dates
    <3> QED BY <2>1, GreatestExists
  <2> QED BY <2>2
<1>7. Positive(SumOver(amount, Purchases(ps)) - SumOver(amount, LiveOfType(ps, {"return"}))) \in Nat
  <2> HIDE DEF amount
  <2>1. SumOver(amount, Purchases(ps)) - SumOver(amount, LiveOfType(ps, {"return"})) \in Int
    BY <1>3
  <2> QED BY <2>1, PositiveType
<1> QED BY <1>3, <1>4, <1>6, <1>7 DEF Aggregates, BooksRecord

\* What is added up of the papers does not depend on their statuses.
LEMMA AlikeSums ==
    ASSUME NEW ps, NEW qs, Alike(ps, qs)
    PROVE  /\ Purchases(qs) = Purchases(ps)
           /\ \A types : LiveOfType(qs, types) = LiveOfType(ps, types)
           /\ \A b : LiveChildren(qs, b) = LiveChildren(ps, b) /\ ReturnsOf(qs, b) = ReturnsOf(ps, b)
           /\ \A g : UnitColumn(qs, g) = UnitColumn(ps, g)
           /\ \A g : Out(qs, g) = Out(ps, g) /\ In(qs, g) = In(ps, g)
<1>1. \A types : LiveOfType(qs, types) = LiveOfType(ps, types)
  BY DEF LiveOfType, Alike
<1>2. Purchases(qs) = Purchases(ps)
  BY <1>1 DEF Purchases
<1>3. \A b : LiveChildren(qs, b) = LiveChildren(ps, b) /\ ReturnsOf(qs, b) = ReturnsOf(ps, b)
  BY DEF LiveChildren, Children, ReturnsOf, Alike
<1>4. \A g : UnitColumn(qs, g) = UnitColumn(ps, g)
  BY DEF UnitColumn, Alike
<1> QED BY <1>1, <1>2, <1>3, <1>4 DEF Out, In

LEMMA AlikeBooked ==
    ASSUME NEW ps, NEW qs \in Seq(PaperRecord), Alike(ps, qs), Booked(ps)
    PROVE  Booked(qs)
<1> SUFFICES ASSUME NEW i \in DOMAIN qs PROVE Priced(qs[i]) /\ OfSale(qs, i) /\ Fits(qs, i)
  BY DEF Booked
<1>1. i \in DOMAIN ps /\ Priced(ps[i]) /\ OfSale(ps, i) /\ Fits(ps, i)
  BY DEF Booked, Alike
<1>2. Priced(qs[i])
  BY <1>1 DEF Priced, GoodsOf, Alike
<1>3. OfSale(qs, i)
  BY <1>1 DEF OfSale, Alike
<1>4. Fits(qs, i)
  BY <1>1, AlikeSums DEF Fits, Alike
<1> QED BY <1>2, <1>3, <1>4

LEMMA AlikePaired ==
    ASSUME NEW ps, NEW qs, Alike(ps, qs), AllPaired(ps)
    PROVE  AllPaired(qs)
<1> SUFFICES ASSUME NEW i \in DOMAIN qs PROVE Paired(qs, i)
  BY DEF AllPaired
<1>1. i \in DOMAIN ps /\ Paired(ps, i)
  BY DEF AllPaired, Alike
<1> QED BY <1>1 DEF Paired, Alike

\* The status of a live sale is set anew; it stays live.
LEMMA RefreshedAlike ==
    ASSUME NEW ps \in Seq(PaperRecord), NEW b \in DOMAIN ps, Live(ps, b)
    PROVE  BaseRefreshed(ps, b) \in Seq(PaperRecord) /\ Alike(ps, BaseRefreshed(ps, b))
           /\ Len(BaseRefreshed(ps, b)) = Len(ps)
           /\ \A i \in DOMAIN ps : BaseRefreshed(ps, b)[i].at = ps[i].at
<1> DEFINE s == StatusOf(ps, b)
           Statuses == {"paid", "returned", "partially_returned", "exchanged", "partially_exchanged"}
<1>1. s \in Statuses
  <2>1. ps[b].status \in Statuses
    BY PaperFields DEF Live, PaperRecord
  <2> QED BY <2>1 DEF StatusOf
<1> HIDE DEF s
<1>2. BaseRefreshed(ps, b) = [ps EXCEPT ![b].status = s]
  BY DEF BaseRefreshed, s
<1>3. PICK p : p = [ps[b] EXCEPT !.status = s]
  OBVIOUS
<1>4. ps[b] \in PaperRecord
  BY PaperFields
<1>5. /\ p \in PaperRecord /\ p.status = s
      /\ p.type = ps[b].type /\ p.base = ps[b].base /\ p.group = ps[b].group
      /\ p.at = ps[b].at /\ p.units = ps[b].units /\ p.final = ps[b].final
      /\ p.payable = ps[b].payable
  BY <1>1, <1>3, <1>4 DEF PaperRecord
<1>6. BaseRefreshed(ps, b) = [ps EXCEPT ![b] = p]
  BY <1>2, <1>3
<1> HIDE DEF BaseRefreshed
<1>7. /\ BaseRefreshed(ps, b) \in Seq(PaperRecord) /\ DOMAIN BaseRefreshed(ps, b) = DOMAIN ps
      /\ Len(BaseRefreshed(ps, b)) = Len(ps)
      /\ \A i \in DOMAIN ps : BaseRefreshed(ps, b)[i] = IF i = b THEN p ELSE ps[i]
  BY <1>5, <1>6
<1> QED BY <1>1, <1>5, <1>7 DEF Alike, Live

\* So is a paper with another date.
RedatedIn(ps, i, t) == [ps EXCEPT ![i].at = t]

LEMMA RedatedAlike ==
    ASSUME NEW ps \in Seq(PaperRecord), NEW i \in DOMAIN ps, NEW t \in Minutes
    PROVE  /\ RedatedIn(ps, i, t) \in Seq(PaperRecord) /\ Alike(ps, RedatedIn(ps, i, t))
           /\ Len(RedatedIn(ps, i, t)) = Len(ps)
           /\ RedatedIn(ps, i, t)[i].at = t
           /\ \A j \in DOMAIN ps \ {i} : RedatedIn(ps, i, t)[j].at = ps[j].at
<1> DEFINE qs == RedatedIn(ps, i, t)
<1>1. PICK p : p = [ps[i] EXCEPT !.at = t]
  OBVIOUS
<1>2. ps[i] \in PaperRecord
  BY PaperFields
<1>3. /\ p \in PaperRecord /\ p.status = ps[i].status /\ p.at = t
      /\ p.type = ps[i].type /\ p.base = ps[i].base /\ p.group = ps[i].group
      /\ p.units = ps[i].units /\ p.final = ps[i].final
      /\ p.payable = ps[i].payable
  BY <1>1, <1>2 DEF PaperRecord
<1>4. qs = [ps EXCEPT ![i] = p]
  BY <1>1 DEF RedatedIn
<1> HIDE DEF qs
<1>5. /\ qs \in Seq(PaperRecord) /\ DOMAIN qs = DOMAIN ps /\ Len(qs) = Len(ps)
      /\ \A j \in DOMAIN ps : qs[j] = IF j = i THEN p ELSE ps[j]
  BY <1>3, <1>4
<1>6. Alike(ps, qs) /\ qs[i].at = t /\ \A j \in DOMAIN ps \ {i} : qs[j].at = ps[j].at
  BY <1>3, <1>5 DEF Alike, Live
<1> QED BY <1>5, <1>6 DEF qs

-----------------------------------------------------------------------------
(* What a sale is worth.                                                   *)

LEMMA FactorIn ==
    ASSUME NEW a \in Nat, NEW b \in Nat, NEW r \in Nat, a <= b
    PROVE  r * a <= r * b
OBVIOUS

LEMMA NextFactor ==
    ASSUME NEW a \in Nat, NEW r \in Nat
    PROVE  r * (a + 1) = r * a + r
OBVIOUS

LEMMA FactorOut ==
    ASSUME NEW x \in Nat, NEW y \in Nat, NEW r \in Nat, r > 0, x * r <= y * r
    PROVE  x <= y
OBVIOUS

\* The share a line gives up of a discount below the whole price: none without a
\* price, at most its price, and the exact share but for half a unit.
LEMMA ShareBounds ==
    ASSUME NEW d \in Nat, NEW x \in Nat, NEW r \in Nat, r > 0, x <= r
    PROVE  LET share == RoundDiv(d * x, r)
           IN  /\ share \in Nat
               /\ share * (2 * r) <= x * (2 * d) + r
               /\ x * (2 * d) <= share * (2 * r) + r
               /\ x = 0 => share = 0
               /\ d < r => share <= x
               /\ d >= r => x <= share
<1> DEFINE share == RoundDiv(d * x, r)
<1>1. d * x \in Nat
  OBVIOUS
<1>2. /\ share \in Nat /\ 2 * r * share <= 2 * (d * x) + r
      /\ 2 * (d * x) <= 2 * r * share + r
  BY <1>1, RoundDivFacts
<1> HIDE DEF share
<1>3. share * (2 * r) <= x * (2 * d) + r /\ x * (2 * d) <= share * (2 * r) + r
  BY <1>2
<1>4. ASSUME x = 0 PROVE share = 0
  <2>1. 2 * r * share <= r
    BY <1>2, <1>4
  <2> QED BY <1>2, <2>1
<1>5. ASSUME d < r, x > 0 PROVE share <= x
  <2>1. d + 1 <= r
    BY <1>5
  <2>2. d * x + x <= r * x
    <3>1. (d + 1) * x <= r * x
      BY <2>1, <1>5
    <3> QED BY <3>1
  <2>3. SUFFICES ASSUME share >= x + 1 PROVE FALSE
    BY <1>2
  <2>4. r * share >= r * x + r
    <3>1. r * share >= r * (x + 1)
      BY <2>3, <1>2
    <3> QED BY <3>1
  <2>5. r * x \in Nat /\ d * x \in Nat /\ r * share \in Nat
    BY <1>2
  <2>6. 2 * (r * share) <= 2 * (d * x) + r
    BY <1>2
  <2> QED BY <2>2, <2>4, <2>5, <2>6, <1>5
<1>6. ASSUME d >= r PROVE x <= share
  <2>1. d * x >= r * x
    BY <1>6
  <2>2. SUFFICES ASSUME share + 1 <= x PROVE FALSE
    BY <1>2
  <2>3. r * x >= r * share + r
    <3>1. r * (share + 1) <= r * x
      <4>1. share + 1 \in Nat
        BY <1>2
      <4> QED BY <2>2, <4>1, FactorIn
    <3> QED BY <1>2, <3>1, NextFactor
  <2>4. r * x \in Nat /\ d * x \in Nat /\ r * share \in Nat
    BY <1>2
  <2>5. 2 * (d * x) <= 2 * (r * share) + r
    BY <1>2
  <2> QED BY <2>1, <2>3, <2>4, <2>5
<1>7. d < r => share <= x
  BY <1>2, <1>4, <1>5
<1> QED BY <1>2, <1>3, <1>4, <1>6, <1>7 DEF share

\* The lines of a sale add up to its price but for their rounding.
LEMMA SaleAddsUp ==
    ASSUME NEW units \in [Good -> Nat], NEW d \in Nat
    PROVE  LET total == Sum([g \in Good |-> units[g] * RetailPrice[g]])
               final == Sum(FinalPrices(units, d))
               count == Cardinality({g \in Good : units[g] > 0})
           IN  /\ Positive(total - d) <= final + count
               /\ final <= Positive(total - d) + count
               /\ final \in Nat /\ count \in Nat
<1> DEFINE retail == [g \in Good |-> units[g] * RetailPrice[g]]
           r == Sum(retail)
           share == [g \in Good |-> RoundDiv(d * retail[g], r)]
           prices == FinalPrices(units, d)
           L == {g \in Good : units[g] > 0}
<1>1. /\ \A g \in Good : units[g] * RetailPrice[g] \in Nat
      /\ \A g \in Good \ L : units[g] * RetailPrice[g] = 0
      /\ \A g \in Good : units[g] * RetailPrice[g] = 0 => units[g] = 0
  BY AdjustmentsAssumption
<1>2. /\ \A g \in Good : retail[g] = units[g] * RetailPrice[g]
      /\ \A g \in Good : retail[g] \in Nat
      /\ \A g \in Good \ L : retail[g] = 0
  BY <1>1
<1>3. \A g \in Good : prices[g] =
         Positive(retail[g] - IF r > 0 THEN RoundDiv(d * retail[g], r) ELSE 0)
  BY DEF FinalPrices
<1>4. IsFiniteSet(Good) /\ IsFiniteSet(L) /\ Cardinality(L) \in Nat
  <2>1. IsFiniteSet(Good)
    BY AdjustmentsAssumption
  <2> QED BY <2>1, FS_Subset, FS_CardinalityType
<1>5. \A g \in Good : prices[g] \in Nat
  BY FinalPricesType
<1> HIDE DEF retail, prices, L
<1>6. r \in Nat /\ \A g \in Good : retail[g] <= r
  BY <1>2, GoodSum
<1>7. Sum(prices) \in Nat
  BY <1>5, GoodSum
<1>8. Positive(r - d) = IF r > d THEN r - d ELSE 0
  BY <1>6 DEF Positive
<1>9. CASE r = 0
  <2>1. \A g \in Good : prices[g] = 0
    BY <1>2, <1>3, <1>6, <1>9 DEF Positive
  <2>2. Sum(prices) = 0
    BY <2>1, SumNothing DEF Sum
  <2> QED BY <1>4, <1>8, <1>9, <2>2 DEF L, retail, prices
<1>10. CASE r > 0
  <2>1. ASSUME NEW g \in Good
        PROVE  /\ share[g] \in Nat
               /\ share[g] * (2 * r) <= retail[g] * (2 * d) + r
               /\ retail[g] * (2 * d) <= share[g] * (2 * r) + r
               /\ retail[g] = 0 => share[g] = 0
               /\ d < r => share[g] <= retail[g]
               /\ d >= r => retail[g] <= share[g]
    <3>1. retail[g] \in Nat /\ retail[g] <= r /\ share[g] = RoundDiv(d * retail[g], r)
      BY <1>2, <1>6
    <3> HIDE DEF r, share
    <3> QED BY <1>6, <1>10, <3>1, ShareBounds
  <2>2. \A g \in Good : prices[g] = Positive(retail[g] - share[g])
    BY <1>3, <1>10
  <2> HIDE DEF share
  <2>3. CASE d >= r
    <3>1. \A g \in Good : prices[g] = 0
      BY <1>2, <2>1, <2>2, <2>3 DEF Positive
    <3>2. Sum(prices) = 0
      BY <3>1, SumNothing DEF Sum
    <3> QED BY <1>4, <1>6, <1>8, <2>3, <3>2 DEF L, retail, prices
  <2>4. CASE d < r
    <3>1. \A g \in Good : retail[g] = prices[g] + share[g]
      BY <1>2, <2>1, <2>2, <2>4 DEF Positive
    <3>2. r = Sum(prices) + Sum(share)
      BY <1>4, <1>2, <1>5, <2>1, <3>1, SumAdd DEF Sum
    <3>3. Sum(share) \in Nat
      BY <2>1, GoodSum
    <3> DEFINE A == [g \in Good |-> share[g] * (2 * r)]
               B == [g \in Good |-> retail[g] * (2 * d)]
               O == [g \in Good |-> IF g \in L THEN r ELSE 0]
               AO == [g \in Good |-> A[g] + O[g]]
               BO == [g \in Good |-> B[g] + O[g]]
    <3>4. \A g \in Good : A[g] \in Nat /\ B[g] \in Nat /\ O[g] \in Nat
      <4> SUFFICES ASSUME NEW g \in Good PROVE A[g] \in Nat /\ B[g] \in Nat /\ O[g] \in Nat
        OBVIOUS
      <4>1. A[g] = share[g] * (2 * r) /\ B[g] = retail[g] * (2 * d)
              /\ O[g] = IF g \in L THEN r ELSE 0
        OBVIOUS
      <4>2. share[g] \in Nat /\ retail[g] \in Nat
        BY <1>2, <2>1
      <4> HIDE DEF A, B, O, r
      <4>3. share[g] * (2 * r) \in Nat /\ retail[g] * (2 * d) \in Nat
        BY <1>6, <4>2
      <4> QED BY <1>6, <4>1, <4>3
    <3>5. \A g \in Good : A[g] <= BO[g] /\ B[g] <= AO[g]
      <4> SUFFICES ASSUME NEW g \in Good PROVE A[g] <= BO[g] /\ B[g] <= AO[g]
        OBVIOUS
      <4>1. A[g] \in Nat /\ B[g] \in Nat /\ O[g] = (IF g \in L THEN r ELSE 0)
        BY <3>4
      <4>2. /\ A[g] <= B[g] + r /\ B[g] <= A[g] + r
        BY <2>1
      <4>3. g \notin L => A[g] = 0 /\ B[g] = 0
        BY <1>2, <1>6, <2>1
      <4>4. BO[g] = B[g] + O[g] /\ AO[g] = A[g] + O[g]
        OBVIOUS
      <4> HIDE DEF A, B, O, AO, BO
      <4> QED BY <1>6, <4>1, <4>2, <4>3, <4>4
    <3>6. Sum(A) = Sum(share) * (2 * r) /\ Sum(B) = r * (2 * d)
      <4>1. \A g \in Good : share[g] \in Nat /\ A[g] = share[g] * (2 * r)
        BY <2>1
      <4>2. \A g \in Good : retail[g] \in Nat /\ B[g] = retail[g] * (2 * d)
        BY <1>2
      <4>3. 2 * r \in Nat /\ 2 * d \in Nat
        BY <1>6
      <4> HIDE DEF A, B
      <4> QED BY <1>4, <4>1, <4>2, <4>3, SumScale DEF Sum
    <3>7. Sum(O) = Cardinality(L) * r
      <4>1. \A g \in L : O[g] = r
        BY DEF L
      <4>2. L \in SUBSET Good /\ \A g \in Good \ L : O[g] = 0
        BY DEF L
      <4> HIDE DEF O
      <4>3. SumOver(O, Good) = SumOver(O, L)
        BY <4>2, SumZeroRows
      <4>4. SumOver(O, L) = Cardinality(L) * r
        BY <1>4, <1>6, <4>1, SumConstant
      <4> QED BY <4>3, <4>4 DEF Sum
    <3>8. /\ \A g \in Good : A[g] \in Nat /\ B[g] \in Nat /\ O[g] \in Nat /\ AO[g] \in Nat
                /\ BO[g] \in Nat
          /\ \A g \in Good : AO[g] = A[g] + O[g] /\ BO[g] = B[g] + O[g]
      <4>1. \A g \in Good : AO[g] = A[g] + O[g] /\ BO[g] = B[g] + O[g]
        OBVIOUS
      <4> HIDE DEF A, B, O, AO, BO
      <4> QED BY <3>4, <4>1
    <3> HIDE DEF A, B, O, AO, BO
    <3>9. /\ Sum(AO) = Sum(A) + Sum(O) /\ Sum(BO) = Sum(B) + Sum(O)
          /\ Sum(A) <= Sum(BO) /\ Sum(B) <= Sum(AO)
      <4>1. Sum(AO) = Sum(A) + Sum(O)
        BY <1>4, <3>8, SumAdd DEF Sum
      <4>2. Sum(BO) = Sum(B) + Sum(O)
        BY <1>4, <3>8, SumAdd DEF Sum
      <4>3. Sum(A) <= Sum(BO)
        BY <1>4, <3>5, <3>8, SumMonotone DEF Sum
      <4>4. Sum(B) <= Sum(AO)
        BY <1>4, <3>5, <3>8, SumMonotone DEF Sum
      <4> QED BY <4>1, <4>2, <4>3, <4>4
    <3> HIDE DEF r
    <3> DEFINE s == Sum(share)
               n == Cardinality(L)
    <3>10. s * (2 * r) <= r * (2 * d) + n * r /\ r * (2 * d) <= s * (2 * r) + n * r
      BY <3>6, <3>7, <3>9
    <3> HIDE DEF s, n
    <3>11. s \in Nat /\ n \in Nat
      BY <1>4, <3>3 DEF s, n
    <3>12. (2 * s) * r <= (2 * d + n) * r /\ (2 * d) * r <= (2 * s + n) * r
      BY <1>6, <3>10, <3>11
    <3>13. 2 * s <= 2 * d + n /\ 2 * d <= 2 * s + n
      <4>1. 2 * s \in Nat /\ 2 * d + n \in Nat /\ 2 * d \in Nat /\ 2 * s + n \in Nat
        BY <3>11
      <4> QED BY <1>6, <1>10, <3>12, <4>1, FactorOut
    <3>14. r = Sum(prices) + s
      BY <3>2 DEF s, r
    <3>15. /\ r - d <= Sum(prices) + n
           /\ Sum(prices) <= (r - d) + n
      BY <1>6, <1>7, <3>11, <3>13, <3>14
    <3>16. Positive(r - d) = r - d
      BY <1>8, <2>4
    <3> QED BY <1>4, <1>7, <3>15, <3>16 DEF n, r, L, retail, prices
  <2> QED BY <1>6, <2>3, <2>4
<1> QED BY <1>6, <1>9, <1>10

-----------------------------------------------------------------------------
(* A paper is added.                                                       *)

Added(ps, p, n, qs) ==
    /\ n \in Nat /\ n # 0 /\ n \notin DOMAIN ps /\ DOMAIN qs = DOMAIN ps \cup {n}
    /\ qs \in Seq(PaperRecord) /\ Len(qs) = n
    /\ qs[n] = p /\ \A i \in DOMAIN ps : qs[i] = ps[i]

LEMMA OneMore ==
    ASSUME NEW ps \in Seq(PaperRecord), NEW p \in PaperRecord
    PROVE  Added(ps, p, Len(ps) + 1, Append(ps, p))
BY DEF Added

\* What is added up of the papers, with one more.
LEMMA AddedSets ==
    ASSUME NEW ps, NEW p, p.status # "cancelled", NEW n, NEW qs, Added(ps, p, n, qs)
    PROVE  /\ Live(qs, n) /\ \A i \in DOMAIN ps : Live(qs, i) <=> Live(ps, i)
           /\ \A types : LiveOfType(qs, types) =
                  LiveOfType(ps, types) \cup {i \in {n} : p.type \in types}
           /\ \A b : LiveChildren(qs, b) = LiveChildren(ps, b) \cup {i \in {n} : p.base = b}
           /\ \A b : ReturnsOf(qs, b) =
                  ReturnsOf(ps, b) \cup {i \in {n} : p.base = b /\ p.type = "return"}
<1>1. Live(qs, n) /\ \A i \in DOMAIN ps : Live(qs, i) <=> Live(ps, i)
  BY DEF Live, Added
<1>2. \A types : LiveOfType(qs, types) =
         LiveOfType(ps, types) \cup {i \in {n} : p.type \in types}
  BY <1>1 DEF LiveOfType, Added
<1>3. \A b : LiveChildren(qs, b) = LiveChildren(ps, b) \cup {i \in {n} : p.base = b}
  BY <1>1 DEF LiveChildren, Children, Added
<1>4. \A b : ReturnsOf(qs, b) =
         ReturnsOf(ps, b) \cup {i \in {n} : p.base = b /\ p.type = "return"}
  BY <1>3, PaperSets DEF ReturnsOf, Added
<1> QED BY <1>1, <1>2, <1>3, <1>4

LEMMA AddedColumns ==
    ASSUME NEW ps \in Seq(PaperRecord), NEW p, NEW n, NEW qs, Added(ps, p, n, qs),
           NEW g \in Good, NEW T \in SUBSET DOMAIN ps
    PROVE  SumOver(UnitColumn(qs, g), T) = SumOver(UnitColumn(ps, g), T)
<1>1. \A i \in T : UnitColumn(qs, g)[i] = UnitColumn(ps, g)[i]
  BY DEF UnitColumn, Added
<1> QED BY <1>1, SumCongruence

LEMMA AddedRow ==
    ASSUME NEW ps \in Seq(PaperRecord), NEW p, NEW n, NEW qs, Added(ps, p, n, qs),
           NEW g \in Good, NEW T \in SUBSET DOMAIN ps, NEW U, U = T \cup {n}
    PROVE  SumOver(UnitColumn(qs, g), U) = SumOver(UnitColumn(ps, g), T) + p.units[g]
<1>1. UnitColumn(qs, g)[n] = p.units[g]
  BY DEF UnitColumn, Added
<1>2. SumOver(UnitColumn(qs, g), T) = SumOver(UnitColumn(ps, g), T)
  BY AddedColumns
<1>3. n \in T \cup {n} /\ (T \cup {n}) \ {n} = T /\ T \cup {n} \in SUBSET DOMAIN qs
      /\ qs \in Seq(PaperRecord)
  BY DEF Added
<1>4. IsFiniteSet(T \cup {n}) /\ \A i \in T \cup {n} : UnitColumn(qs, g)[i] \in Nat
  BY <1>3, DomainFinite, UnitSums
<1>5. SumOver(UnitColumn(qs, g), T \cup {n}) =
         SumOver(UnitColumn(qs, g), (T \cup {n}) \ {n}) + UnitColumn(qs, g)[n]
  BY <1>3, <1>4, SumSplit
<1> QED BY <1>1, <1>2, <1>3, <1>5

\* What went out and what came back.
LEMMA OneMoreSums ==
    ASSUME NEW ps \in Seq(PaperRecord), NEW p \in PaperRecord, p.status # "cancelled",
           NEW g \in Good
    PROVE  /\ Out(Append(ps, p), g) = Out(ps, g) + IF p.type = "return" THEN 0 ELSE p.units[g]
           /\ In(Append(ps, p), g) = In(ps, g) + IF p.type = "return" THEN p.units[g] ELSE 0
<1> DEFINE n == Len(ps) + 1
           qs == Append(ps, p)
<1>1. p.type \in {"sale", "return", "exchange"} /\ p.units[g] \in Nat
  BY DEF PaperRecord
<1>0. Added(ps, p, n, qs)
  BY OneMore
<1> HIDE DEF n, qs
<1>2. \A types : LiveOfType(qs, types) =
         LiveOfType(ps, types) \cup {i \in {n} : p.type \in types}
  BY <1>0, AddedSets
<1>3. \A types : LiveOfType(ps, types) \in SUBSET DOMAIN ps
  BY PaperSets
<1>4. \A types :
        SumOver(UnitColumn(qs, g), LiveOfType(qs, types)) =
            SumOver(UnitColumn(ps, g), LiveOfType(ps, types))
                + IF p.type \in types THEN p.units[g] ELSE 0
  <2> SUFFICES ASSUME NEW types
               PROVE  SumOver(UnitColumn(qs, g), LiveOfType(qs, types)) =
                          SumOver(UnitColumn(ps, g), LiveOfType(ps, types))
                              + IF p.type \in types THEN p.units[g] ELSE 0
    OBVIOUS
  <2>1. CASE p.type \in types
    <3>1. LiveOfType(qs, types) = LiveOfType(ps, types) \cup {n}
      BY <1>2, <2>1
    <3>2. LiveOfType(ps, types) \in SUBSET DOMAIN ps
      BY <1>3
    <3>3. SumOver(UnitColumn(qs, g), LiveOfType(ps, types) \cup {n}) =
              SumOver(UnitColumn(ps, g), LiveOfType(ps, types)) + p.units[g]
      BY <1>0, <3>2, AddedRow
    <3> QED BY <2>1, <3>1, <3>3
  <2>2. CASE p.type \notin types
    <3>1. LiveOfType(qs, types) = LiveOfType(ps, types)
      BY <1>2, <2>2
    <3>2. SumOver(UnitColumn(qs, g), LiveOfType(ps, types)) =
              SumOver(UnitColumn(ps, g), LiveOfType(ps, types))
      <4>1. LiveOfType(ps, types) \in SUBSET DOMAIN ps
        BY <1>3
      <4> QED BY <1>0, <4>1, AddedColumns
    <3>3. SumOver(UnitColumn(ps, g), LiveOfType(ps, types)) \in Nat
      BY <1>3, UnitSums
    <3> QED BY <2>2, <3>1, <3>2, <3>3
  <2> QED BY <2>1, <2>2
<1>5. Out(qs, g) = Out(ps, g) + IF p.type \in {"sale", "exchange"} THEN p.units[g] ELSE 0
  BY <1>4 DEF Out, Purchases
<1>6. In(qs, g) = In(ps, g) + IF p.type \in {"return"} THEN p.units[g] ELSE 0
  BY <1>4 DEF In
<1>7. CASE p.type = "return"
  BY <1>5, <1>6, <1>7 DEF qs
<1>8. CASE p.type # "return"
  BY <1>1, <1>5, <1>6, <1>8 DEF qs
<1> QED BY <1>7, <1>8

\* A paper of which no more comes back than is left keeps the papers as they must be.
LEMMA OneMoreBooked ==
    ASSUME NEW ps, Booked(ps), NEW p \in PaperRecord, p.status # "cancelled", Priced(p),
           p.type = "sale" <=> p.base = NoPaper,
           p.base # NoPaper =>
               p.base \in DOMAIN ps /\ ps[p.base].type = "sale" /\ Live(ps, p.base),
           p.type = "return" =>
               \A g \in Good : p.units[g] <= ps[p.base].units[g]
                                  - SumOver(UnitColumn(ps, g), ReturnsOf(ps, p.base))
    PROVE  Booked(Append(ps, p))
<1> DEFINE n == Len(ps) + 1
           qs == Append(ps, p)
<1>1. ps \in Seq(PaperRecord) /\ \A i \in DOMAIN ps : Priced(ps[i]) /\ OfSale(ps, i) /\ Fits(ps, i)
  BY DEF Booked
<1>0. Added(ps, p, n, qs)
  BY <1>1, OneMore
<1> HIDE DEF n, qs
<1>2. /\ n \in Nat /\ n \notin DOMAIN ps /\ DOMAIN qs = DOMAIN ps \cup {n}
      /\ qs \in Seq(PaperRecord)
      /\ qs[n] = p /\ \A i \in DOMAIN ps : qs[i] = ps[i]
  BY <1>0 DEF Added
<1>3. \A b : ReturnsOf(qs, b) =
         ReturnsOf(ps, b) \cup {i \in {n} : p.base = b /\ p.type = "return"}
  BY <1>0, AddedSets
<1>4. ASSUME NEW g \in Good, NEW T \in SUBSET DOMAIN ps
      PROVE  /\ SumOver(UnitColumn(qs, g), T) = SumOver(UnitColumn(ps, g), T)
             /\ SumOver(UnitColumn(qs, g), T \cup {n}) =
                    SumOver(UnitColumn(ps, g), T) + p.units[g]
  <2>1. SumOver(UnitColumn(qs, g), T) = SumOver(UnitColumn(ps, g), T)
    BY <1>0, <1>1, AddedColumns
  <2>2. SumOver(UnitColumn(qs, g), T \cup {n}) = SumOver(UnitColumn(ps, g), T) + p.units[g]
    BY <1>0, <1>1, AddedRow
  <2> QED BY <2>1, <2>2
<1>6. \A b : ReturnsOf(ps, b) \in SUBSET DOMAIN ps
  BY PaperSets
<1>7. 0 \notin DOMAIN ps /\ n # 0
  BY <1>0, <1>1 DEF Added
<1>8. p.units \in [Good -> Nat]
  BY DEF PaperRecord
<1>9. Live(qs, n) /\ \A i \in DOMAIN ps : Live(qs, i) <=> Live(ps, i)
  BY <1>0, AddedSets
<1>10. ASSUME NEW i \in DOMAIN qs PROVE Priced(qs[i]) /\ OfSale(qs, i)
  BY <1>1, <1>2, <1>9 DEF OfSale
<1>11. ASSUME NEW i \in DOMAIN ps PROVE Fits(qs, i)
  <2> SUFFICES ASSUME NEW g \in Good
               PROVE  SumOver(UnitColumn(qs, g), ReturnsOf(qs, i)) <= qs[i].units[g]
    BY DEF Fits
  <2>1. SumOver(UnitColumn(ps, g), ReturnsOf(ps, i)) <= ps[i].units[g] /\ qs[i] = ps[i]
    BY <1>1, <1>2 DEF Fits
  <2>2. CASE p.base = i /\ p.type = "return"
    <3>1. ReturnsOf(qs, i) = ReturnsOf(ps, i) \cup {n}
      BY <1>3, <2>2
    <3>2. SumOver(UnitColumn(qs, g), ReturnsOf(qs, i)) =
              SumOver(UnitColumn(ps, g), ReturnsOf(ps, i)) + p.units[g]
      BY <1>4, <1>6, <3>1
    <3>3. SumOver(UnitColumn(ps, g), ReturnsOf(ps, i)) \in Nat /\ p.units[g] \in Nat
          /\ ps[i].units[g] \in Nat
      BY <1>1, <1>6, <1>8, UnitSums, PaperFields
    <3>4. p.units[g] <= ps[i].units[g] - SumOver(UnitColumn(ps, g), ReturnsOf(ps, i))
      BY <2>2
    <3> QED BY <2>1, <3>2, <3>3, <3>4
  <2>3. CASE ~(p.base = i /\ p.type = "return")
    <3>1. ReturnsOf(qs, i) = ReturnsOf(ps, i)
      BY <1>3, <2>3
    <3> QED BY <1>4, <1>6, <2>1, <3>1
  <2> QED BY <2>2, <2>3
<1>12. Fits(qs, n)
  <2>1. \A i \in DOMAIN ps : ps[i].base # n
    <3>1. n # NoPaper
      BY <1>7 DEF NoPaper
    <3>2. \A i \in DOMAIN ps : ps[i].base # NoPaper => ps[i].base \in DOMAIN ps
      BY <1>1 DEF OfSale
    <3> QED BY <1>2, <3>1, <3>2
  <2>2. p.base # n
    BY <1>2, <1>7 DEF NoPaper
  <2>3. ReturnsOf(qs, n) = {}
    BY <1>3, <2>1, <2>2 DEF ReturnsOf, LiveChildren, Children
  <2>4. \A g \in Good : SumOver(UnitColumn(qs, g), ReturnsOf(qs, n)) = 0
    BY <2>3, SumEmpty
  <2> QED BY <1>2, <1>8, <2>4 DEF Fits
<1>13. Booked(qs)
  BY <1>2, <1>10, <1>11, <1>12 DEF Booked
<1> QED BY <1>13 DEF qs

\* A paper of no group.
LEMMA OneMorePaired ==
    ASSUME NEW ps \in Seq(PaperRecord), AllPaired(ps), NEW p \in PaperRecord,
           p.status # "cancelled", p.group = NoPaper, p.type # "exchange"
    PROVE  AllPaired(Append(ps, p))
<1> DEFINE n == Len(ps) + 1
           qs == Append(ps, p)
<1>1. /\ n \notin DOMAIN ps /\ DOMAIN qs = DOMAIN ps \cup {n}
      /\ qs[n] = p /\ \A i \in DOMAIN ps : qs[i] = ps[i]
  BY OneMore DEF Added
<1>2. \A i \in DOMAIN ps : Live(qs, i) <=> Live(ps, i)
  BY <1>1 DEF Live
<1> HIDE DEF n, qs
<1>3. ASSUME NEW i \in DOMAIN ps PROVE Paired(qs, i)
  <2>1. Paired(ps, i)
    BY DEF AllPaired
  <2> QED BY <1>1, <1>2, <2>1 DEF Paired
<1>4. Paired(qs, n)
  BY <1>1 DEF Paired
<1>5. AllPaired(qs)
  BY <1>1, <1>3, <1>4 DEF AllPaired
<1> QED BY <1>5 DEF qs

\* A return and an exchange of one group.
LEMMA TwoMorePaired ==
    ASSUME NEW ps \in Seq(PaperRecord), AllPaired(ps),
           NEW p \in PaperRecord, NEW q \in PaperRecord,
           p.status # "cancelled", q.status # "cancelled",
           p.type = "return", q.type = "exchange", p.base = q.base,
           p.group = Len(ps) + 1, q.group = Len(ps) + 1
    PROVE  AllPaired(Append(Append(ps, p), q))
<1> DEFINE n == Len(ps) + 1
           qs == Append(ps, p)
           rs == Append(qs, q)
<1>1. /\ n \in Nat /\ DOMAIN qs = DOMAIN ps \cup {n} /\ qs \in Seq(PaperRecord)
      /\ qs[n] = p /\ \A i \in DOMAIN ps : qs[i] = ps[i]
      /\ n \notin DOMAIN ps /\ Len(qs) = n /\ n # 0
  BY OneMore DEF Added
<1> HIDE DEF n, qs
<1>2. /\ DOMAIN rs = DOMAIN qs \cup {n + 1} /\ rs[n + 1] = q /\ n + 1 \notin DOMAIN qs
      /\ \A i \in DOMAIN qs : rs[i] = qs[i]
  BY <1>1, OneMore DEF Added
<1> HIDE DEF rs
<1>3. /\ DOMAIN rs = DOMAIN ps \cup {n, n + 1} /\ rs[n] = p /\ rs[n + 1] = q
      /\ \A i \in DOMAIN ps : rs[i] = ps[i]
      /\ p.group = n /\ q.group = n
  BY <1>1, <1>2 DEF n
<1>4. Live(rs, n) /\ Live(rs, n + 1) /\ \A i \in DOMAIN ps : Live(rs, i) <=> Live(ps, i)
  BY <1>3 DEF Live
<1>5. ASSUME NEW i \in DOMAIN ps PROVE Paired(rs, i)
  <2>1. Paired(ps, i)
    BY DEF AllPaired
  <2> QED BY <1>3, <1>4, <2>1 DEF Paired
<1>6. ASSUME NEW i \in {n, n + 1} PROVE Paired(rs, i)
  BY <1>1, <1>3, <1>4 DEF Paired, NoPaper
<1>7. AllPaired(rs)
  BY <1>3, <1>5, <1>6 DEF AllPaired
<1> QED BY <1>7 DEF rs, qs

-----------------------------------------------------------------------------
(* Papers are cancelled.                                                   *)

CancelledIn(ps, docs) ==
    [i \in DOMAIN ps |->
        IF i \in docs THEN [ps[i] EXCEPT !.status = "cancelled"] ELSE ps[i]]

Struck(ps, docs, cs) ==
    /\ docs \in SUBSET DOMAIN ps /\ cs \in Seq(PaperRecord)
    /\ DOMAIN cs = DOMAIN ps /\ Len(cs) = Len(ps)
    /\ \A i \in DOMAIN ps :
          /\ cs[i].type = ps[i].type /\ cs[i].base = ps[i].base /\ cs[i].group = ps[i].group
          /\ cs[i].at = ps[i].at /\ cs[i].units = ps[i].units /\ cs[i].final = ps[i].final
          /\ cs[i].payable = ps[i].payable
          /\ Live(cs, i) <=> Live(ps, i) /\ i \notin docs

LEMMA CancelledStruck ==
    ASSUME NEW ps \in Seq(PaperRecord), NEW docs \in SUBSET DOMAIN ps
    PROVE  Struck(ps, docs, CancelledIn(ps, docs))
<1> DEFINE cs == CancelledIn(ps, docs)
<1>1. DOMAIN ps = 1 .. Len(ps) /\ Len(ps) \in Nat
  OBVIOUS
<1>2. ASSUME NEW i \in DOMAIN ps
      PROVE  /\ cs[i] \in PaperRecord
             /\ cs[i].type = ps[i].type /\ cs[i].base = ps[i].base /\ cs[i].group = ps[i].group
             /\ cs[i].at = ps[i].at /\ cs[i].units = ps[i].units /\ cs[i].final = ps[i].final
             /\ cs[i].payable = ps[i].payable
             /\ Live(cs, i) <=> Live(ps, i) /\ i \notin docs
  <2>1. ps[i] \in PaperRecord
    BY PaperFields
  <2>2. CASE i \notin docs
    <3>1. cs[i] = ps[i]
      BY <2>2 DEF CancelledIn
    <3> QED BY <2>1, <2>2, <3>1 DEF Live
  <2>3. CASE i \in docs
    <3>1. PICK p : p = [ps[i] EXCEPT !.status = "cancelled"]
      OBVIOUS
    <3>2. /\ p \in PaperRecord /\ p.status = "cancelled"
          /\ p.type = ps[i].type /\ p.base = ps[i].base /\ p.group = ps[i].group
          /\ p.at = ps[i].at /\ p.units = ps[i].units /\ p.final = ps[i].final
          /\ p.payable = ps[i].payable
      BY <2>1, <3>1 DEF PaperRecord
    <3>3. cs[i] = p
      BY <2>3, <3>1 DEF CancelledIn
    <3> QED BY <2>3, <3>2, <3>3 DEF Live
  <2> QED BY <2>2, <2>3
<1>3. DOMAIN cs = 1 .. Len(ps)
  BY <1>1 DEF CancelledIn
<1> HIDE DEF cs
<1>4. cs \in Seq(PaperRecord) /\ Len(cs) = Len(ps)
  <2>1. cs = [i \in 1 .. Len(ps) |-> cs[i]]
    BY <1>3 DEF cs, CancelledIn
  <2> HIDE DEF cs
  <2>2. \A i \in 1 .. Len(ps) : cs[i] \in PaperRecord
    BY <1>1, <1>2
  <2>3. cs \in [1 .. Len(ps) -> PaperRecord]
    BY <2>1, <2>2
  <2> QED BY <1>1, <1>3, <2>3
<1>5. Struck(ps, docs, cs)
  BY <1>1, <1>2, <1>3, <1>4 DEF Struck
<1> QED BY <1>5 DEF cs

LEMMA StruckSets ==
    ASSUME NEW ps, NEW docs, NEW cs, Struck(ps, docs, cs)
    PROVE  /\ \A types : LiveOfType(cs, types) = LiveOfType(ps, types) \ docs
           /\ \A b : ReturnsOf(cs, b) = ReturnsOf(ps, b) \ docs
           /\ \A g : UnitColumn(cs, g) = UnitColumn(ps, g)
<1>1. \A types : LiveOfType(cs, types) = LiveOfType(ps, types) \ docs
  BY DEF LiveOfType, Struck
<1>2. \A b : ReturnsOf(cs, b) = ReturnsOf(ps, b) \ docs
  BY DEF ReturnsOf, LiveChildren, Children, Struck
<1>3. \A g : UnitColumn(cs, g) = UnitColumn(ps, g)
  BY DEF UnitColumn, Struck
<1> QED BY <1>1, <1>2, <1>3

LEMMA StruckBooked ==
    ASSUME NEW ps, Booked(ps), NEW docs, NEW cs, Struck(ps, docs, cs),
           \A i \in docs : ps[i].base = NoPaper => LiveChildren(ps, i) = {}
    PROVE  Booked(cs)
<1>0. ps \in Seq(PaperRecord) /\ cs \in Seq(PaperRecord) /\ DOMAIN cs = DOMAIN ps
  BY DEF Booked, Struck
<1> SUFFICES ASSUME NEW i \in DOMAIN ps PROVE Priced(cs[i]) /\ OfSale(cs, i) /\ Fits(cs, i)
  BY <1>0 DEF Booked
<1>1. Priced(ps[i]) /\ OfSale(ps, i) /\ Fits(ps, i)
  BY DEF Booked
<1>2. Priced(cs[i])
  BY <1>1 DEF Priced, GoodsOf, Struck
<1>3. OfSale(cs, i)
  <2>1. cs[i].type = "sale" <=> cs[i].base = NoPaper
    BY <1>1 DEF OfSale, Struck
  <2>2. ASSUME cs[i].base # NoPaper
        PROVE  /\ cs[i].base \in DOMAIN cs /\ cs[cs[i].base].type = "sale"
               /\ Live(cs, i) => Live(cs, cs[i].base)
    <3>1. PICK b : b = ps[i].base
      OBVIOUS
    <3>2. cs[i].base = b /\ b # NoPaper /\ b \in DOMAIN ps /\ ps[b].type = "sale"
          /\ cs[b].type = "sale" /\ (Live(ps, i) => Live(ps, b))
      BY <1>1, <2>2, <3>1 DEF OfSale, Struck
    <3>3. ps[b].base = NoPaper
      <4>1. OfSale(ps, b)
        BY <3>2 DEF Booked
      <4> QED BY <3>2, <4>1 DEF OfSale
    <3>4. ASSUME Live(cs, i) PROVE Live(cs, b)
      <4>1. Live(ps, i) /\ Live(ps, b)
        BY <3>2, <3>4 DEF Struck
      <4>2. i \in LiveChildren(ps, b)
        BY <3>1, <4>1 DEF LiveChildren, Children
      <4>3. b \notin docs
        BY <3>3, <4>2
      <4> QED BY <3>2, <4>1, <4>3 DEF Struck
    <3> QED BY <1>0, <3>2, <3>4
  <2> QED BY <2>1, <2>2 DEF OfSale
<1>4. Fits(cs, i)
  <2> SUFFICES ASSUME NEW g \in Good
               PROVE  SumOver(UnitColumn(cs, g), ReturnsOf(cs, i)) <= cs[i].units[g]
    BY DEF Fits
  <2>1. SumOver(UnitColumn(ps, g), ReturnsOf(ps, i)) <= ps[i].units[g]
    BY <1>1 DEF Fits
  <2>2. ReturnsOf(ps, i) \in SUBSET DOMAIN ps
    BY PaperSets
  <2>3. IsFiniteSet(ReturnsOf(ps, i)) /\ \A k \in ReturnsOf(ps, i) : UnitColumn(ps, g)[k] \in Int
    BY <1>0, <2>2, DomainFinite, UnitSums
  <2>4. SumOver(UnitColumn(ps, g), ReturnsOf(ps, i) \ docs)
           <= SumOver(UnitColumn(ps, g), ReturnsOf(ps, i))
    <3>1. ReturnsOf(ps, i) \ docs \in SUBSET ReturnsOf(ps, i)
      OBVIOUS
    <3> QED BY <2>3, <3>1, SumPart
  <2>5. /\ SumOver(UnitColumn(ps, g), ReturnsOf(ps, i)) \in Nat
        /\ SumOver(UnitColumn(ps, g), ReturnsOf(ps, i) \ docs) \in Nat
        /\ ps[i].units[g] \in Nat
    <3>1. ReturnsOf(ps, i) \ docs \in SUBSET DOMAIN ps
      BY <2>2
    <3> QED BY <1>0, <2>2, <3>1, UnitSums, PaperFields
  <2>6. cs[i].units = ps[i].units
    BY DEF Struck
  <2> QED BY <2>1, <2>4, <2>5, <2>6, StruckSets
<1> QED BY <1>2, <1>3, <1>4

LEMMA StruckPaired ==
    ASSUME NEW ps, AllPaired(ps), NEW docs, NEW cs, Struck(ps, docs, cs),
           \A i \in docs : ps[i].group # NoPaper => {ps[i].group, ps[i].group + 1} \subseteq docs
    PROVE  AllPaired(cs)
<1> SUFFICES ASSUME NEW i \in DOMAIN ps PROVE Paired(cs, i)
  BY DEF AllPaired, Struck
<1>1. Paired(ps, i)
  BY DEF AllPaired
<1>2. PICK n : n = ps[i].group
  OBVIOUS
<1>3. cs[i].type = ps[i].type /\ cs[i].group = n
  BY <1>2 DEF Struck
<1>4. CASE n = NoPaper
  BY <1>1, <1>2, <1>3, <1>4 DEF Paired
<1>5. CASE n # NoPaper
  <2>1. /\ i \in {n, n + 1} /\ {n, n + 1} \subseteq DOMAIN ps
        /\ ps[n].type = "return" /\ ps[n + 1].type = "exchange"
        /\ ps[n].group = n /\ ps[n + 1].group = n
        /\ ps[n].base = ps[n + 1].base
        /\ Live(ps, n) <=> Live(ps, n + 1)
        /\ ps[i].type # "sale"
    BY <1>1, <1>2, <1>5 DEF Paired
  <2>2. n \in docs <=> n + 1 \in docs
    BY <1>5, <2>1
  <2>3. /\ cs[n].type = "return" /\ cs[n + 1].type = "exchange"
        /\ cs[n].group = n /\ cs[n + 1].group = n
        /\ cs[n].base = cs[n + 1].base /\ {n, n + 1} \subseteq DOMAIN cs
    BY <2>1 DEF Struck
  <2>4. Live(cs, n) <=> Live(cs, n + 1)
    BY <2>1, <2>2 DEF Struck
  <2> QED BY <1>3, <1>5, <2>1, <2>3, <2>4 DEF Paired
<1> QED BY <1>4, <1>5

\* What is cancelled is what no longer counts.
LEMMA StruckSums ==
    ASSUME NEW ps \in Seq(PaperRecord), NEW docs, NEW cs, Struck(ps, docs, cs),
           \A i \in docs : Live(ps, i), NEW g \in Good
    PROVE  /\ Out(ps, g) = Out(cs, g)
                  + SumOver(UnitColumn(ps, g), {i \in docs : ps[i].type # "return"})
           /\ In(ps, g) = In(cs, g)
                  + SumOver(UnitColumn(ps, g), {i \in docs : ps[i].type = "return"})
           /\ Out(ps, g) \in Nat /\ Out(cs, g) \in Nat /\ In(ps, g) \in Nat /\ In(cs, g) \in Nat
           /\ SumOver(UnitColumn(ps, g), {i \in docs : ps[i].type # "return"}) \in Nat
           /\ SumOver(UnitColumn(ps, g), {i \in docs : ps[i].type = "return"}) \in Nat
<1> DEFINE ofTypes(types) == {i \in docs : ps[i].type \in types}
<1>1. docs \in SUBSET DOMAIN ps
  BY DEF Struck
<1>2. ASSUME NEW types
      PROVE  /\ SumOver(UnitColumn(ps, g), LiveOfType(ps, types)) =
                    SumOver(UnitColumn(cs, g), LiveOfType(cs, types))
                        + SumOver(UnitColumn(ps, g), ofTypes(types))
             /\ SumOver(UnitColumn(ps, g), LiveOfType(ps, types)) \in Nat
             /\ SumOver(UnitColumn(cs, g), LiveOfType(cs, types)) \in Nat
             /\ SumOver(UnitColumn(ps, g), ofTypes(types)) \in Nat
  <2>1. LiveOfType(ps, types) \in SUBSET DOMAIN ps
    BY PaperSets
  <2>2. LiveOfType(cs, types) = LiveOfType(ps, types) \ ofTypes(types) /\ UnitColumn(cs, g) = UnitColumn(ps, g)
    <3>1. LiveOfType(ps, types) \ docs = LiveOfType(ps, types) \ ofTypes(types)
      BY DEF LiveOfType
    <3> QED BY <3>1, StruckSets
  <2>3. ofTypes(types) \in SUBSET LiveOfType(ps, types)
    BY <1>1 DEF LiveOfType
  <2> HIDE DEF ofTypes
  <2>4. IsFiniteSet(LiveOfType(ps, types))
        /\ \A k \in LiveOfType(ps, types) : UnitColumn(ps, g)[k] \in Int
    BY <2>1, DomainFinite, UnitSums
  <2>5. SumOver(UnitColumn(ps, g), LiveOfType(ps, types)) =
           SumOver(UnitColumn(ps, g), ofTypes(types))
             + SumOver(UnitColumn(ps, g), LiveOfType(ps, types) \ ofTypes(types))
    BY <2>3, <2>4, SumPart
  <2>6. /\ LiveOfType(ps, types) \ ofTypes(types) \in SUBSET DOMAIN ps
        /\ ofTypes(types) \in SUBSET DOMAIN ps
    BY <2>1, <2>3
  <2>7. /\ SumOver(UnitColumn(ps, g), LiveOfType(ps, types)) \in Nat
        /\ SumOver(UnitColumn(ps, g), LiveOfType(ps, types) \ ofTypes(types)) \in Nat
        /\ SumOver(UnitColumn(ps, g), ofTypes(types)) \in Nat
    BY <2>1, <2>6, UnitSums
  <2> QED BY <2>2, <2>5, <2>7
<1>3. ofTypes({"sale", "exchange"}) = {i \in docs : ps[i].type # "return"}
  <2>1. \A i \in docs : ps[i].type \in {"sale", "return", "exchange"}
    BY <1>1, PaperFields
  <2> QED BY <2>1
<1>4. ofTypes({"return"}) = {i \in docs : ps[i].type = "return"}
  OBVIOUS
<1> HIDE DEF ofTypes
<1>5. /\ Out(ps, g) = Out(cs, g) + SumOver(UnitColumn(ps, g), ofTypes({"sale", "exchange"}))
      /\ Out(ps, g) \in Nat /\ Out(cs, g) \in Nat
      /\ SumOver(UnitColumn(ps, g), ofTypes({"sale", "exchange"})) \in Nat
  BY <1>2 DEF Out, Purchases
<1>6. /\ In(ps, g) = In(cs, g) + SumOver(UnitColumn(ps, g), ofTypes({"return"}))
      /\ In(ps, g) \in Nat /\ In(cs, g) \in Nat
      /\ SumOver(UnitColumn(ps, g), ofTypes({"return"})) \in Nat
  BY <1>2 DEF In
<1> QED BY <1>3, <1>4, <1>5, <1>6

\* What a request to cancel sets out with.
Removable(ps, docs) ==
    /\ docs \in SUBSET DOMAIN ps /\ docs # {}
    /\ \A i, j \in docs : ps[i].base = ps[j].base
    /\ \A i \in docs : ps[i].base = NoPaper => docs = {i}
    /\ \A i \in docs : ps[i].group # NoPaper => {ps[i].group, ps[i].group + 1} \subseteq docs

\* An exchange goes with its return; a return without one goes alone.
LEMMA GroupRemovable ==
    ASSUME Booked(papers), AllPaired(papers), NEW i \in DOMAIN papers, Live(papers, i)
    PROVE  Removable(papers, IF papers[i].base = NoPaper THEN {i} ELSE GroupOf(i))
<1>1. OfSale(papers, i) /\ Paired(papers, i) /\ papers \in Seq(PaperRecord)
  BY DEF Booked, AllPaired
<1>2. papers[i].type \in {"sale", "return", "exchange"}
  BY <1>1, PaperFields
<1>3. CASE papers[i].base = NoPaper
  <2>1. papers[i].group = NoPaper
    BY <1>1, <1>3 DEF OfSale, Paired
  <2> QED BY <1>3, <2>1 DEF Removable
<1>4. CASE papers[i].base # NoPaper
  <2> DEFINE b == papers[i].base
             n == papers[i].group
             grouped == {j \in LiveChildren(papers, b) : n # NoPaper /\ papers[j].group = n}
             pair == IF papers[i].type = "return" THEN i + 1 ELSE i - 1
             paired == {j \in LiveChildren(papers, b) :
                           j = pair /\ papers[j].type # papers[i].type
                             /\ papers[j].at = papers[i].at}
  <2>1. GroupOf(i) = IF {papers[j].type : j \in grouped} = {"return", "exchange"}
                     THEN grouped ELSE {i} \cup paired
    BY DEF GroupOf
  <2>2. papers[i].type # "sale" /\ i \in LiveChildren(papers, b)
    BY <1>1, <1>4 DEF OfSale, LiveChildren, Children
  <2>3. CASE n # NoPaper
    <3>1. /\ i \in {n, n + 1} /\ {n, n + 1} \subseteq DOMAIN papers
          /\ papers[n].type = "return" /\ papers[n + 1].type = "exchange"
          /\ papers[n].group = n /\ papers[n + 1].group = n
          /\ papers[n].base = papers[n + 1].base
          /\ Live(papers, n) <=> Live(papers, n + 1)
      BY <1>1, <2>3 DEF Paired
    <3>2. papers[n].base = b /\ papers[n + 1].base = b /\ Live(papers, n) /\ Live(papers, n + 1)
      BY <3>1
    <3>3. n \in grouped /\ n + 1 \in grouped
      BY <2>3, <3>1, <3>2 DEF LiveChildren, Children
    <3>4. ASSUME NEW j \in grouped PROVE j \in {n, n + 1}
      <4>1. Paired(papers, j) /\ papers[j].group = n
        BY DEF AllPaired, LiveChildren, Children
      <4> QED BY <2>3, <4>1 DEF Paired
    <3>5. {papers[j].type : j \in grouped} = {"return", "exchange"}
      BY <3>1, <3>3, <3>4
    <3>6. GroupOf(i) = grouped /\ grouped = {n, n + 1}
      BY <2>1, <3>3, <3>4, <3>5
    <3> HIDE DEF b, n, grouped
    <3>7. Removable(papers, {n, n + 1})
      BY <1>4, <3>1, <3>2 DEF Removable, b
    <3> QED BY <1>4, <3>6, <3>7
  <2>4. CASE n = NoPaper
    <3>1. grouped = {}
      BY <2>4
    <3>2. papers[i].type = "return"
      BY <1>1, <1>2, <2>2, <2>4 DEF Paired
    <3>3. paired = {}
      <4> SUFFICES ASSUME NEW j \in paired PROVE FALSE
        OBVIOUS
      <4>1. /\ j = i + 1 /\ j \in DOMAIN papers /\ papers[j].type # "return"
            /\ papers[j].base # NoPaper
        BY <1>4, <3>2 DEF LiveChildren, Children
      <4>2. OfSale(papers, j) /\ Paired(papers, j) /\ papers[j].type \in {"sale", "return", "exchange"}
        BY <1>1, <4>1, PaperFields DEF Booked, AllPaired
      <4>3. papers[j].type = "exchange"
        BY <4>1, <4>2 DEF OfSale
      <4>4. PICK m : m = papers[j].group
        OBVIOUS
      <4>5. m # NoPaper /\ j \in {m, m + 1} /\ papers[m].type = "return" /\ papers[m].group = m
            /\ {m, m + 1} \subseteq DOMAIN papers
        BY <4>2, <4>3, <4>4 DEF Paired
      <4>6. j = m + 1
        BY <4>3, <4>5
      <4>7. i \in Nat /\ m \in Nat
        BY <1>1, <4>5, PaperFields
      <4>8. i = m
        BY <4>1, <4>6, <4>7
      <4> QED BY <2>4, <4>5, <4>8
    <3>4. {papers[j].type : j \in grouped} # {"return", "exchange"}
      BY <3>1
    <3>5. GroupOf(i) = {i}
      BY <2>1, <3>3, <3>4
    <3> HIDE DEF b, grouped, paired, pair
    <3>6. Removable(papers, {i})
      BY <2>4 DEF Removable
    <3> QED BY <1>4, <3>5, <3>6
  <2> QED BY <2>3, <2>4
<1> QED BY <1>3, <1>4

-----------------------------------------------------------------------------
(* What always holds of the papers, the shelf and the requests.            *)

\* A change of a date, as long as it is under way, against the dates it has seen.
RedateHolds(ps, now, r) ==
    /\ r.paper \in DOMAIN ps /\ r.at <= now + Ahead
    /\ \A x \in r.seen :
          /\ x[1] \in DOMAIN ps
          /\ ps[x[1]].base = r.paper => r.at <= x[2]
          /\ ps[r.paper].base = x[1] => r.at >= x[2]

ClerkHolds(r) ==
    /\ r.step = "remove" => Removable(papers, r.docs)
    /\ r.step \in {"redate", "dated"} => RedateHolds(papers, clock, r)
    /\ r.step = "dated" =>
          (~r.moved => r.books = Aggregates([papers EXCEPT ![r.paper].at = r.at]))

NotAhead(ps, now) == \A i \in DOMAIN ps : ps[i].at <= now + Ahead

\* What is on the shelf is what the documents leave of what there was.
Shelved ==
    \A g \in Good :
        onHand[g] + Out(papers, g) + Flow(g, MoveTypes, "out", 0) =
            OpeningStock + In(papers, g) + Flow(g, MoveTypes, "in", 0)

PapersInv ==
    /\ AdjustmentsTypeOK
    /\ Booked(papers) /\ AllPaired(papers) /\ NotAhead(papers, clock)
    /\ DatesInOrder
    /\ ~behind => books = Aggregates(papers)
    /\ Shelved
    /\ \A c \in Clerk : ClerkHolds(desk[c])

-----------------------------------------------------------------------------
LEMMA ClerkCases ==
    ASSUME NEW r \in ClerkRecord
    PROVE  /\ r.step \in {"idle", "remove", "redate", "dated"}
           /\ r.step = "idle" => r = Waiting
           /\ r.step = "remove" => r \in [step : {"remove"}, docs : SUBSET Ids]
           /\ r.step = "redate" =>
                 r \in [step : {"redate"}, paper : Ids, at : Minutes, seen : SUBSET (Ids \X Minutes)]
           /\ r.step = "dated" =>
                 r \in [step : {"dated"}, paper : Ids, at : Minutes, seen : SUBSET (Ids \X Minutes),
                        moved : BOOLEAN, books : BooksRecord]
BY DEF ClerkRecord, Waiting

LEMMA Clocks ==
    /\ LastMinute \in Nat /\ Ahead = 1 /\ Minutes = 0 .. LastMinute + 1
    /\ Minutes \subseteq Nat /\ MaxPapers \in Nat
BY AdjustmentsAssumption DEF Minutes, Ahead

\* The papers grow: what is written of one stays, and what is added is dated now.
Grows(ps, qs, now) ==
    /\ DOMAIN ps \subseteq DOMAIN qs
    /\ \A i \in DOMAIN ps :
          /\ qs[i].type = ps[i].type /\ qs[i].base = ps[i].base /\ qs[i].group = ps[i].group
          /\ qs[i].at = ps[i].at /\ (Live(qs, i) => Live(ps, i))
    /\ \A i \in DOMAIN qs \ DOMAIN ps : qs[i].at = now

\* The requests under way.
KeepsBases(ps, qs) ==
    /\ DOMAIN ps \subseteq DOMAIN qs
    /\ \A i \in DOMAIN ps : qs[i].base = ps[i].base /\ qs[i].group = ps[i].group

LEMMA RemovableKept ==
    ASSUME NEW ps, NEW qs, KeepsBases(ps, qs), NEW docs, Removable(ps, docs)
    PROVE  Removable(qs, docs)
BY DEF KeepsBases, Removable

LEMMA RedateKept ==
    ASSUME NEW ps, NEW qs, KeepsBases(ps, qs), NEW now \in Nat, NEW later \in Nat, now <= later,
           NEW r, r.at \in Nat, RedateHolds(ps, now, r)
    PROVE  RedateHolds(qs, later, r)
BY DEF KeepsBases, RedateHolds, Ahead

LEMMA FinishDesk ==
    ASSUME desk \in [Clerk -> ClerkRecord], NEW c \in Clerk, Finish(c)
    PROVE  /\ desk' \in [Clerk -> ClerkRecord]
           /\ \A k \in Clerk :
                 \/ desk'[k] = Waiting
                 \/ desk'[k] = desk[k] /\ desk[k].step # "dated"
                 \/ /\ desk[k].step = "dated" /\ desk'[k].step = "dated" /\ desk'[k].moved = TRUE
                    /\ desk'[k].paper = desk[k].paper /\ desk'[k].at = desk[k].at
                    /\ desk'[k].seen = desk[k].seen
<1> SUFFICES ASSUME NEW k \in Clerk
             PROVE  /\ desk'[k] \in ClerkRecord
                    /\ \/ desk'[k] = Waiting
                       \/ desk'[k] = desk[k] /\ desk[k].step # "dated"
                       \/ /\ desk[k].step = "dated" /\ desk'[k].step = "dated"
                          /\ desk'[k].moved = TRUE
                          /\ desk'[k].paper = desk[k].paper /\ desk'[k].at = desk[k].at
                          /\ desk'[k].seen = desk[k].seen
  BY DEF Finish
<1>1. desk[k] \in ClerkRecord
  OBVIOUS
<1>2. CASE k = c
  BY <1>2 DEF Finish, ClerkRecord
<1>3. CASE k # c /\ desk[k].step = "dated"
  <2>1. desk[k] \in [step : {"dated"}, paper : Ids, at : Minutes, seen : SUBSET (Ids \X Minutes),
                     moved : BOOLEAN, books : BooksRecord]
    BY <1>1, <1>3, ClerkCases
  <2>2. PICK r : r = [desk[k] EXCEPT !.moved = TRUE]
    OBVIOUS
  <2>3. /\ r \in [step : {"dated"}, paper : Ids, at : Minutes, seen : SUBSET (Ids \X Minutes),
                  moved : BOOLEAN, books : BooksRecord]
        /\ r.moved = TRUE /\ r.paper = desk[k].paper /\ r.at = desk[k].at
        /\ r.seen = desk[k].seen /\ r.step = "dated"
    BY <2>1, <2>2
  <2>4. desk'[k] = r
    BY <1>3, <2>2 DEF Finish
  <2>5. r \in ClerkRecord
    BY <2>3 DEF ClerkRecord
  <2> QED BY <1>3, <2>3, <2>4, <2>5
<1>4. CASE k # c /\ desk[k].step # "dated"
  BY <1>1, <1>4 DEF Finish
<1> QED BY <1>2, <1>3, <1>4

LEMMA RequestsKept ==
    ASSUME desk \in [Clerk -> ClerkRecord], \A k \in Clerk : ClerkHolds(desk[k]),
           NEW c \in Clerk, Finish(c), KeepsBases(papers, papers'),
           clock \in Nat, UNCHANGED clock
    PROVE  \A k \in Clerk : ClerkHolds(desk[k])'
<1> SUFFICES ASSUME NEW k \in Clerk PROVE ClerkHolds(desk[k])'
  OBVIOUS
<1>1. ClerkHolds(desk[k]) /\ desk[k] \in ClerkRecord
  OBVIOUS
<1>2. PICK r : r = desk[k]
  OBVIOUS
<1>3. PICK s : s = desk'[k]
  OBVIOUS
<1>4. \/ s = Waiting
      \/ s = r /\ r.step # "dated"
      \/ /\ r.step = "dated" /\ s.step = "dated" /\ s.moved = TRUE
         /\ s.paper = r.paper /\ s.at = r.at /\ s.seen = r.seen
  BY <1>2, <1>3, FinishDesk
<1>5. /\ r.step = "remove" => Removable(papers, r.docs)
      /\ r.step \in {"redate", "dated"} => RedateHolds(papers, clock, r) /\ r.at \in Nat
  BY <1>1, <1>2, ClerkCases, Clocks DEF ClerkHolds
<1> SUFFICES /\ s.step = "remove" => Removable(papers', s.docs)
             /\ s.step \in {"redate", "dated"} => RedateHolds(papers', clock', s)
             /\ s.step = "dated" => s.moved = TRUE
  BY <1>3 DEF ClerkHolds
<1>6. CASE s = Waiting
  BY <1>6 DEF Waiting
<1>7. CASE s = r /\ r.step # "dated"
  <2>1. s.step = "remove" => Removable(papers', s.docs)
    BY <1>5, <1>7, RemovableKept
  <2>2. s.step = "redate" => RedateHolds(papers', clock', s)
    BY <1>5, <1>7, RedateKept
  <2> QED BY <1>7, <2>1, <2>2
<1>8. CASE /\ r.step = "dated" /\ s.step = "dated" /\ s.moved = TRUE
           /\ s.paper = r.paper /\ s.at = r.at /\ s.seen = r.seen
  <2>1. RedateHolds(papers', clock', r)
    BY <1>5, <1>8, RedateKept
  <2>2. RedateHolds(papers', clock', s)
    BY <1>8, <2>1 DEF RedateHolds
  <2> QED BY <1>8, <2>2
<1> QED BY <1>4, <1>6, <1>7, <1>8

-----------------------------------------------------------------------------
(* A step that writes papers.                                              *)

\* What a document transaction may leave.
Successor(qs, held) ==
    /\ Booked(qs) /\ AllPaired(qs) /\ Len(qs) <= MaxPapers /\ Grows(papers, qs, clock)
    /\ held \in [Good -> Nat]
    /\ \A g \in Good :
          held[g] + Out(qs, g) + In(papers, g) = onHand[g] + Out(papers, g) + In(qs, g)

LEMMA OutInTypes ==
    ASSUME NEW ps \in Seq(PaperRecord), NEW g \in Good
    PROVE  Out(ps, g) \in Nat /\ In(ps, g) \in Nat
BY PaperSets, UnitSums DEF Out, In

LEMMA FlowType ==
    ASSUME moves \in Seq(MoveRecord), NEW g, NEW types, NEW way, NEW from
    PROVE  Flow(g, types, way, from) \in Nat
<1> DEFINE rows == {k \in Shifted(types, way) : moves[k].good = g /\ moves[k].at >= from}
<1>1. DOMAIN moves = 1 .. Len(moves) /\ Len(moves) \in Nat
  OBVIOUS
<1>2. IsFiniteSet(DOMAIN moves)
  BY <1>1, FS_Interval
<1>3. rows \in SUBSET DOMAIN moves
  BY DEF Shifted
<1> HIDE DEF rows
<1>4. Cardinality(rows) \in Nat
  BY <1>2, <1>3, FS_Subset, FS_CardinalityType
<1> QED BY <1>4 DEF Flow, rows

LEMMA RecordKeeps ==
    ASSUME PapersInv, NEW c \in Clerk, NEW qs, NEW held, Successor(qs, held),
           Record(c, qs, held)
    PROVE  PapersInv'
<1>1. /\ papers' = qs /\ onHand' = held /\ books' = Aggregates(qs) /\ behind' = FALSE
      /\ Finish(c) /\ moves' = moves /\ clock' = clock /\ redates' = redates /\ raced' = raced
  BY DEF Record
<1>2. /\ AdjustmentsTypeOK /\ Booked(papers) /\ NotAhead(papers, clock) /\ DatesInOrder /\ Shelved
      /\ \A k \in Clerk : ClerkHolds(desk[k])
  BY DEF PapersInv
<1>3. /\ qs \in Seq(PaperRecord) /\ papers \in Seq(PaperRecord) /\ Grows(papers, qs, clock)
      /\ clock \in Minutes /\ clock \in Nat /\ desk \in [Clerk -> ClerkRecord]
      /\ onHand \in [Good -> Nat]
  BY <1>2, Clocks DEF Successor, Booked, AdjustmentsTypeOK
<1>4. AdjustmentsTypeOK'
  <2>1. books' \in BooksRecord
    BY <1>1, <1>3, AggregatesType
  <2>2. desk' \in [Clerk -> ClerkRecord]
    BY <1>1, <1>3, FinishDesk
  <2> QED BY <1>1, <1>2, <1>3, <2>1, <2>2 DEF AdjustmentsTypeOK, Successor
<1>5. NotAhead(qs, clock)
  <2> SUFFICES ASSUME NEW i \in DOMAIN qs PROVE qs[i].at <= clock + Ahead
    BY DEF NotAhead
  <2>1. CASE i \in DOMAIN papers
    BY <1>2, <1>3, <2>1 DEF NotAhead, Grows
  <2>2. CASE i \notin DOMAIN papers
    BY <1>3, <2>2, Clocks DEF Grows
  <2> QED BY <2>1, <2>2
<1>6. DatesInOrder'
  <2> SUFFICES ASSUME NEW i \in DOMAIN qs, NEW b, b = qs[i].base, b # NoPaper, Live(qs, i),
                      {i, b} \cap raced = {}
               PROVE  qs[i].at + Ahead >= qs[b].at
    BY <1>1 DEF DatesInOrder
  <2>1. OfSale(qs, i) /\ b \in DOMAIN qs
    BY DEF Successor, Booked, OfSale
  <2>2. CASE i \in DOMAIN papers
    <3>1. papers[i].base = b /\ Live(papers, i) /\ papers[i].at = qs[i].at
      BY <1>3, <2>2 DEF Grows
    <3>2. b \in DOMAIN papers
      BY <1>2, <2>2, <3>1 DEF Booked, OfSale
    <3>3. papers[b].at = qs[b].at
      BY <1>3, <3>2 DEF Grows
    <3> QED BY <1>2, <2>2, <3>1, <3>3 DEF DatesInOrder
  <2>3. CASE i \notin DOMAIN papers
    <3>1. qs[i].at = clock
      BY <1>3, <2>3 DEF Grows
    <3>2. qs[b].at <= clock + Ahead
      BY <1>5, <2>1 DEF NotAhead
    <3> QED BY <3>1, <3>2
  <2> QED BY <2>2, <2>3
<1>7. Shelved'
  <2> SUFFICES ASSUME NEW g \in Good
               PROVE  held[g] + Out(qs, g) + Flow(g, MoveTypes, "out", 0) =
                          OpeningStock + In(qs, g) + Flow(g, MoveTypes, "in", 0)
    BY <1>1 DEF Shelved, Flow, Shifted
  <2>1. onHand[g] + Out(papers, g) + Flow(g, MoveTypes, "out", 0) =
            OpeningStock + In(papers, g) + Flow(g, MoveTypes, "in", 0)
    BY <1>2 DEF Shelved
  <2>2. held[g] + Out(qs, g) + In(papers, g) = onHand[g] + Out(papers, g) + In(qs, g)
    BY DEF Successor
  <2>3. /\ held[g] \in Nat /\ onHand[g] \in Nat /\ OpeningStock \in Nat
        /\ Out(qs, g) \in Nat /\ In(qs, g) \in Nat /\ Out(papers, g) \in Nat /\ In(papers, g) \in Nat
        /\ Flow(g, MoveTypes, "out", 0) \in Nat /\ Flow(g, MoveTypes, "in", 0) \in Nat
    <3>1. held[g] \in Nat /\ onHand[g] \in Nat /\ OpeningStock \in Nat
      BY <1>3, AdjustmentsAssumption DEF Successor
    <3>2. Flow(g, MoveTypes, "out", 0) \in Nat /\ Flow(g, MoveTypes, "in", 0) \in Nat
      <4>1. moves \in Seq(MoveRecord)
        BY <1>2 DEF AdjustmentsTypeOK
      <4> QED BY <4>1, FlowType
    <3> QED BY <1>3, <3>1, <3>2, OutInTypes
  <2> QED BY <2>1, <2>2, <2>3
<1>8. \A k \in Clerk : ClerkHolds(desk[k])'
  <2>1. KeepsBases(papers, papers')
    BY <1>1, <1>3 DEF Grows, KeepsBases
  <2> QED BY <1>1, <1>2, <1>3, <2>1, RequestsKept
<1> QED BY <1>1, <1>4, <1>5, <1>6, <1>7, <1>8 DEF PapersInv, Successor

\* The status of the sale set anew changes none of it.
LEMMA RefreshedSuccessor ==
    ASSUME NEW qs, NEW held, Successor(qs, held), NEW b \in DOMAIN qs, Live(qs, b)
    PROVE  Successor(BaseRefreshed(qs, b), held)
<1> DEFINE rs == BaseRefreshed(qs, b)
<1>1. Booked(qs) /\ qs \in Seq(PaperRecord) /\ AllPaired(qs)
  BY DEF Successor, Booked
<1>2. /\ rs \in Seq(PaperRecord) /\ Alike(qs, rs) /\ Len(rs) = Len(qs)
      /\ \A i \in DOMAIN qs : rs[i].at = qs[i].at
  BY <1>1, RefreshedAlike
<1> HIDE DEF rs
<1>3. Booked(rs) /\ AllPaired(rs)
  BY <1>1, <1>2, AlikeBooked, AlikePaired
<1>4. \A g : Out(rs, g) = Out(qs, g) /\ In(rs, g) = In(qs, g)
  BY <1>2, AlikeSums
<1>5. Grows(papers, rs, clock)
  BY <1>2 DEF Successor, Grows, Alike
<1>6. Successor(rs, held)
  BY <1>2, <1>3, <1>4, <1>5 DEF Successor
<1> QED BY <1>6 DEF rs

-----------------------------------------------------------------------------
(* The requests, one by one.                                               *)

LEMMA PapersFacts ==
    ASSUME PapersInv
    PROVE  /\ papers \in Seq(PaperRecord) /\ Booked(papers) /\ AllPaired(papers)
           /\ NotAhead(papers, clock) /\ clock \in Minutes /\ clock \in Nat
           /\ onHand \in [Good -> Nat] /\ desk \in [Clerk -> ClerkRecord]
           /\ Len(papers) \in Nat /\ Len(papers) <= MaxPapers
           /\ DOMAIN papers = 1 .. Len(papers) /\ DOMAIN papers \subseteq Ids
<1>1. /\ papers \in Seq(PaperRecord) /\ Len(papers) <= MaxPapers
      /\ onHand \in [Good -> Nat] /\ desk \in [Clerk -> ClerkRecord] /\ clock \in Minutes
  BY DEF PapersInv, AdjustmentsTypeOK
<1>2. Len(papers) \in Nat /\ DOMAIN papers = 1 .. Len(papers)
  BY <1>1
<1>3. DOMAIN papers \subseteq Ids
  BY <1>1, <1>2, Clocks DEF Ids
<1> QED BY <1>1, <1>2, <1>3, Clocks DEF PapersInv

\* A new paper at the end.
LEMMA GrownByOne ==
    ASSUME PapersInv, NEW p \in PaperRecord, p.at = clock
    PROVE  Grows(papers, Append(papers, p), clock)
<1> DEFINE n == Len(papers) + 1
           qs == Append(papers, p)
<1>1. Added(papers, p, n, qs)
  BY PapersFacts, OneMore
<1> HIDE DEF n, qs
<1>2. Grows(papers, qs, clock)
  BY <1>1 DEF Added, Grows, Live
<1> QED BY <1>2 DEF qs

LEMMA SellKeeps ==
    ASSUME PapersInv, NEW c \in Clerk, NEW basket \in Baskets, NEW d \in Discounts,
           Sell(c, basket, d)
    PROVE  PapersInv'
<1> DEFINE total == Sum([g \in Good |-> basket[g] * RetailPrice[g]])
           held == [g \in Good |-> onHand[g] - basket[g]]
<1>1. basket \in [Good -> Nat] /\ d \in Nat
  BY AdjustmentsAssumption
<1>2. PICK p : p = [type |-> "sale", base |-> NoPaper, group |-> NoPaper,
                    status |-> "paid", at |-> clock, units |-> basket,
                    final |-> FinalPrices(basket, d),
                    payable |-> Positive(total - d)]
  OBVIOUS
<1>3. /\ p.type = "sale" /\ p.base = NoPaper /\ p.group = NoPaper /\ p.status = "paid"
      /\ p.at = clock /\ p.units = basket /\ p.final = FinalPrices(basket, d)
      /\ p.payable = Positive(total - d)
  BY <1>2
<1>4. /\ Len(papers) < MaxPapers /\ \A g \in Good : onHand[g] >= basket[g]
      /\ Record(c, Append(papers, p), held)
  BY <1>2 DEF Sell
<1>5. total \in Nat
  <2>1. \A g \in Good : basket[g] * RetailPrice[g] \in Nat
    BY <1>1, AdjustmentsAssumption
  <2> QED BY <2>1, GoodSum
<1>6. /\ Positive(total - d) <= Sum(FinalPrices(basket, d)) + Cardinality(GoodsOf(p))
      /\ Sum(FinalPrices(basket, d)) <= Positive(total - d) + Cardinality(GoodsOf(p))
  BY <1>1, <1>3, SaleAddsUp DEF GoodsOf
<1> HIDE DEF total
<1>7. p \in PaperRecord
  <2>1. Positive(total - d) \in Nat
    <3>1. total - d \in Int
      BY <1>1, <1>5
    <3> QED BY <3>1, PositiveType
  <2>2. FinalPrices(basket, d) \in [Good -> Nat]
    BY <1>1, FinalPricesType
  <2> QED BY <1>1, <1>2, <2>1, <2>2, PapersFacts DEF PaperRecord
<1>8. Priced(p)
  <2>1. \A g \in Good : p.final[g] <= p.units[g] * RetailPrice[g] /\ p.final[g] \in Nat
    BY <1>1, <1>3, FinalPricesType
  <2>2. \A g \in Good : p.units[g] = 0 => p.final[g] = 0
    BY <2>1, AdjustmentsAssumption
  <2> QED BY <1>3, <1>6, <2>1, <2>2 DEF Priced
<1>9. Booked(Append(papers, p))
  BY <1>3, <1>7, <1>8, PapersFacts, OneMoreBooked
<1>10. AllPaired(Append(papers, p))
  BY <1>3, <1>7, PapersFacts, OneMorePaired
<1>11. Grows(papers, Append(papers, p), clock)
  BY <1>3, <1>7, GrownByOne
<1>12. Len(Append(papers, p)) <= MaxPapers
  BY <1>4, <1>7, PapersFacts, Clocks
<1>13. held \in [Good -> Nat] /\ \A g \in Good : held[g] = onHand[g] - p.units[g]
  BY <1>1, <1>3, <1>4, PapersFacts
<1> HIDE DEF held
<1>14. ASSUME NEW g \in Good
       PROVE  held[g] + Out(Append(papers, p), g) + In(papers, g) =
                  onHand[g] + Out(papers, g) + In(Append(papers, p), g)
  <2>1. /\ Out(Append(papers, p), g) = Out(papers, g) + p.units[g]
        /\ In(Append(papers, p), g) = In(papers, g) + 0
    BY <1>3, <1>7, PapersFacts, OneMoreSums
  <2>2. Out(papers, g) \in Nat /\ In(papers, g) \in Nat /\ onHand[g] \in Nat /\ p.units[g] \in Nat
    BY <1>1, <1>3, PapersFacts, OutInTypes
  <2> QED BY <1>13, <2>1, <2>2
<1>15. Successor(Append(papers, p), held)
  BY <1>9, <1>10, <1>11, <1>12, <1>13, <1>14 DEF Successor
<1> QED BY <1>4, <1>15, RecordKeeps

\* What comes back of a sale fits in its papers.
LEMMA ReturnFits ==
    ASSUME PapersInv, NEW b \in DOMAIN papers, NEW basket \in [Good -> Nat],
           Adjustable(b), CanReturn(b, basket), NEW group \in Ids \cup {NoPaper},
           NEW p, p = ReturnPaper(b, basket, group)
    PROVE  /\ p \in PaperRecord /\ p.type = "return" /\ p.base = b /\ p.group = group
           /\ p.status # "cancelled" /\ p.at = clock /\ p.units = basket
           /\ Booked(Append(papers, p)) /\ Grows(papers, Append(papers, p), clock)
           /\ papers[b].type = "sale" /\ Live(papers, b)
<1> DEFINE final == [g \in Good |-> basket[g] * UnitPrice(b, g)]
<1>1. p = [type |-> "return", base |-> b, group |-> group, status |-> "returned",
           at |-> clock, units |-> basket, final |-> final, payable |-> Sum(final)]
  BY DEF ReturnPaper
<1>2. papers[b].type = "sale" /\ Live(papers, b) /\ b \in Ids /\ b # NoPaper
  <2>1. b \in Ids /\ b # 0
    BY PapersFacts
  <2> QED BY <2>1 DEF Adjustable, NoPaper
<1>3. ASSUME NEW g \in Good PROVE UnitPrice(b, g) \in Nat
  <2>1. papers[b].units[g] \in Nat /\ papers[b].final[g] \in Nat
    BY PapersFacts, PaperFields
  <2>2. CASE papers[b].units[g] = 0
    BY <2>2 DEF UnitPrice
  <2>3. CASE papers[b].units[g] # 0
    <3>1. papers[b].units[g] > 0
      BY <2>1, <2>3
    <3> QED BY <2>1, <2>3, <3>1, RoundDivFacts DEF UnitPrice
  <2> QED BY <2>2, <2>3
<1>4. \A g \in Good : final[g] \in Nat /\ (basket[g] = 0 => final[g] = 0)
  <2> SUFFICES ASSUME NEW g \in Good PROVE final[g] \in Nat /\ (basket[g] = 0 => final[g] = 0)
    OBVIOUS
  <2>1. UnitPrice(b, g) \in Nat /\ basket[g] \in Nat
    BY <1>3
  <2>2. final[g] = basket[g] * UnitPrice(b, g)
    OBVIOUS
  <2> HIDE DEF final
  <2> QED BY <2>1, <2>2
<1>5. final \in [Good -> Nat]
  BY <1>4
<1> HIDE DEF final
<1>6. Sum(final) \in Nat
  BY <1>4, GoodSum
<1>7. /\ p.type = "return" /\ p.base = b /\ p.group = group /\ p.status = "returned"
      /\ p.at = clock /\ p.units = basket /\ p.final = final /\ p.payable = Sum(final)
  BY <1>1
<1>8. p \in PaperRecord
  BY <1>1, <1>2, <1>5, <1>6, PapersFacts DEF PaperRecord
<1>9. Priced(p)
  <2>1. GoodsOf(p) # {}
    BY <1>7 DEF GoodsOf, CanReturn
  <2> QED BY <1>4, <1>7, <2>1 DEF Priced
<1>10. \A g \in Good : p.units[g] <= papers[b].units[g]
                          - SumOver(UnitColumn(papers, g), ReturnsOf(papers, b))
  BY <1>7 DEF CanReturn, LeftToReturn, UnitColumn, ReturnsOf
<1>11. Booked(Append(papers, p))
  BY <1>2, <1>7, <1>8, <1>9, <1>10, PapersFacts, OneMoreBooked
<1>12. Grows(papers, Append(papers, p), clock)
  BY <1>7, <1>8, GrownByOne
<1> QED BY <1>2, <1>7, <1>8, <1>11, <1>12

LEMMA BringBackKeeps ==
    ASSUME PapersInv, NEW c \in Clerk, NEW b \in DOMAIN papers, NEW basket \in Returned,
           BringBack(c, b, basket)
    PROVE  PapersInv'
<1> DEFINE held == [g \in Good |-> onHand[g] + basket[g]]
<1>1. basket \in [Good -> Nat] /\ NoPaper \in Ids \cup {NoPaper}
  BY AdjustmentsAssumption
<1>2. PICK p : p = ReturnPaper(b, basket, NoPaper)
  OBVIOUS
<1>3. /\ Len(papers) < MaxPapers /\ Adjustable(b) /\ CanReturn(b, basket)
      /\ Record(c, BaseRefreshed(Append(papers, p), b), held)
  BY <1>2 DEF BringBack
<1>4. /\ p \in PaperRecord /\ p.type = "return" /\ p.base = b /\ p.group = NoPaper
      /\ p.status # "cancelled" /\ p.at = clock /\ p.units = basket
      /\ Booked(Append(papers, p)) /\ Grows(papers, Append(papers, p), clock)
      /\ papers[b].type = "sale" /\ Live(papers, b)
  BY <1>1, <1>2, <1>3, ReturnFits
<1>5. AllPaired(Append(papers, p))
  BY <1>4, PapersFacts, OneMorePaired
<1>6. Len(Append(papers, p)) <= MaxPapers
  BY <1>3, <1>4, PapersFacts, Clocks
<1>7. b \in DOMAIN Append(papers, p) /\ Live(Append(papers, p), b)
  <2>1. Added(papers, p, Len(papers) + 1, Append(papers, p))
    BY <1>4, PapersFacts, OneMore
  <2> QED BY <1>4, <2>1 DEF Added, Live
<1>8. held \in [Good -> Nat] /\ \A g \in Good : held[g] = onHand[g] + p.units[g]
  BY <1>1, <1>4, PapersFacts
<1> HIDE DEF held
<1>9. ASSUME NEW g \in Good
      PROVE  held[g] + Out(Append(papers, p), g) + In(papers, g) =
                 onHand[g] + Out(papers, g) + In(Append(papers, p), g)
  <2>1. /\ Out(Append(papers, p), g) = Out(papers, g) + 0
        /\ In(Append(papers, p), g) = In(papers, g) + p.units[g]
    BY <1>4, PapersFacts, OneMoreSums
  <2>2. Out(papers, g) \in Nat /\ In(papers, g) \in Nat /\ onHand[g] \in Nat /\ p.units[g] \in Nat
    BY <1>1, <1>4, PapersFacts, OutInTypes
  <2> QED BY <1>8, <2>1, <2>2
<1>10. Successor(Append(papers, p), held)
  BY <1>4, <1>5, <1>6, <1>8, <1>9 DEF Successor
<1>11. Successor(BaseRefreshed(Append(papers, p), b), held)
  BY <1>7, <1>10, RefreshedSuccessor
<1> QED BY <1>3, <1>11, RecordKeeps

LEMMA ExchangeKeeps ==
    ASSUME PapersInv, NEW c \in Clerk, NEW b \in DOMAIN papers, NEW basket \in Returned,
           NEW h \in Good, NEW price, Exchange(c, b, basket, h, price)
    PROVE  PapersInv'
<1> DEFINE n == Len(papers) + 1
           held == [g \in Good |-> onHand[g] + basket[g] - IF g = h THEN 1 ELSE 0]
<1>1. basket \in [Good -> Nat] /\ RetailPrice[h] \in Nat
  BY AdjustmentsAssumption
<1>2. PICK p : p = ReturnPaper(b, basket, n)
  OBVIOUS
<1>3. PICK q : q = ExchangePaper(b, h, price, n)
  OBVIOUS
<1>4. /\ n < MaxPapers /\ Adjustable(b) /\ CanReturn(b, basket) /\ CanTake(basket, h, price)
      /\ Record(c, BaseRefreshed(papers \o <<p, q>>, b), held)
  BY <1>2, <1>3 DEF Exchange
<1>5. n \in Ids /\ n # NoPaper /\ n \in Ids \cup {NoPaper} /\ n \in Nat
  BY <1>4, PapersFacts, Clocks DEF Ids, NoPaper
<1>6. /\ p \in PaperRecord /\ p.type = "return" /\ p.base = b /\ p.group = n
      /\ p.status # "cancelled" /\ p.at = clock /\ p.units = basket
      /\ Booked(Append(papers, p)) /\ Grows(papers, Append(papers, p), clock)
      /\ papers[b].type = "sale" /\ Live(papers, b)
  <2> HIDE DEF n
  <2> QED BY <1>1, <1>2, <1>4, <1>5, ReturnFits
<1>7. price \in Nat /\ price <= RetailPrice[h] /\ onHand[h] + basket[h] >= 1
  BY <1>1, <1>4 DEF CanTake
<1> DEFINE units == [g \in Good |-> IF g = h THEN 1 ELSE 0]
           final == [g \in Good |-> IF g = h THEN price ELSE 0]
<1>8. q = [type |-> "exchange", base |-> b, group |-> n, status |-> "paid", at |-> clock,
           units |-> units, final |-> final, payable |-> price]
  BY <1>3 DEF ExchangePaper
<1>9. b \in Ids /\ b # NoPaper
  BY PapersFacts DEF NoPaper
<1>10. units \in [Good -> Nat] /\ final \in [Good -> Nat]
  BY <1>7
<1>11. Sum(final) = price
  <2>1. final[h] = price /\ \A g \in Good \ {h} : final[g] = 0
    OBVIOUS
  <2> HIDE DEF final
  <2> QED BY <1>7, <2>1, SumOneRow DEF Sum
<1>12. \A g \in Good : /\ units[g] = 0 => final[g] = 0
                       /\ final[g] <= units[g] * RetailPrice[g]
  <2> SUFFICES ASSUME NEW g \in Good
               PROVE  (units[g] = 0 => final[g] = 0) /\ final[g] <= units[g] * RetailPrice[g]
    OBVIOUS
  <2>1. RetailPrice[g] \in Nat
    BY AdjustmentsAssumption
  <2>2. CASE g = h
    <3>1. units[g] = 1 /\ final[g] = price
      BY <2>2
    <3> HIDE DEF units, final
    <3> QED BY <1>7, <2>1, <2>2, <3>1
  <2>3. CASE g # h
    <3>1. units[g] = 0 /\ final[g] = 0
      BY <2>3
    <3> HIDE DEF units, final
    <3> QED BY <2>1, <3>1
  <2> QED BY <2>2, <2>3
<1>13. units[h] > 0
  OBVIOUS
<1>14. \A g \in Good : units[g] = IF g = h THEN 1 ELSE 0
  OBVIOUS
<1> HIDE DEF units, final
<1>15. /\ q.type = "exchange" /\ q.base = b /\ q.group = n /\ q.status = "paid" /\ q.at = clock
       /\ q.units = units /\ q.final = final /\ q.payable = price
  BY <1>8
<1>16. q \in PaperRecord
  BY <1>5, <1>7, <1>8, <1>9, <1>10, PapersFacts DEF PaperRecord
<1>17. Priced(q)
  BY <1>11, <1>12, <1>13, <1>15 DEF Priced, GoodsOf
<1> DEFINE ps == Append(papers, p)
           qs == Append(ps, q)
<1>18. /\ Added(papers, p, n, ps) /\ ps \in Seq(PaperRecord) /\ Len(ps) = n
  BY <1>6, PapersFacts, OneMore DEF Added
<1>19. papers \o <<p, q>> = qs
  BY <1>6, <1>16, PapersFacts
<1> HIDE DEF ps
<1>20. Added(ps, q, n + 1, qs)
  BY <1>16, <1>18, OneMore
<1>21. Booked(ps) /\ Grows(papers, ps, clock) /\ b \in DOMAIN ps /\ ps[b] = papers[b]
  BY <1>6, <1>18 DEF ps, Added
<1>22. Booked(qs)
  <2>1. ps[b].type = "sale" /\ Live(ps, b)
    BY <1>6, <1>21 DEF Live
  <2> QED BY <1>9, <1>15, <1>16, <1>17, <1>21, <2>1, OneMoreBooked
<1>23. AllPaired(qs)
  BY <1>6, <1>15, <1>16, PapersFacts, TwoMorePaired DEF ps
<1> HIDE DEF qs
<1>24. /\ Len(qs) <= MaxPapers /\ b \in DOMAIN qs /\ Live(qs, b) /\ Grows(papers, qs, clock)
  <2>1. Len(qs) = n + 1 /\ b \in DOMAIN qs /\ qs[b] = papers[b]
    BY <1>20, <1>21 DEF Added
  <2>2. Grows(papers, qs, clock)
    BY <1>15, <1>18, <1>20 , <1>21 DEF Added, Grows, Live
  <2> QED BY <1>4, <1>5, <1>6, <2>1, <2>2, Clocks DEF Live
<1>25. held \in [Good -> Nat]
       /\ \A g \in Good : held[g] = onHand[g] + p.units[g] - q.units[g]
  BY <1>1, <1>6, <1>7, <1>14, <1>15, PapersFacts
<1> HIDE DEF held
<1>26. ASSUME NEW g \in Good
       PROVE  held[g] + Out(qs, g) + In(papers, g) = onHand[g] + Out(papers, g) + In(qs, g)
  <2>1. Out(ps, g) = Out(papers, g) + 0 /\ In(ps, g) = In(papers, g) + p.units[g]
    BY <1>6, PapersFacts, OneMoreSums DEF ps
  <2>2. Out(qs, g) = Out(ps, g) + q.units[g] /\ In(qs, g) = In(ps, g) + 0
    BY <1>15, <1>16, <1>18, OneMoreSums DEF qs
  <2>3. /\ Out(papers, g) \in Nat /\ In(papers, g) \in Nat /\ onHand[g] \in Nat
        /\ p.units[g] \in Nat /\ q.units[g] \in Nat
    BY <1>1, <1>6, <1>10, <1>15, PapersFacts, OutInTypes
  <2> QED BY <1>25, <2>1, <2>2, <2>3
<1>27. Successor(qs, held)
  BY <1>22, <1>23, <1>24, <1>25, <1>26 DEF Successor
<1>28. Successor(BaseRefreshed(qs, b), held)
  BY <1>24, <1>27, RefreshedSuccessor
<1> QED BY <1>4, <1>19, <1>28, RecordKeeps

LEMMA RemoveKeeps ==
    ASSUME PapersInv, NEW c \in Clerk, RemoveOrder(c)
    PROVE  PapersInv'
<1> DEFINE docs == desk[c].docs
           base == papers[CHOOSE i \in docs : TRUE].base
           cs == CancelledIn(papers, docs)
           held == Reversed(docs)
<1>1. /\ desk[c].step = "remove" /\ Claimed(docs) /\ \A g \in Good : held[g] >= 0
      /\ Record(c, IF base = NoPaper THEN cs ELSE BaseRefreshed(cs, base), held)
  BY DEF RemoveOrder, CancelledIn
<1>2. Removable(papers, docs)
  <2>1. ClerkHolds(desk[c])
    BY DEF PapersInv
  <2> QED BY <1>1, <2>1 DEF ClerkHolds
<1>3. docs \in SUBSET DOMAIN papers /\ docs # {}
      /\ \A i \in docs : Live(papers, i) /\ (papers[i].base = NoPaper => LiveChildren(papers, i) = {})
  BY <1>1, <1>2 DEF Removable, Claimed
<1>4. PICK d \in docs : base = papers[d].base
  BY <1>3
<1>5. \A i \in docs : papers[i].base = base
  BY <1>2, <1>4 DEF Removable
<1> DEFINE back(g) == SumOver(UnitColumn(papers, g), {i \in docs : papers[i].type = "return"})
           gone(g) == SumOver(UnitColumn(papers, g), {i \in docs : papers[i].type # "return"})
<1>6. held = [g \in Good |-> onHand[g] + gone(g) - back(g)]
  BY DEF Reversed, UnitColumn
<1> HIDE DEF docs, base, cs, held
<1>7. Struck(papers, docs, cs)
  BY <1>3, PapersFacts, CancelledStruck DEF cs
<1>8. Booked(cs)
  BY <1>3, <1>7, PapersFacts, StruckBooked
<1>9. AllPaired(cs)
  BY <1>2, <1>7, PapersFacts, StruckPaired DEF Removable
<1>10. Len(cs) <= MaxPapers /\ Grows(papers, cs, clock)
  BY <1>7, PapersFacts DEF Struck, Grows
<1>11. ASSUME NEW g \in Good
       PROVE  /\ Out(papers, g) = Out(cs, g) + gone(g) /\ In(papers, g) = In(cs, g) + back(g)
              /\ Out(papers, g) \in Nat /\ Out(cs, g) \in Nat
              /\ In(papers, g) \in Nat /\ In(cs, g) \in Nat
              /\ gone(g) \in Nat /\ back(g) \in Nat
  BY <1>3, <1>7, PapersFacts, StruckSums
<1> HIDE DEF back, gone
<1>12. \A g \in Good : held[g] = onHand[g] + gone(g) - back(g)
  BY <1>6
<1>13. held \in [Good -> Nat]
  <2>1. \A g \in Good : onHand[g] \in Nat
    BY PapersFacts
  <2>2. \A g \in Good : held[g] \in Nat
    BY <1>1, <1>11, <1>12, <2>1
  <2>3. held = [g \in Good |-> held[g]]
    BY <1>6
  <2> QED BY <2>2, <2>3
<1>14. ASSUME NEW g \in Good
       PROVE  held[g] + Out(cs, g) + In(papers, g) = onHand[g] + Out(papers, g) + In(cs, g)
  <2>1. onHand[g] \in Nat
    BY PapersFacts
  <2> QED BY <1>11, <1>12, <2>1
<1>15. Successor(cs, held)
  BY <1>8, <1>9, <1>10, <1>13, <1>14 DEF Successor
<1>16. CASE base = NoPaper
  BY <1>1, <1>15, <1>16, RecordKeeps
<1>17. CASE base # NoPaper
  <2>1. OfSale(papers, d) /\ Live(papers, d) /\ d \in DOMAIN papers
    BY <1>3, PapersFacts DEF Booked
  <2>2. base \in DOMAIN papers /\ papers[base].type = "sale" /\ Live(papers, base)
    BY <1>4, <1>17, <2>1 DEF OfSale
  <2>3. papers[base].base = NoPaper
    <3>1. OfSale(papers, base)
      BY <2>2, PapersFacts DEF Booked
    <3> QED BY <2>2, <3>1 DEF OfSale
  <2>4. base \in DOMAIN cs /\ Live(cs, base)
    BY <1>5, <1>7, <1>17, <2>2, <2>3 DEF Struck
  <2>5. Successor(BaseRefreshed(cs, base), held)
    BY <1>15, <2>4, RefreshedSuccessor
  <2> QED BY <1>1, <1>17, <2>5, RecordKeeps
<1> QED BY <1>16, <1>17

\* A step that leaves the papers and the shelf alone.
LEMMA PapersStand ==
    ASSUME PapersInv, UNCHANGED <<papers, moves, onHand, books, raced, behind>>,
           desk' \in [Clerk -> ClerkRecord], redates' \in 0 .. MaxRedates,
           clock' \in Minutes, clock <= clock',
           \A k \in Clerk : ClerkHolds(desk[k])'
    PROVE  PapersInv'
<1>1. AdjustmentsTypeOK'
  BY DEF PapersInv, AdjustmentsTypeOK
<1>2. NotAhead(papers', clock')
  <2>1. \A i \in DOMAIN papers : papers[i].at \in Nat /\ papers[i].at <= clock + Ahead
    BY PapersFacts, PaperFields, Clocks DEF NotAhead
  <2>2. clock \in Nat /\ clock' \in Nat
    BY PapersFacts, Clocks
  <2> QED BY <2>1, <2>2 DEF NotAhead, Ahead
<1>3. DatesInOrder'
  BY DEF PapersInv, DatesInOrder
<1>4. Shelved'
  BY DEF PapersInv, Shelved, Flow, Shifted
<1> QED BY <1>1, <1>2, <1>3, <1>4 DEF PapersInv

\* A request that begins, moves on or ends without writing.
LEMMA OneRequest ==
    ASSUME PapersInv, NEW c \in Clerk, NEW r \in ClerkRecord, desk' = [desk EXCEPT ![c] = r],
           UNCHANGED <<papers, moves, onHand, books, clock, raced, behind>>,
           redates' \in 0 .. MaxRedates, ClerkHolds(r)
    PROVE  PapersInv'
<1>1. desk' \in [Clerk -> ClerkRecord]
  BY PapersFacts
<1>2. ASSUME NEW k \in Clerk PROVE ClerkHolds(desk[k])'
  <2>1. desk'[k] = IF k = c THEN r ELSE desk[k]
    BY PapersFacts
  <2>2. ClerkHolds(desk[k])
    BY DEF PapersInv
  <2>3. PICK s : s = desk'[k]
    OBVIOUS
  <2>4. ClerkHolds(s)
    BY <2>1, <2>2, <2>3
  <2>5. /\ s.step = "remove" => Removable(papers', s.docs)
        /\ s.step \in {"redate", "dated"} => RedateHolds(papers', clock', s)
        /\ s.step = "dated" =>
              (~s.moved => s.books = Aggregates([papers' EXCEPT ![s.paper].at = s.at]))
    BY <2>4 DEF ClerkHolds
  <2> QED BY <2>3, <2>5 DEF ClerkHolds
<1>3. clock' \in Minutes /\ clock <= clock'
  BY PapersFacts
<1> QED BY <1>1, <1>2, <1>3, PapersStand

LEMMA BeginRemoveKeeps ==
    ASSUME PapersInv, NEW c \in Clerk, NEW i \in DOMAIN papers, BeginRemoveOrder(c, i)
    PROVE  PapersInv'
<1>1. PICK docs : docs = IF papers[i].base = NoPaper THEN {i} ELSE GroupOf(i)
  OBVIOUS
<1>2. PICK r : r = [step |-> "remove", docs |-> docs]
  OBVIOUS
<1>3. r.step = "remove" /\ r.docs = docs
  BY <1>2
<1>4. Removable(papers, docs)
  BY <1>1, PapersFacts, GroupRemovable DEF BeginRemoveOrder
<1>5. docs \in SUBSET Ids
  BY <1>4, PapersFacts DEF Removable
<1>6. r \in ClerkRecord
  BY <1>2, <1>5 DEF ClerkRecord
<1>7. ClerkHolds(r)
  BY <1>3, <1>4 DEF ClerkHolds
<1>8. redates' \in 0 .. MaxRedates
  BY DEF BeginRemoveOrder, PapersInv, AdjustmentsTypeOK
<1> QED BY <1>1, <1>2, <1>6, <1>7, <1>8, OneRequest DEF BeginRemoveOrder

\* What a change of a date has seen.
LEMMA RelativesType ==
    ASSUME PapersInv, NEW i \in DOMAIN papers
    PROVE  Relatives(i) \in SUBSET (Ids \X Minutes)
<1>1. \A j \in DOMAIN papers : j \in Ids /\ papers[j].at \in Minutes
  BY PapersFacts, PaperFields
<1> QED BY <1>1 DEF Relatives, LiveChildren, Children

LEMMA BeginRedateKeeps ==
    ASSUME PapersInv, NEW c \in Clerk, NEW i \in DOMAIN papers, NEW at \in Minutes,
           BeginRedate(c, i, at)
    PROVE  PapersInv'
<1>1. PICK r : r = [step |-> "redate", paper |-> i, at |-> at, seen |-> Relatives(i)]
  OBVIOUS
<1>2. r.step = "redate" /\ r.paper = i /\ r.at = at /\ r.seen = Relatives(i)
  BY <1>1
<1>3. r \in ClerkRecord
  BY <1>1, RelativesType, PapersFacts DEF ClerkRecord
<1>4. RedateHolds(papers, clock, r)
  <2>1. at <= clock + Ahead /\ Ordered(i, at)
    BY DEF BeginRedate
  <2>2. ASSUME NEW x \in Relatives(i)
        PROVE  /\ x[1] \in DOMAIN papers
               /\ papers[x[1]].base = i => at <= x[2]
               /\ papers[i].base = x[1] => at >= x[2]
    <3>1. PICK j \in LiveChildren(papers, i) \cup {k \in DOMAIN papers : k = papers[i].base} :
             x = <<j, papers[j].at>>
      BY DEF Relatives
    <3>2. x[1] = j /\ x[2] = papers[j].at /\ j \in DOMAIN papers /\ j # NoPaper
      BY <3>1, PapersFacts DEF LiveChildren, Children, NoPaper
    <3>3. ASSUME papers[j].base = i PROVE at <= papers[j].at
      <4>1. CASE j \in LiveChildren(papers, i)
        BY <2>1, <4>1 DEF Ordered
      <4>2. CASE j = papers[i].base
        <5>1. OfSale(papers, i) /\ OfSale(papers, j)
          BY <3>2, PapersFacts DEF Booked
        <5>2. papers[j].base = NoPaper
          BY <3>2, <4>2, <5>1 DEF OfSale
        <5>3. i # NoPaper
          BY PapersFacts DEF NoPaper
        <5> QED BY <3>3, <5>2, <5>3
      <4> QED BY <3>1, <4>1, <4>2
    <3>4. ASSUME papers[i].base = j PROVE at >= papers[j].at
      BY <2>1, <3>2, <3>4 DEF Ordered
    <3> QED BY <3>2, <3>3, <3>4
  <2> QED BY <1>2, <2>1, <2>2 DEF RedateHolds
<1>5. ClerkHolds(r)
  BY <1>2, <1>4 DEF ClerkHolds
<1>6. redates' \in 0 .. MaxRedates
  BY AdjustmentsAssumption DEF BeginRedate, PapersInv, AdjustmentsTypeOK
<1> QED BY <1>1, <1>3, <1>5, <1>6, OneRequest DEF BeginRedate

LEMMA RedateKeeps ==
    ASSUME PapersInv, NEW c \in Clerk, Redate(c)
    PROVE  PapersInv'
<1>1. PICK r : r = desk[c]
  OBVIOUS
<1>2. r.step = "redate" /\ r \in ClerkRecord /\ ClerkHolds(r)
  BY <1>1, PapersFacts DEF Redate, PapersInv
<1>3. r \in [step : {"redate"}, paper : Ids, at : Minutes, seen : SUBSET (Ids \X Minutes)]
  BY <1>2, ClerkCases
<1>4. PICK total : total = Aggregates([papers EXCEPT ![r.paper].at = r.at])
  OBVIOUS
<1>5. PICK s : s = [step |-> "dated", paper |-> r.paper, at |-> r.at, seen |-> r.seen,
                    moved |-> FALSE, books |-> total]
  OBVIOUS
<1>6. /\ s.step = "dated" /\ s.paper = r.paper /\ s.at = r.at /\ s.seen = r.seen
      /\ s.books = total
  BY <1>5
<1>7. RedateHolds(papers, clock, r) /\ r.paper \in DOMAIN papers
  BY <1>2 DEF ClerkHolds, RedateHolds
<1>8. total \in BooksRecord
  <2>1. [papers EXCEPT ![r.paper].at = r.at] \in Seq(PaperRecord)
    BY <1>3, <1>7, PapersFacts, RedatedAlike DEF RedatedIn
  <2> QED BY <1>4, <2>1, AggregatesType
<1>9. s \in ClerkRecord
  BY <1>3, <1>5, <1>8 DEF ClerkRecord
<1>10. RedateHolds(papers, clock, s)
  BY <1>6, <1>7 DEF RedateHolds
<1>11. ClerkHolds(s)
  BY <1>4, <1>6, <1>10 DEF ClerkHolds
<1>12. redates' \in 0 .. MaxRedates
  BY DEF Redate, PapersInv, AdjustmentsTypeOK
<1>13. desk' = [desk EXCEPT ![c] = s]
  BY <1>1, <1>4, <1>5 DEF Redate
<1> QED BY <1>9, <1>11, <1>12, <1>13, OneRequest DEF Redate

LEMMA GiveUpKeeps ==
    ASSUME PapersInv, NEW c \in Clerk, GiveUp(c)
    PROVE  PapersInv'
<1>1. Waiting \in ClerkRecord /\ ClerkHolds(Waiting)
  BY DEF ClerkRecord, ClerkHolds, Waiting
<1>2. redates' \in 0 .. MaxRedates
  BY DEF GiveUp, PapersInv, AdjustmentsTypeOK
<1> QED BY <1>1, <1>2, OneRequest DEF GiveUp

\* A date is changed: no paper of the sale moved past it since it was checked, or the
\* paper is noted.
LEMMA CommitKeeps ==
    ASSUME PapersInv, NEW c \in Clerk, CommitRedate(c)
    PROVE  PapersInv'
<1>1. PICK r : r = desk[c]
  OBVIOUS
<1>2. r.step = "dated" /\ r \in ClerkRecord /\ ClerkHolds(r)
  BY <1>1, PapersFacts DEF CommitRedate, PapersInv
<1>3. r \in [step : {"dated"}, paper : Ids, at : Minutes, seen : SUBSET (Ids \X Minutes),
             moved : BOOLEAN, books : BooksRecord]
  BY <1>2, ClerkCases
<1>4. PICK i : i = r.paper
  OBVIOUS
<1>5. PICK qs : qs = [papers EXCEPT ![i].at = r.at]
  OBVIOUS
<1>6. /\ papers' = qs /\ books' = r.books /\ behind' = r.moved
      /\ raced' = (IF Relatives(i) = r.seen THEN raced ELSE raced \cup {i})
      /\ Finish(c) /\ moves' = moves /\ onHand' = onHand /\ clock' = clock /\ redates' = redates
  BY <1>1, <1>4, <1>5 DEF CommitRedate
<1>7. RedateHolds(papers, clock, r) /\ i \in DOMAIN papers
      /\ (~r.moved => r.books = Aggregates(qs))
  BY <1>2, <1>4, <1>5 DEF ClerkHolds, RedateHolds
<1>8. /\ qs \in Seq(PaperRecord) /\ Alike(papers, qs) /\ Len(qs) = Len(papers)
      /\ qs[i].at = r.at /\ \A j \in DOMAIN papers \ {i} : qs[j].at = papers[j].at
      /\ DOMAIN qs = DOMAIN papers
  <2>1. PICK t \in Minutes : t = r.at
    BY <1>3
  <2>3. qs = RedatedIn(papers, i, t)
    BY <1>5, <2>1 DEF RedatedIn
  <2>4. papers \in Seq(PaperRecord)
    BY PapersFacts
  <2>5. /\ qs \in Seq(PaperRecord) /\ Alike(papers, qs) /\ Len(qs) = Len(papers)
        /\ qs[i].at = t /\ \A j \in DOMAIN papers \ {i} : qs[j].at = papers[j].at
    BY <1>7, <2>3, <2>4, RedatedAlike
  <2>2. /\ qs \in Seq(PaperRecord) /\ Alike(papers, qs) /\ Len(qs) = Len(papers)
        /\ qs[i].at = r.at /\ \A j \in DOMAIN papers \ {i} : qs[j].at = papers[j].at
    BY <2>1, <2>5
  <2> QED BY <2>2 DEF Alike
<1>9. Booked(qs) /\ AllPaired(qs)
  BY <1>8, PapersFacts, AlikeBooked, AlikePaired
<1>10. AdjustmentsTypeOK'
  <2>1. desk' \in [Clerk -> ClerkRecord]
    BY <1>6, PapersFacts, FinishDesk
  <2>2. books' \in BooksRecord /\ behind' \in BOOLEAN
    BY <1>3, <1>6
  <2>3. raced' \subseteq Ids
    BY <1>6, <1>7, PapersFacts DEF PapersInv, AdjustmentsTypeOK
  <2> QED BY <1>6, <1>8, <2>1, <2>2, <2>3 DEF AdjustmentsTypeOK, PapersInv
<1>11. NotAhead(qs, clock)
  BY <1>7, <1>8, PapersFacts DEF NotAhead, RedateHolds
<1>12. DatesInOrder'
  <2> SUFFICES ASSUME NEW k \in DOMAIN qs, NEW b, b = qs[k].base, b # NoPaper, Live(qs, k),
                      {k, b} \cap raced' = {}
               PROVE  qs[k].at + Ahead >= qs[b].at
    BY <1>6 DEF DatesInOrder
  <2>1. papers[k].base = b /\ Live(papers, k) /\ k \in DOMAIN papers
    BY <1>8 DEF Alike
  <2>2. OfSale(papers, k) /\ b \in DOMAIN papers /\ papers[b].type = "sale"
    BY <2>1, PapersFacts DEF Booked, OfSale
  <2>3. b # k
    <3>1. OfSale(papers, b)
      BY <2>2, PapersFacts DEF Booked
    <3> QED BY <2>1, <2>2, <3>1 DEF OfSale
  <2>4. {k, b} \cap raced = {} /\ (i \in {k, b} => Relatives(i) = r.seen)
    BY <1>6
  <2>5. papers[k].at \in Nat /\ papers[b].at \in Nat /\ r.at \in Nat
    BY <1>3, <2>1, <2>2, PapersFacts, PaperFields, Clocks
  <2>6. CASE i \notin {k, b}
    BY <1>8, <2>1, <2>2, <2>4, <2>6 DEF PapersInv, DatesInOrder
  <2>7. CASE i = k
    <3>1. <<b, papers[b].at>> \in r.seen
      BY <2>1, <2>2, <2>4, <2>7 DEF Relatives
    <3>2. r.at >= papers[b].at
      <4>1. PICK x \in r.seen : x[1] = b /\ x[2] = papers[b].at
        BY <3>1
      <4> QED BY <1>4, <1>7, <2>1, <2>7, <4>1 DEF RedateHolds
    <3>3. qs[k].at = r.at /\ qs[b].at = papers[b].at
      BY <1>8, <2>2, <2>3, <2>7
    <3> QED BY <2>5, <3>2, <3>3 DEF Ahead
  <2>8. CASE i = b
    <3>1. <<k, papers[k].at>> \in r.seen
      BY <2>1, <2>4, <2>8 DEF Relatives, LiveChildren, Children
    <3>2. r.at <= papers[k].at
      <4>1. PICK x \in r.seen : x[1] = k /\ x[2] = papers[k].at
        BY <3>1
      <4> QED BY <1>4, <1>7, <2>1, <2>8, <4>1 DEF RedateHolds
    <3>3. qs[b].at = r.at /\ qs[k].at = papers[k].at
      BY <1>8, <2>1, <2>3, <2>8
    <3> QED BY <2>5, <3>2, <3>3 DEF Ahead
  <2> QED BY <2>6, <2>7, <2>8
<1>13. Shelved'
  <2>1. \A g : Out(qs, g) = Out(papers, g) /\ In(qs, g) = In(papers, g)
    BY <1>8, AlikeSums
  <2>2. \A g, way : Flow(g, MoveTypes, way, 0)' = Flow(g, MoveTypes, way, 0)
    BY <1>6 DEF Flow, Shifted
  <2> SUFFICES ASSUME NEW g \in Good
               PROVE  onHand[g] + Out(qs, g) + Flow(g, MoveTypes, "out", 0)' =
                          OpeningStock + In(qs, g) + Flow(g, MoveTypes, "in", 0)'
    BY <1>6 DEF Shelved
  <2>3. onHand[g] + Out(papers, g) + Flow(g, MoveTypes, "out", 0) =
            OpeningStock + In(papers, g) + Flow(g, MoveTypes, "in", 0)
    BY DEF PapersInv, Shelved
  <2>4. Out(qs, g) = Out(papers, g) /\ In(qs, g) = In(papers, g)
    BY <2>1
  <2>5. /\ Flow(g, MoveTypes, "out", 0)' = Flow(g, MoveTypes, "out", 0)
        /\ Flow(g, MoveTypes, "in", 0)' = Flow(g, MoveTypes, "in", 0)
    BY <2>2
  <2> QED BY <2>3, <2>4, <2>5
<1>14. \A k \in Clerk : ClerkHolds(desk[k])'
  <2>1. KeepsBases(papers, papers')
    BY <1>6, <1>8 DEF KeepsBases, Alike
  <2> QED BY <1>6, <2>1, PapersFacts, RequestsKept DEF PapersInv
<1>15. ~behind' => books' = Aggregates(papers')
  BY <1>6, <1>7
<1> QED BY <1>6, <1>9, <1>10, <1>11, <1>12, <1>13, <1>14, <1>15 DEF PapersInv

-----------------------------------------------------------------------------
(* Deliveries and the clock.                                               *)

LEMMA FlowNext ==
    ASSUME moves \in Seq(MoveRecord), NEW m \in MoveRecord,
           moves' = Append(moves, m), NEW g, NEW way
    PROVE  Flow(g, MoveTypes, way, 0)' =
               Flow(g, MoveTypes, way, 0) + IF m.good = g /\ m.way = way THEN 1 ELSE 0
<1> DEFINE n == Len(moves) + 1
           old == {k \in Shifted(MoveTypes, way) : moves[k].good = g /\ moves[k].at >= 0}
           new == {k \in Shifted(MoveTypes, way)' : moves'[k].good = g /\ moves'[k].at >= 0}
<1>1. /\ DOMAIN moves = 1 .. Len(moves) /\ Len(moves) \in Nat
      /\ DOMAIN moves' = DOMAIN moves \cup {n} /\ n \notin DOMAIN moves
      /\ moves'[n] = m /\ \A k \in DOMAIN moves : moves'[k] = moves[k]
  OBVIOUS
<1>2. m.at >= 0 /\ m.type \in MoveTypes
  <2>1. m.at \in Minutes /\ m.type \in MoveTypes
    BY DEF MoveRecord
  <2> QED BY <2>1, Clocks
<1>3. IsFiniteSet(DOMAIN moves)
  BY <1>1, FS_Interval
<1>4. IsFiniteSet(old) /\ Cardinality(old) \in Nat /\ old \in SUBSET DOMAIN moves
  <2>1. old \in SUBSET DOMAIN moves
    BY DEF Shifted
  <2> HIDE DEF old
  <2> QED BY <1>3, <2>1, FS_Subset, FS_CardinalityType
<1>5. Flow(g, MoveTypes, way, 0) = Cardinality(old)
      /\ Flow(g, MoveTypes, way, 0)' = Cardinality(new)
  BY DEF Flow
<1>6. /\ old = {k \in DOMAIN moves : moves[k].type \in MoveTypes /\ moves[k].way = way
                                        /\ moves[k].good = g /\ moves[k].at >= 0}
      /\ new = {k \in DOMAIN moves' : moves'[k].type \in MoveTypes /\ moves'[k].way = way
                                        /\ moves'[k].good = g /\ moves'[k].at >= 0}
  BY DEF Shifted
<1> HIDE DEF new, old, n
<1>7. CASE m.good = g /\ m.way = way
  <2>1. new = old \cup {n} /\ n \notin old
    BY <1>1, <1>2, <1>6, <1>7
  <2>2. Cardinality(old \cup {n}) = Cardinality(old) + 1
    BY <1>4, <2>1, FS_AddElement
  <2> QED BY <1>5, <1>7, <2>1, <2>2
<1>8. CASE ~(m.good = g /\ m.way = way)
  <2>1. new = old
    BY <1>1, <1>6, <1>8
  <2> QED BY <1>4, <1>5, <1>8, <2>1
<1> QED BY <1>7, <1>8

LEMMA MoveKeeps ==
    ASSUME PapersInv, NEW d \in Deliveries, Move(d)
    PROVE  PapersInv'
<1>1. d \in Delivery
  BY AdjustmentsAssumption
<1>2. PICK m : m = [type |-> d.type, good |-> d.good, way |-> d.way, at |-> clock]
  OBVIOUS
<1>3. /\ m \in MoveRecord /\ m.way = d.way /\ m.good = d.good
      /\ d.good \in Good /\ d.way \in {"in", "out"}
  BY <1>1, <1>2, PapersFacts DEF Delivery, MoveRecord
<1>4. /\ moves' = Append(moves, m)
      /\ onHand' = [onHand EXCEPT ![d.good] = IF d.way = "in" THEN @ + 1 ELSE @ - 1]
      /\ d.way = "out" => onHand[d.good] > 0
      /\ UNCHANGED <<papers, books, desk, clock, redates, raced, behind>>
  BY <1>2 DEF Move
<1>6. moves \in Seq(MoveRecord)
  BY DEF PapersInv, AdjustmentsTypeOK
<1>7. onHand' \in [Good -> Nat]
      /\ \A g \in Good : onHand'[g] = onHand[g] +
            IF g = d.good THEN IF d.way = "in" THEN 1 ELSE 0 - 1 ELSE 0
  <2>1. onHand \in [Good -> Nat]
    BY PapersFacts
  <2>2. CASE d.way = "in"
    <3>1. onHand' = [onHand EXCEPT ![d.good] = @ + 1]
      BY <1>4, <2>2
    <3> QED BY <1>3, <2>1, <2>2, <3>1
  <2>3. CASE d.way = "out"
    <3>1. onHand' = [onHand EXCEPT ![d.good] = @ - 1] /\ onHand[d.good] > 0
      BY <1>4, <2>3
    <3> QED BY <1>3, <2>1, <2>3, <3>1
  <2> QED BY <1>3, <2>2, <2>3
<1>8. AdjustmentsTypeOK'
  <2>1. moves' \in Seq(MoveRecord)
    BY <1>3, <1>4, <1>6
  <2> QED BY <1>4, <1>7, <2>1 DEF AdjustmentsTypeOK, PapersInv
<1>9. Shelved'
  <2> SUFFICES ASSUME NEW g \in Good
               PROVE  onHand'[g] + Out(papers, g) + Flow(g, MoveTypes, "out", 0)' =
                          OpeningStock + In(papers, g) + Flow(g, MoveTypes, "in", 0)'
    BY <1>4 DEF Shelved
  <2>1. onHand[g] + Out(papers, g) + Flow(g, MoveTypes, "out", 0) =
            OpeningStock + In(papers, g) + Flow(g, MoveTypes, "in", 0)
    BY DEF PapersInv, Shelved
  <2>2. /\ Flow(g, MoveTypes, "out", 0)' = Flow(g, MoveTypes, "out", 0)
              + IF m.good = g /\ m.way = "out" THEN 1 ELSE 0
        /\ Flow(g, MoveTypes, "in", 0)' = Flow(g, MoveTypes, "in", 0)
              + IF m.good = g /\ m.way = "in" THEN 1 ELSE 0
    BY <1>3, <1>4, <1>6, FlowNext
  <2>3. /\ onHand[g] \in Nat /\ OpeningStock \in Nat
        /\ Out(papers, g) \in Nat /\ In(papers, g) \in Nat
        /\ Flow(g, MoveTypes, "out", 0) \in Nat /\ Flow(g, MoveTypes, "in", 0) \in Nat
    BY <1>6, PapersFacts, OutInTypes, FlowType, AdjustmentsAssumption
  <2>4. onHand'[g] = onHand[g] + IF g = d.good THEN IF d.way = "in" THEN 1 ELSE 0 - 1 ELSE 0
    BY <1>7
  <2>5. CASE g = d.good /\ d.way = "in"
    BY <1>3, <2>1, <2>2, <2>3, <2>4, <2>5
  <2>6. CASE g = d.good /\ d.way = "out"
    BY <1>3, <2>1, <2>2, <2>3, <2>4, <2>6
  <2>7. CASE g # d.good
    BY <1>3, <2>1, <2>2, <2>3, <2>4, <2>7
  <2> QED BY <1>3, <2>5, <2>6, <2>7
<1>10. \A k \in Clerk : ClerkHolds(desk[k])'
  BY <1>4 DEF PapersInv, ClerkHolds, RedateHolds
<1>11. NotAhead(papers', clock') /\ DatesInOrder' /\ (~behind' => books' = Aggregates(papers'))
       /\ Booked(papers') /\ AllPaired(papers')
  BY <1>4 DEF PapersInv, DatesInOrder
<1> QED BY <1>8, <1>9, <1>10, <1>11 DEF PapersInv

LEMMA TickKeeps ==
    ASSUME PapersInv, Tick
    PROVE  PapersInv'
<1>1. /\ clock < LastMinute /\ clock' = clock + 1
      /\ UNCHANGED <<papers, moves, onHand, books, desk, redates, raced, behind>>
  BY DEF Tick
<1>2. clock' \in Minutes /\ clock <= clock' /\ clock \in Nat /\ clock' \in Nat
  BY <1>1, PapersFacts, Clocks
<1>3. desk' \in [Clerk -> ClerkRecord] /\ redates' \in 0 .. MaxRedates
  BY <1>1 DEF PapersInv, AdjustmentsTypeOK
<1>4. ASSUME NEW k \in Clerk PROVE ClerkHolds(desk[k])'
  <2>1. PICK r : r = desk[k]
    OBVIOUS
  <2>2. ClerkHolds(r) /\ r \in ClerkRecord
    BY <2>1, PapersFacts DEF PapersInv
  <2>3. r.step \in {"redate", "dated"} => RedateHolds(papers, clock, r) /\ r.at \in Nat
    BY <2>2, ClerkCases, Clocks DEF ClerkHolds
  <2>4. r.step \in {"redate", "dated"} => RedateHolds(papers, clock', r)
    <3>1. KeepsBases(papers, papers)
      BY DEF KeepsBases
    <3> QED BY <1>2, <2>3, <3>1, RedateKept
  <2>5. r = desk'[k] /\ papers' = papers
    BY <1>1, <2>1
  <2> QED BY <2>2, <2>4, <2>5 DEF ClerkHolds
<1> QED BY <1>1, <1>2, <1>3, <1>4, PapersStand

-----------------------------------------------------------------------------
LEMMA PapersBegin ==
    ASSUME AdjustmentsInit
    PROVE  PapersInv
<1>1. /\ papers = <<>> /\ moves = <<>> /\ onHand = [g \in Good |-> OpeningStock]
      /\ books = [total |-> 0, visits |-> 0, last |-> 0]
      /\ desk = [c \in Clerk |-> Waiting]
      /\ clock = 0 /\ redates = 0 /\ raced = {} /\ behind = FALSE
  BY DEF AdjustmentsInit
<1>2. 0 \in Minutes /\ Waiting \in ClerkRecord
  BY Clocks DEF ClerkRecord
<1>3. AdjustmentsTypeOK
  <2>1. books \in BooksRecord
    BY <1>1, <1>2 DEF BooksRecord
  <2>2. desk \in [Clerk -> ClerkRecord]
    BY <1>1, <1>2
  <2>3. onHand \in [Good -> Nat] /\ redates \in 0 .. MaxRedates
    BY <1>1, AdjustmentsAssumption
  <2>4. papers \in Seq(PaperRecord) /\ Len(papers) <= MaxPapers
    BY <1>1, Clocks
  <2>5. moves \in Seq(MoveRecord)
    BY <1>1
  <2> QED BY <1>1, <1>2, <2>1, <2>2, <2>3, <2>4, <2>5 DEF AdjustmentsTypeOK
<1>4. DOMAIN papers = {} /\ papers \in Seq(PaperRecord)
  BY <1>1
<1>5. Booked(papers) /\ AllPaired(papers) /\ NotAhead(papers, clock) /\ DatesInOrder
  BY <1>4 DEF Booked, AllPaired, NotAhead, DatesInOrder
<1>6. Purchases(papers) = {} /\ \A types : LiveOfType(papers, types) = {}
  BY <1>4 DEF Purchases, LiveOfType
<1>7. books = Aggregates(papers)
  <2> DEFINE amount == [i \in DOMAIN papers |-> papers[i].payable]
             dates == {papers[i].at : i \in Purchases(papers)}
             latest == CHOOSE t \in dates : \A i \in Purchases(papers) : papers[i].at <= t
  <2>1. Aggregates(papers) =
          [total |-> Positive(SumOver(amount, Purchases(papers))
                                - SumOver(amount, LiveOfType(papers, {"return"}))),
           visits |-> Cardinality(Purchases(papers)),
           last |-> IF Purchases(papers) = {} THEN 0 ELSE latest]
    BY DEF Aggregates
  <2> HIDE DEF amount, latest, dates
  <2>2. SumOver(amount, Purchases(papers)) = 0 /\ SumOver(amount, LiveOfType(papers, {"return"})) = 0
        /\ Cardinality(Purchases(papers)) = 0
    BY <1>6, SumEmpty, FS_EmptySet
  <2>3. Positive(0 - 0) = 0
    BY DEF Positive
  <2> QED BY <1>1, <1>6, <2>1, <2>2, <2>3
<1>8. Shelved
  <2> SUFFICES ASSUME NEW g \in Good
               PROVE  onHand[g] + Out(papers, g) + Flow(g, MoveTypes, "out", 0) =
                          OpeningStock + In(papers, g) + Flow(g, MoveTypes, "in", 0)
    BY DEF Shelved
  <2>1. Out(papers, g) = 0 /\ In(papers, g) = 0
    BY <1>6, SumEmpty DEF Out, In
  <2>2. \A way : Flow(g, MoveTypes, way, 0) = 0
    <3>1. DOMAIN moves = {}
      BY <1>1
    <3>2. \A way : {k \in Shifted(MoveTypes, way) : moves[k].good = g
                                                        /\ moves[k].at >= 0} = {}
      BY <3>1 DEF Shifted
    <3> QED BY <3>2, FS_EmptySet DEF Flow
  <2> QED BY <1>1, <2>1, <2>2, AdjustmentsAssumption
<1>9. \A c \in Clerk : ClerkHolds(desk[c])
  BY <1>1 DEF ClerkHolds, Waiting
<1> QED BY <1>3, <1>5, <1>7, <1>8, <1>9 DEF PapersInv

LEMMA PapersStep ==
    ASSUME PapersInv, [AdjustmentsNext]_adjustmentVars
    PROVE  PapersInv'
<1>1. ASSUME NEW c \in Clerk, ClerkStep(c) PROVE PapersInv'
  <2>1. ASSUME NEW basket \in Baskets, NEW d \in Discounts, Sell(c, basket, d)
        PROVE  PapersInv'
    BY <2>1, SellKeeps
  <2>2. ASSUME NEW i \in DOMAIN papers, NEW basket \in Returned, BringBack(c, i, basket)
        PROVE  PapersInv'
    BY <2>2, BringBackKeeps
  <2>3. ASSUME NEW i \in DOMAIN papers, NEW basket \in Returned, NEW g \in Good,
               NEW cut \in Discounts, Exchange(c, i, basket, g, RetailPrice[g] - cut)
        PROVE  PapersInv'
    BY <2>3, ExchangeKeeps
  <2>4. ASSUME NEW i \in DOMAIN papers, BeginRemoveOrder(c, i) PROVE PapersInv'
    BY <2>4, BeginRemoveKeeps
  <2>5. ASSUME NEW i \in DOMAIN papers, NEW at \in Minutes, BeginRedate(c, i, at)
        PROVE  PapersInv'
    BY <2>5, BeginRedateKeeps
  <2>6. CASE RemoveOrder(c)
    BY <2>6, RemoveKeeps
  <2>7. CASE Redate(c)
    BY <2>7, RedateKeeps
  <2>8. CASE CommitRedate(c)
    BY <2>8, CommitKeeps
  <2>9. CASE GiveUp(c)
    BY <2>9, GiveUpKeeps
  <2> QED BY <1>1, <2>1, <2>2, <2>3, <2>4, <2>5, <2>6, <2>7, <2>8, <2>9 DEF ClerkStep
<1>2. ASSUME NEW d \in Deliveries, Move(d) PROVE PapersInv'
  BY <1>2, MoveKeeps
<1>3. CASE Tick
  BY <1>3, TickKeeps
<1>4. CASE UNCHANGED adjustmentVars
  <2>1. UNCHANGED <<papers, moves, onHand, books, desk, clock, redates, raced, behind>>
    BY <1>4 DEF adjustmentVars
  <2>2. \A k \in Clerk : ClerkHolds(desk[k])'
    BY <2>1 DEF PapersInv, ClerkHolds, RedateHolds
  <2>3. clock' \in Minutes /\ clock <= clock'
    BY <2>1, PapersFacts
  <2>4. desk' \in [Clerk -> ClerkRecord] /\ redates' \in 0 .. MaxRedates
    BY <2>1 DEF PapersInv, AdjustmentsTypeOK
  <2> QED BY <2>1, <2>2, <2>3, <2>4, PapersStand
<1> QED BY <1>1, <1>2, <1>3, <1>4 DEF AdjustmentsNext

-----------------------------------------------------------------------------
(* The rows of a report.                                                   *)

Earlier(S, i) == {j \in S : Before(j, i)}

LEMMA BeforeOrders ==
    ASSUME papers \in Seq(PaperRecord), NEW i \in DOMAIN papers, NEW j \in DOMAIN papers,
           NEW k \in DOMAIN papers
    PROVE  /\ ~Before(i, i)
           /\ Before(i, j) /\ Before(j, k) => Before(i, k)
           /\ i # j => Before(i, j) \/ Before(j, i)
<1>1. /\ papers[i].at \in Nat /\ papers[j].at \in Nat /\ papers[k].at \in Nat
      /\ i \in Nat /\ j \in Nat /\ k \in Nat
  BY PaperFields, Clocks
<1> QED BY <1>1 DEF Before

\* Every paper has a place of its own, by how many come before it.
LEMMA PlaceOf ==
    ASSUME papers \in Seq(PaperRecord), NEW S \in SUBSET DOMAIN papers
    PROVE  /\ IsFiniteSet(S) /\ Cardinality(S) \in Nat
           /\ \A i \in S : Cardinality(Earlier(S, i)) \in 0 .. Cardinality(S) - 1
           /\ \A i, j \in S : Before(i, j) => Cardinality(Earlier(S, i)) < Cardinality(Earlier(S, j))
           /\ \A i, j \in S : Cardinality(Earlier(S, i)) = Cardinality(Earlier(S, j)) => i = j
<1>1. IsFiniteSet(S) /\ Cardinality(S) \in Nat
  BY DomainFinite, FS_CardinalityType
<1>2. ASSUME NEW i \in S
      PROVE  /\ IsFiniteSet(Earlier(S, i)) /\ Cardinality(Earlier(S, i)) \in Nat
             /\ i \notin Earlier(S, i)
  <2>1. Earlier(S, i) \in SUBSET S
    BY DEF Earlier
  <2>2. i \notin Earlier(S, i)
    BY BeforeOrders DEF Earlier
  <2> QED BY <1>1, <2>1, <2>2, FS_Subset, FS_CardinalityType
<1>3. ASSUME NEW i \in S PROVE Cardinality(Earlier(S, i)) \in 0 .. Cardinality(S) - 1
  <2>1. Earlier(S, i) \cup {i} \in SUBSET S
    BY DEF Earlier
  <2>2. Cardinality(Earlier(S, i) \cup {i}) = Cardinality(Earlier(S, i)) + 1
    BY <1>2, FS_AddElement
  <2>3. Cardinality(Earlier(S, i) \cup {i}) <= Cardinality(S)
    BY <1>1, <2>1, FS_Subset
  <2> QED BY <1>1, <1>2, <2>2, <2>3
<1>4. ASSUME NEW i \in S, NEW j \in S, Before(i, j)
      PROVE  Cardinality(Earlier(S, i)) < Cardinality(Earlier(S, j))
  <2>1. Earlier(S, i) \cup {i} \in SUBSET Earlier(S, j)
    BY <1>4, BeforeOrders DEF Earlier
  <2>2. Cardinality(Earlier(S, i) \cup {i}) = Cardinality(Earlier(S, i)) + 1
    BY <1>2, FS_AddElement
  <2>3. Cardinality(Earlier(S, i) \cup {i}) <= Cardinality(Earlier(S, j))
    BY <1>2, <2>1, FS_Subset
  <2> QED BY <1>2, <2>2, <2>3
<1>5. ASSUME NEW i \in S, NEW j \in S, Cardinality(Earlier(S, i)) = Cardinality(Earlier(S, j))
      PROVE  i = j
  <2> SUFFICES ASSUME i # j PROVE FALSE
    OBVIOUS
  <2>1. Before(i, j) \/ Before(j, i)
    BY BeforeOrders
  <2>2. Cardinality(Earlier(S, i)) \in Nat /\ Cardinality(Earlier(S, j)) \in Nat
    BY <1>2
  <2> QED BY <1>4, <1>5, <2>1, <2>2
<1> QED BY <1>1, <1>3, <1>4, <1>5

\* Sorted lists every paper of the set once.
LEMMA SortedLists ==
    ASSUME papers \in Seq(PaperRecord), NEW S \in SUBSET DOMAIN papers
    PROVE  /\ Sorted(S) \in Bijection(1 .. Cardinality(S), S)
           /\ Sorted(S) \in Seq(S) /\ Len(Sorted(S)) = Cardinality(S)
           /\ DOMAIN Sorted(S) = 1 .. Cardinality(S) /\ Cardinality(S) \in Nat
           /\ \A k \in 1 .. Cardinality(S) : Sorted(S)[k] \in S
           /\ \A k, l \in 1 .. Cardinality(S) : Sorted(S)[k] = Sorted(S)[l] => k = l
           /\ \A i \in S : \E k \in 1 .. Cardinality(S) : Sorted(S)[k] = i
<1> DEFINE n == Cardinality(S)
           place == [i \in S |-> Cardinality(Earlier(S, i)) + 1]
<1>1. IsFiniteSet(S) /\ n \in Nat
  BY PlaceOf
<1>2. ASSUME NEW i \in S PROVE place[i] \in 1 .. n
  <2>1. Cardinality(Earlier(S, i)) \in 0 .. n - 1
    BY PlaceOf
  <2> QED BY <1>1, <2>1
<1>3. \A i, j \in S : place[i] = place[j] => i = j
  <2> SUFFICES ASSUME NEW i \in S, NEW j \in S, place[i] = place[j] PROVE i = j
    OBVIOUS
  <2>1. Cardinality(Earlier(S, i)) \in 0 .. n - 1 /\ Cardinality(Earlier(S, j)) \in 0 .. n - 1
    BY PlaceOf
  <2>2. Cardinality(Earlier(S, i)) = Cardinality(Earlier(S, j))
    BY <1>1, <2>1
  <2> QED BY <2>2, PlaceOf
<1>4. \A k \in 1 .. n : \E i \in S : place[i] = k
  <2>1. place \in Injection(S, 1 .. n)
    <3>1. place \in [S -> 1 .. n]
      BY <1>2
    <3> HIDE DEF place
    <3> QED BY <1>3, <3>1 DEF Injection, IsInjective
  <2>2. IsFiniteSet(1 .. n) /\ Cardinality(1 .. n) = n
    BY <1>1, FS_Interval
  <2>3. place \in Surjection(S, 1 .. n)
    <3> HIDE DEF place
    <3> QED BY <2>1, <2>2, FS_Injection
  <2> QED BY <2>3 DEF Surjection
<1>5. Sorted(S) = [k \in 1 .. n |-> CHOOSE i \in S : Cardinality(Earlier(S, i)) = k - 1]
  BY DEF Sorted, Earlier
<1>6. ASSUME NEW k \in 1 .. n
      PROVE  Sorted(S)[k] \in S /\ place[Sorted(S)[k]] = k
  <2>1. PICK i \in S : place[i] = k
    BY <1>4
  <2>2. Cardinality(Earlier(S, i)) = k - 1
    <3>1. Cardinality(Earlier(S, i)) \in 0 .. n - 1
      BY PlaceOf
    <3> QED BY <1>1, <2>1, <3>1
  <2>3. PICK j : j = CHOOSE x \in S : Cardinality(Earlier(S, x)) = k - 1
    OBVIOUS
  <2>4. j \in S /\ Cardinality(Earlier(S, j)) = k - 1
    BY <2>2, <2>3
  <2>5. Sorted(S)[k] = j
    BY <1>5, <2>3
  <2>6. place[j] = k
    BY <1>1, <2>4
  <2> QED BY <2>4, <2>5, <2>6
<1> HIDE DEF place, n
<1>7. DOMAIN Sorted(S) = 1 .. n /\ Sorted(S) = [k \in 1 .. n |-> Sorted(S)[k]]
  BY <1>5
<1>8. \A k \in 1 .. n : Sorted(S)[k] \in S
  BY <1>6
<1>9. \A k, l \in 1 .. n : Sorted(S)[k] = Sorted(S)[l] => k = l
  BY <1>6
<1>10. \A i \in S : \E k \in 1 .. n : Sorted(S)[k] = i
  BY <1>2, <1>3, <1>6
<1>11. Sorted(S) \in [1 .. n -> S]
  BY <1>7, <1>8
<1>12. Sorted(S) \in Bijection(1 .. n, S)
  BY <1>9, <1>10, <1>11 DEF Bijection, Injection, Surjection, IsInjective
<1>13. Sorted(S) \in Seq(S) /\ Len(Sorted(S)) = n
  BY <1>1, <1>7, <1>11
<1> QED BY <1>1, <1>7, <1>8, <1>9, <1>10, <1>12, <1>13 DEF n

LEMMA PeriodPapers ==
    ASSUME NEW from, NEW to
    PROVE  InPeriod(from, to) \in SUBSET DOMAIN papers
BY DEF InPeriod

-----------------------------------------------------------------------------
\* As long as no paper is written, what was read is the beginning of the list.
Beginning(r) ==
    LET P == InPeriod(r.from, r.to)
    IN  /\ Len(r.rows) <= Cardinality(P)
        /\ \A k \in 1 .. Len(r.rows) : r.rows[k] = Sorted(P)[k]
        /\ r.step = "read" => Len(r.rows) = Cardinality(P)

ReportHolds(r) == r # NoReport => (~r.moved => Beginning(r))

ReportInv ==
    /\ report \in {NoReport} \cup RowsRecord
    /\ ReportHolds(report)

LEMMA RowsFields ==
    ASSUME NEW r \in {NoReport} \cup RowsRecord
    PROVE  /\ r # NoReport => /\ r \in RowsRecord
                              /\ r.step \in {"reading", "read"} /\ r.from \in Minutes /\ r.to \in Minutes
                              /\ r.rows \in Seq(Ids) /\ r.moved \in BOOLEAN
                              /\ Len(r.rows) \in Nat
           /\ r = NoReport => r.step = "none"
<1>1. r # NoReport => r \in RowsRecord
  OBVIOUS
<1>2. r \in RowsRecord => /\ r.step \in {"reading", "read"} /\ r.from \in Minutes /\ r.to \in Minutes
                          /\ r.rows \in Seq(Ids) /\ r.moved \in BOOLEAN
  BY DEF RowsRecord
<1> QED BY <1>1, <1>2 DEF NoReport

\* The list is the same as long as the papers are.
SortedOf(ps, S) ==
    [k \in 1 .. Cardinality(S) |->
        CHOOSE i \in S :
            Cardinality({j \in S : ps[j].at > ps[i].at \/ (ps[j].at = ps[i].at /\ j > i)}) = k - 1]

LEMMA ReportKept ==
    ASSUME UNCHANGED papers, NEW r, ReportHolds(r), report' = r
    PROVE  ReportHolds(report)'
<1>1. \A from, to : InPeriod(from, to)' = InPeriod(from, to)
  BY DEF InPeriod
<1>2. \A S : Sorted(S)' = Sorted(S)
  <2>1. \A S : Sorted(S) = SortedOf(papers, S)
    BY DEF Sorted, SortedOf, Before
  <2>2. \A S : Sorted(S)' = SortedOf(papers', S)
    BY DEF Sorted, SortedOf, Before
  <2> QED BY <2>1, <2>2
<1> QED BY <1>1, <1>2 DEF ReportHolds, Beginning

LEMMA ReadPageKeeps ==
    ASSUME PapersInv, ReportInv, ReadPage
    PROVE  ReportInv'
<1>1. PICK r : r = report
  OBVIOUS
<1>2. r.step = "reading" /\ r \in {NoReport} \cup RowsRecord /\ ReportHolds(r)
  BY <1>1 DEF ReadPage, ReportInv
<1>3. /\ r # NoReport /\ r \in RowsRecord /\ r.from \in Minutes /\ r.to \in Minutes
      /\ r.rows \in Seq(Ids) /\ r.moved \in BOOLEAN /\ Len(r.rows) \in Nat
  BY <1>2, RowsFields
<1> DEFINE P == InPeriod(r.from, r.to)
           sorted == Sorted(P)
           skip == Len(r.rows)
           last == IF skip + PageSize < Len(sorted) THEN skip + PageSize ELSE Len(sorted)
           page == SubSeq(sorted, skip + 1, last)
<1>4. report' = [r EXCEPT !.rows = @ \o page,
                          !.step = IF LastPage(page) THEN "read" ELSE "reading"]
      /\ UNCHANGED adjustmentVars
  BY <1>1 DEF ReadPage
<1>5. P \in SUBSET DOMAIN papers /\ papers \in Seq(PaperRecord) /\ DOMAIN papers \subseteq Ids
  BY PeriodPapers, PapersFacts
<1>6. PageSize \in Nat /\ PageSize > 0
  BY ReportsAssumption
<1> HIDE DEF P
<1>7. /\ Len(sorted) = Cardinality(P) /\ Cardinality(P) \in Nat
      /\ \A k \in 1 .. Cardinality(P) : sorted[k] \in P
  BY <1>5, SortedLists
<1> HIDE DEF sorted, skip
<1>8. skip \in Nat /\ last \in Nat /\ last <= Cardinality(P)
      /\ last = IF skip + PageSize < Cardinality(P) THEN skip + PageSize ELSE Cardinality(P)
  BY <1>3, <1>6, <1>7 DEF skip
<1> HIDE DEF last
<1>9. \A k \in skip + 1 .. last : sorted[k] \in Ids
  BY <1>5, <1>7, <1>8
<1>10. /\ page \in Seq(Ids) /\ Len(page) = (IF skip + 1 <= last THEN last - skip ELSE 0)
       /\ \A k \in 1 .. last - skip : page[k] = sorted[skip + k]
  <2>1. /\ SubSeq(sorted, skip + 1, last) \in Seq(Ids)
        /\ Len(SubSeq(sorted, skip + 1, last)) =
              IF skip + 1 <= last THEN last - (skip + 1) + 1 ELSE 0
        /\ \A k \in 1 .. last - (skip + 1) + 1 :
              SubSeq(sorted, skip + 1, last)[k] = sorted[(skip + 1) + k - 1]
    <3>1. skip + 1 \in Int /\ last \in Int
      BY <1>8
    <3> QED BY <1>9, <3>1, SubSeqProperties
  <2>2. last - (skip + 1) + 1 = last - skip
    BY <1>8
  <2>3. \A k \in 1 .. last - skip : (skip + 1) + k - 1 = skip + k
    BY <1>8
  <2> QED BY <2>1, <2>2, <2>3
<1> HIDE DEF page
<1>11. PICK rows : rows = r.rows \o page
  OBVIOUS
<1>12. /\ rows \in Seq(Ids) /\ Len(rows) = skip + Len(page)
       /\ \A k \in 1 .. skip : rows[k] = r.rows[k]
       /\ \A k \in 1 .. Len(page) : rows[skip + k] = page[k]
  <2>1. /\ r.rows \o page \in Seq(Ids) /\ Len(r.rows \o page) = Len(r.rows) + Len(page)
        /\ \A k \in 1 .. Len(r.rows) + Len(page) :
              (r.rows \o page)[k] = IF k <= Len(r.rows) THEN r.rows[k] ELSE page[k - Len(r.rows)]
    BY <1>3, <1>10, ConcatProperties
  <2>2. Len(page) \in Nat
    BY <1>10
  <2>3. ASSUME NEW k \in 1 .. Len(page) PROVE rows[skip + k] = page[k]
    <3>1. skip + k \in 1 .. skip + Len(page) /\ ~(skip + k <= skip) /\ (skip + k) - skip = k
      BY <1>8, <2>2
    <3> QED BY <1>11, <2>1, <3>1 DEF skip
  <2> QED BY <1>8, <1>11, <2>1, <2>2, <2>3 DEF skip
<1>13. PICK step \in {"reading", "read"} : step = IF LastPage(page) THEN "read" ELSE "reading"
  OBVIOUS
<1>14. PICK s : s = [r EXCEPT !.rows = rows, !.step = step]
  OBVIOUS
<1>15. /\ s \in RowsRecord /\ s.rows = rows /\ s.step = step /\ s.from = r.from /\ s.to = r.to
       /\ s.moved = r.moved
  BY <1>3, <1>12, <1>13, <1>14 DEF RowsRecord
<1>16. report' = s
  BY <1>4, <1>11, <1>13, <1>14
<1>17. ASSUME ~r.moved
       PROVE  /\ Len(rows) <= Cardinality(P)
              /\ \A k \in 1 .. Len(rows) : rows[k] = sorted[k]
              /\ step = "read" => Len(rows) = Cardinality(P)
  <2>1. skip <= Cardinality(P) /\ \A k \in 1 .. skip : r.rows[k] = sorted[k]
    BY <1>2, <1>3, <1>17 DEF ReportHolds, Beginning, skip, sorted, P
  <2>2. Len(page) = last - skip /\ skip <= last /\ Len(rows) = last
    BY <1>6, <1>7, <1>8, <1>10, <1>12, <2>1
  <2>3. ASSUME NEW k \in 1 .. Len(rows) PROVE rows[k] = sorted[k]
    <3>1. CASE k <= skip
      BY <1>8, <1>12, <2>1, <2>2, <3>1
    <3>2. CASE k > skip
      <4>1. PICK l : l = k - skip
        OBVIOUS
      <4>2. l \in 1 .. last - skip /\ k = skip + l
        BY <1>8, <2>2, <3>2, <4>1
      <4>3. rows[skip + l] = page[l] /\ page[l] = sorted[skip + l]
        BY <1>10, <1>12, <2>2, <4>2
      <4> QED BY <4>2, <4>3
    <3> QED BY <1>8, <2>2, <3>1, <3>2
  <2>4. step = "read" => Len(rows) = Cardinality(P)
    BY <1>6, <1>7, <1>8, <1>13, <2>1, <2>2 DEF LastPage
  <2> QED BY <1>8, <2>2, <2>3, <2>4
<1>18. ReportHolds(s)
  BY <1>15, <1>17 DEF ReportHolds, Beginning, P, sorted
<1>19. papers' = papers
  BY <1>4 DEF adjustmentVars
<1> QED BY <1>15, <1>16, <1>18, <1>19, ReportKept DEF ReportInv

LEMMA ReportBegins ==
    ASSUME report = NoReport
    PROVE  ReportInv
BY DEF ReportInv, ReportHolds

LEMMA ReportStep ==
    ASSUME PapersInv, ReportInv, [ReportsNext]_reportVars
    PROVE  PapersInv' /\ ReportInv'
<1>1. CASE /\ AdjustmentsNext
           /\ report' = IF report # NoReport /\ papers' # papers
                          THEN [report EXCEPT !.moved = TRUE] ELSE report
  <2>1. PapersInv'
    BY <1>1, PapersStep
  <2>2. CASE report # NoReport /\ papers' # papers
    <3>1. PICK s : s = [report EXCEPT !.moved = TRUE]
      OBVIOUS
    <3>2. report \in RowsRecord
      BY <2>2 DEF ReportInv
    <3>3. s \in RowsRecord /\ s.moved = TRUE
      BY <3>1, <3>2 DEF RowsRecord
    <3>4. report' = s
      BY <1>1, <2>2, <3>1
    <3> QED BY <2>1, <3>3, <3>4 DEF ReportInv, ReportHolds
  <2>3. CASE report = NoReport
    <3>1. report' = NoReport
      BY <1>1, <2>3
    <3> QED BY <2>1, <3>1 DEF ReportInv, ReportHolds
  <2>4. CASE papers' = papers
    <3>1. report' = report
      BY <1>1, <2>4
    <3>2. ReportHolds(report)'
      BY <2>4, <3>1, ReportKept DEF ReportInv
    <3> QED BY <2>1, <3>1, <3>2 DEF ReportInv
  <2> QED BY <2>2, <2>3, <2>4
<1>2. ASSUME NEW p \in Periods, BeginReport(p[1], p[2]) PROVE PapersInv' /\ ReportInv'
  <2>1. PapersInv'
    BY <1>2, PapersStep DEF BeginReport
  <2>2. p[1] \in Minutes /\ p[2] \in Minutes
    BY ReportsAssumption
  <2>3. PICK s : s = [step |-> "reading", from |-> p[1], to |-> p[2], rows |-> <<>>,
                      moved |-> FALSE]
    OBVIOUS
  <2>4. s \in RowsRecord /\ s.rows = <<>> /\ s.step = "reading"
    BY <2>2, <2>3 DEF RowsRecord
  <2>5. Beginning(s)
    <3>1. Cardinality(InPeriod(s.from, s.to)) \in Nat
      BY PeriodPapers, PapersFacts, DomainFinite, FS_CardinalityType
    <3> QED BY <2>4, <3>1 DEF Beginning
  <2>6. report' = s /\ papers' = papers
    BY <1>2, <2>3 DEF BeginReport, adjustmentVars
  <2>7. ReportHolds(report)'
    <3>1. ReportHolds(s)
      BY <2>5 DEF ReportHolds
    <3> QED BY <2>6, <3>1, ReportKept
  <2> QED BY <2>1, <2>4, <2>6, <2>7 DEF ReportInv
<1>3. CASE ReadPage
  <2>1. PapersInv'
    BY <1>3, PapersStep DEF ReadPage
  <2> QED BY <1>3, <2>1, ReadPageKeeps
<1>4. CASE Answer
  <2>1. PapersInv'
    BY <1>4, PapersStep DEF Answer
  <2> QED BY <1>4, <2>1 DEF Answer, ReportInv, ReportHolds
<1>5. CASE UNCHANGED reportVars
  <2>1. UNCHANGED adjustmentVars /\ report' = report
    BY <1>5 DEF reportVars
  <2>2. PapersInv'
    BY <2>1, PapersStep
  <2>3. papers' = papers
    BY <2>1 DEF adjustmentVars
  <2>4. ReportHolds(report)'
    BY <2>1, <2>3, ReportKept DEF ReportInv
  <2> QED BY <2>1, <2>2, <2>4 DEF ReportInv
<1> QED BY <1>1, <1>2, <1>3, <1>4, <1>5 DEF ReportsNext

LEMMA CountsFollow ==
    ASSUME PapersInv, ReportInv
    PROVE  ReportCountsOnce
<1> SUFFICES ASSUME report.step = "read", ~report.moved
             PROVE  /\ Len(report.rows) = Cardinality(InPeriod(report.from, report.to))
                    /\ {report.rows[k] : k \in DOMAIN report.rows} =
                           InPeriod(report.from, report.to)
  BY DEF ReportCountsOnce
<1>1. report # NoReport /\ report.rows \in Seq(Ids) /\ Beginning(report)
  <2>1. report # NoReport
    BY DEF NoReport
  <2> QED BY <2>1, RowsFields DEF ReportInv, ReportHolds
<1> DEFINE P == InPeriod(report.from, report.to)
<1>2. Len(report.rows) = Cardinality(P)
      /\ \A k \in 1 .. Cardinality(P) : report.rows[k] = Sorted(P)[k]
  BY <1>1 DEF Beginning
<1>3. P \in SUBSET DOMAIN papers /\ papers \in Seq(PaperRecord)
  BY PeriodPapers, PapersFacts
<1>4. DOMAIN report.rows = 1 .. Cardinality(P)
  BY <1>1, <1>2
<1> HIDE DEF P
<1>5. /\ \A k \in 1 .. Cardinality(P) : Sorted(P)[k] \in P
      /\ \A i \in P : \E k \in 1 .. Cardinality(P) : Sorted(P)[k] = i
  BY <1>3, SortedLists
<1>6. {report.rows[k] : k \in DOMAIN report.rows} = P
  BY <1>2, <1>4, <1>5
<1> QED BY <1>2, <1>6 DEF P

-----------------------------------------------------------------------------
(* Sums over the lines of papers.  A cell is a paper and a product; a      *)
(* column gives each cell a figure, none where the paper has no units.     *)

Cells == (DOMAIN papers) \X Good
Grid(I, G) == I \X G
Backs == {i \in DOMAIN papers : IsReturn(i)}

Column(V) ==
    \A c \in Cells : V[c] \in Nat /\ (papers[c[1]].units[c[2]] = 0 => V[c] = 0)

Went(V, S, G) == SumOver(V, Grid(S \ Backs, G))
OfPaper(V, i, G) == SumOver(V, {i} \X G)
Came(V, S, G) == SumOver(V, Grid(S \cap Backs, G))

\* A list has every paper of a set once.
Lists(rows, S) ==
    /\ IsFiniteSet(DOMAIN rows) /\ S \in SUBSET (DOMAIN papers)
    /\ \A k \in DOMAIN rows : rows[k] \in S
    /\ \A k, l \in DOMAIN rows : rows[k] = rows[l] => k = l
    /\ \A i \in S : \E k \in DOMAIN rows : rows[k] = i

Shelf == papers \in Seq(PaperRecord)

LEMMA GridPart ==
    ASSUME NEW A, NEW B, NEW C \in SUBSET A, NEW D \in SUBSET B
    PROVE  C \X D \in SUBSET (A \X B)
<1>1. ASSUME NEW c \in C \X D PROVE c \in A \X B
  <2>1. PICK x \in C, y \in D : c = <<x, y>>
    OBVIOUS
  <2> QED BY <2>1
<1> QED BY <1>1

LEMMA GridFinite ==
    ASSUME NEW A, NEW B, IsFiniteSet(A), IsFiniteSet(B), NEW T \in SUBSET (A \X B)
    PROVE  IsFiniteSet(T)
<1>1. IsFiniteSet(A \X B)
  BY FS_Product
<1> QED BY <1>1, FS_Subset

LEMMA CellFacts ==
    ASSUME NEW c
    PROVE  c \in Cells <=> \E i \in DOMAIN papers, g \in Good : c = <<i, g>>
BY DEF Cells

LEMMA CellSum ==
    ASSUME Shelf, NEW V, Column(V), NEW T \in SUBSET Cells
    PROVE  IsFiniteSet(T) /\ SumOver(V, T) \in Nat /\ \A c \in T : V[c] \in Nat
<1>1. IsFiniteSet(Good)
  BY AdjustmentsAssumption
<1>2. IsFiniteSet(DOMAIN papers)
  BY DomainFinite DEF Shelf
<1>3. T \in SUBSET ((DOMAIN papers) \X Good)
  BY DEF Cells
<1>4. IsFiniteSet(T)
  BY <1>1, <1>2, <1>3, GridFinite
<1>5. \A c \in T : V[c] \in Nat /\ V[c] \in Int
  BY DEF Column
<1> QED BY <1>4, <1>5, SumType

LEMMA SortedIsList ==
    ASSUME Shelf, NEW S \in SUBSET (DOMAIN papers)
    PROVE  Lists(Sorted(S), S)
<1>1. /\ DOMAIN Sorted(S) = 1 .. Cardinality(S) /\ Cardinality(S) \in Nat
      /\ \A k \in 1 .. Cardinality(S) : Sorted(S)[k] \in S
      /\ \A k, l \in 1 .. Cardinality(S) : Sorted(S)[k] = Sorted(S)[l] => k = l
      /\ \A i \in S : \E k \in 1 .. Cardinality(S) : Sorted(S)[k] = i
  BY SortedLists DEF Shelf
<1>2. IsFiniteSet(1 .. Cardinality(S))
  BY <1>1, FS_Interval
<1> QED BY <1>1, <1>2 DEF Lists

\* Some of the rows list some of the papers.
LEMMA PartOfList ==
    ASSUME NEW rows, NEW S, Lists(rows, S), NEW L \in SUBSET DOMAIN rows,
           NEW I \in SUBSET S, \A k \in DOMAIN rows : k \in L <=> rows[k] \in I
    PROVE  /\ [k \in L |-> rows[k]] \in Bijection(L, I) /\ IsFiniteSet(L)
           /\ IsFiniteSet(I) /\ Cardinality(L) = Cardinality(I)
           /\ Lists([k \in L |-> rows[k]], I)
<1> DEFINE q == [k \in L |-> rows[k]]
<1>1. IsFiniteSet(L)
  BY FS_Subset DEF Lists
<1>2. /\ \A k \in L : q[k] \in I
      /\ \A k, l \in L : q[k] = q[l] => k = l
      /\ \A i \in I : \E k \in L : q[k] = i
  BY DEF Lists
<1>3. q \in [L -> I] /\ DOMAIN q = L
  BY <1>2
<1> HIDE DEF q
<1>4. q \in Bijection(L, I)
  BY <1>2, <1>3 DEF Bijection, Injection, Surjection, IsInjective
<1>5. IsFiniteSet(I) /\ Cardinality(I) = Cardinality(L)
  BY <1>1, <1>4, FS_Bijection DEF ExistsBijection
<1>6. Lists(q, I)
  BY <1>1, <1>2, <1>3 DEF Lists
<1> QED BY <1>1, <1>4, <1>5, <1>6 DEF q

\* The sum over lines of a list is the sum over cells.
LEMMA LineSum ==
    ASSUME Shelf, NEW V, Column(V), NEW rows, NEW S, Lists(rows, S),
           NEW L \in SUBSET Flat(rows), NEW f,
           \A x \in L : f[x] = V[<<rows[x[1]], x[2]>>],
           NEW T \in SUBSET (S \X Good),
           \A x \in Flat(rows) : x \in L <=> <<rows[x[1]], x[2]>> \in T
    PROVE  SumOver(f, L) = SumOver(V, T)
<1> DEFINE q == [x \in L |-> <<rows[x[1]], x[2]>>]
           cellsIn == {c \in T : papers[c[1]].units[c[2]] > 0}
<1>1. /\ \A x : x \in Flat(rows) <=>
            \E k \in DOMAIN rows, g \in Good : x = <<k, g>> /\ papers[rows[k]].units[g] > 0
  BY DEF Flat, LinesOf
<1>2. Flat(rows) \in SUBSET ((DOMAIN rows) \X Good)
  <2> SUFFICES ASSUME NEW x \in Flat(rows) PROVE x \in (DOMAIN rows) \X Good
    OBVIOUS
  <2>1. PICK k \in DOMAIN rows, g \in Good : x = <<k, g>>
    BY <1>1
  <2> QED BY <2>1
<1>3. IsFiniteSet(L)
  <2>1. IsFiniteSet(Good)
    BY AdjustmentsAssumption
  <2>2. IsFiniteSet(DOMAIN rows)
    BY DEF Lists
  <2>3. L \in SUBSET ((DOMAIN rows) \X Good)
    BY <1>2
  <2> QED BY <2>1, <2>2, <2>3, GridFinite
<1>4. \A x \in L : q[x] \in cellsIn
  <2> SUFFICES ASSUME NEW x \in L PROVE q[x] \in cellsIn
    OBVIOUS
  <2>1. PICK k \in DOMAIN rows, g \in Good : x = <<k, g>> /\ papers[rows[k]].units[g] > 0
    BY <1>1
  <2>2. q[x] = <<rows[k], g>>
    BY <2>1
  <2>3. <<rows[k], g>> \in T
    BY <2>1
  <2> QED BY <2>1, <2>2, <2>3
<1>5. \A x, y \in L : q[x] = q[y] => x = y
  <2> SUFFICES ASSUME NEW x \in L, NEW y \in L, q[x] = q[y] PROVE x = y
    OBVIOUS
  <2>1. PICK k \in DOMAIN rows, g \in Good : x = <<k, g>>
    BY <1>1
  <2>2. PICK l \in DOMAIN rows, h \in Good : y = <<l, h>>
    BY <1>1
  <2>3. <<rows[k], g>> = <<rows[l], h>>
    BY <2>1, <2>2
  <2>4. rows[k] = rows[l] /\ g = h
    BY <2>3
  <2>5. k = l
    BY <2>4 DEF Lists
  <2> QED BY <2>1, <2>2, <2>4, <2>5
<1>6. \A c \in cellsIn : \E x \in L : q[x] = c
  <2> SUFFICES ASSUME NEW c \in cellsIn PROVE \E x \in L : q[x] = c
    OBVIOUS
  <2>1. PICK i \in S, g \in Good : c = <<i, g>> /\ papers[i].units[g] > 0
    OBVIOUS
  <2>2. PICK k \in DOMAIN rows : rows[k] = i
    BY DEF Lists
  <2>3. PICK x : x = <<k, g>>
    OBVIOUS
  <2>4. x \in Flat(rows) /\ <<rows[x[1]], x[2]>> = c
    BY <1>1, <2>1, <2>2, <2>3
  <2>5. x \in L
    BY <2>4
  <2> QED BY <2>4, <2>5
<1>7. q \in Bijection(L, cellsIn)
  <2>1. q \in [L -> cellsIn]
    BY <1>4
  <2> HIDE DEF q, cellsIn
  <2> QED BY <1>4, <1>5, <1>6, <2>1 DEF Bijection, Injection, Surjection, IsInjective
<1>8. \A x \in L : f[x] = V[q[x]]
  OBVIOUS
<1>9. \A c \in T : c \in Cells /\ V[c] \in Nat
  <2> SUFFICES ASSUME NEW c \in T PROVE c \in Cells
    BY DEF Column
  <2>1. PICK i \in S, g \in Good : c = <<i, g>>
    OBVIOUS
  <2>2. i \in DOMAIN papers
    BY DEF Lists
  <2> QED BY <2>1, <2>2, CellFacts
<1>10. \A x \in L : f[x] \in Nat
  BY <1>4, <1>8, <1>9
<1>11. SumOver(f, L) = SumOver(V, cellsIn)
  <2> HIDE DEF q, cellsIn
  <2> QED BY <1>3, <1>7, <1>8, <1>10, SumReindex
<1>12. \A c \in T \ cellsIn : V[c] = 0
  <2> SUFFICES ASSUME NEW c \in T, c \notin cellsIn PROVE V[c] = 0
    OBVIOUS
  <2>1. PICK i \in S, g \in Good : c = <<i, g>>
    OBVIOUS
  <2>2. i \in DOMAIN papers /\ papers[i].units[g] \in Nat
    BY PaperFields DEF Lists, Shelf
  <2>3. papers[i].units[g] = 0
    BY <2>1, <2>2
  <2> QED BY <1>9, <2>1, <2>3 DEF Column
<1>13. SumOver(V, T) = SumOver(V, cellsIn)
  <2>1. cellsIn \subseteq T
    OBVIOUS
  <2> HIDE DEF cellsIn
  <2> QED BY <1>12, <2>1, SumZeroRows
<1> QED BY <1>11, <1>13

\* The lines of one paper.
LEMMA OnePaperSum ==
    ASSUME Shelf, NEW V, Column(V), NEW i \in DOMAIN papers, NEW G \in SUBSET Good,
           NEW h, \A g \in G : h[g] = V[<<i, g>>]
    PROVE  SumOver(h, G) = OfPaper(V, i, G) /\ SumOver(h, G) \in Nat
<1> DEFINE q == [g \in G |-> <<i, g>>]
<1>1. q \in Bijection(G, {i} \X G)
  <2>1. q \in [G -> {i} \X G]
    OBVIOUS
  <2>2. \A g, k \in G : q[g] = q[k] => g = k
    OBVIOUS
  <2>3. \A c \in {i} \X G : \E g \in G : q[g] = c
    OBVIOUS
  <2> HIDE DEF q
  <2> QED BY <2>1, <2>2, <2>3 DEF Bijection, Injection, Surjection, IsInjective
<1>2. \A g \in G : h[g] = V[q[g]] /\ h[g] \in Nat
  <2> SUFFICES ASSUME NEW g \in G PROVE h[g] = V[<<i, g>>] /\ h[g] \in Nat
    OBVIOUS
  <2>1. <<i, g>> \in Cells
    BY CellFacts
  <2> QED BY <2>1 DEF Column
<1>3. IsFiniteSet(G)
  <2>1. IsFiniteSet(Good)
    BY AdjustmentsAssumption
  <2> QED BY <2>1, FS_Subset
<1>4. SumOver(h, G) = OfPaper(V, i, G)
  <2> HIDE DEF q
  <2> QED BY <1>1, <1>2, <1>3, SumReindex DEF OfPaper
<1>5. {i} \X G \in SUBSET Cells
  <2>1. {i} \in SUBSET (DOMAIN papers)
    OBVIOUS
  <2> QED BY <2>1, GridPart DEF Cells
<1> QED BY <1>4, <1>5, CellSum DEF OfPaper

\* The sum of the sums of papers.
LEMMA PaperSum ==
    ASSUME Shelf, NEW V, Column(V), NEW I \in SUBSET DOMAIN papers, NEW G \in SUBSET Good,
           NEW p, \A i \in I : p[i] = OfPaper(V, i, G)
    PROVE  SumOver(p, I) = SumOver(V, Grid(I, G)) /\ \A i \in I : p[i] \in Nat
<1> DEFINE D == I \X G
           owner == [c \in D |-> c[1]]
           own == [i \in I |-> {c \in D : owner[c] = i}]
<1>1. D \in SUBSET Cells
  BY GridPart DEF Cells
<1>2. IsFiniteSet(D) /\ \A c \in D : V[c] \in Nat
  BY <1>1, CellSum
<1>3. IsFiniteSet(I)
  BY DomainFinite DEF Shelf
<1>4. \A i \in I : own[i] = {c \in D : owner[c] = i}
  OBVIOUS
<1>5. D = {c \in D : owner[c] \in I}
  OBVIOUS
<1>6. ASSUME NEW i \in I PROVE p[i] = SumOver(V, own[i]) /\ p[i] \in Nat
  <2>1. own[i] = {i} \X G
    OBVIOUS
  <2>2. {i} \in SUBSET (DOMAIN papers)
    OBVIOUS
  <2>3. {i} \X G \in SUBSET Cells
    BY <2>2, GridPart DEF Cells
  <2>4. OfPaper(V, i, G) \in Nat
    BY <2>3, CellSum DEF OfPaper
  <2>5. p[i] = OfPaper(V, i, G)
    OBVIOUS
  <2> QED BY <2>1, <2>4, <2>5 DEF OfPaper
<1> HIDE DEF D, owner, own
<1>7. \A i \in I : p[i] = SumOver(V, own[i])
  BY <1>6
<1>8. SumOver(p, I) = SumOver(V, D)
  BY <1>2, <1>3, <1>4, <1>5, <1>7, SumOfSums
<1> QED BY <1>6, <1>8 DEF D, Grid

\* Paper by paper, over the lines of each, as the rows list them.
LEMMA RowSum ==
    ASSUME Shelf, NEW V, Column(V), NEW rows, NEW S, Lists(rows, S),
           NEW L \in SUBSET DOMAIN rows, NEW I \in SUBSET S,
           \A k \in DOMAIN rows : k \in L <=> rows[k] \in I,
           NEW f, \A k \in L : f[k] = OfPaper(V, rows[k], Good)
    PROVE  SumOver(f, L) = SumOver(V, Grid(I, Good))
<1> DEFINE q == [k \in L |-> rows[k]]
           p == [i \in I |-> OfPaper(V, i, Good)]
<1>1. q \in Bijection(L, I) /\ IsFiniteSet(L)
  BY PartOfList
<1>2. I \in SUBSET (DOMAIN papers)
  BY DEF Lists
<1>3. SumOver(p, I) = SumOver(V, Grid(I, Good)) /\ \A i \in I : p[i] \in Nat
  <2>1. \A i \in I : p[i] = OfPaper(V, i, Good)
    OBVIOUS
  <2>2. PICK G \in SUBSET Good : G = Good
    OBVIOUS
  <2>3. \A i \in I : p[i] = OfPaper(V, i, G)
    BY <2>1, <2>2
  <2> HIDE DEF p
  <2>4. SumOver(p, I) = SumOver(V, Grid(I, G))
    BY <1>2, <2>3, PaperSum
  <2>5. \A i \in I : p[i] \in Nat
    BY <1>2, <2>3, PaperSum
  <2> QED BY <2>2, <2>4, <2>5
<1>4. \A k \in L : f[k] = p[q[k]] /\ f[k] \in Nat
  <2> SUFFICES ASSUME NEW k \in L PROVE f[k] = p[q[k]] /\ f[k] \in Nat
    OBVIOUS
  <2>1. q[k] = rows[k] /\ rows[k] \in I
    OBVIOUS
  <2>2. p[rows[k]] = OfPaper(V, rows[k], Good)
    BY <2>1
  <2> HIDE DEF p, q
  <2> QED BY <1>3, <2>1, <2>2
<1> HIDE DEF p, q
<1> QED BY <1>1, <1>3, <1>4, SumReindex

\* Figures of which some may be negative.
LEMMA SumOfDifferences ==
    ASSUME NEW D, IsFiniteSet(D), NEW f, DOMAIN f = D, NEW a, NEW b,
           \A x \in D : a[x] \in Nat /\ b[x] \in Nat /\ f[x] = a[x] - b[x]
    PROVE  /\ SumSigned(f) = SumOver(a, D) - SumOver(b, D)
           /\ SumOver(a, D) \in Nat /\ SumOver(b, D) \in Nat
<1> DEFINE abs == [x \in D |-> IF f[x] < 0 THEN 0 - f[x] ELSE f[x]]
           neg == {x \in D : f[x] < 0}
           p == [x \in D |-> IF f[x] < 0 THEN 0 ELSE f[x]]
           m == [x \in D |-> IF f[x] < 0 THEN 0 - f[x] ELSE 0]
           s == [x \in D |-> p[x] + b[x]]
<1>1. SumSigned(f) = SumOver(abs, D \ neg) - SumOver(abs, D \cap neg)
  BY DEF SumSigned, Signed
<1>2. \A x \in D : /\ p[x] \in Nat /\ m[x] \in Nat /\ s[x] = p[x] + b[x] /\ s[x] = m[x] + a[x]
                   /\ p[x] \in Int /\ m[x] \in Int
  OBVIOUS
<1>3. /\ \A x \in D \ neg : abs[x] = p[x]
      /\ \A x \in D \cap neg : abs[x] = m[x]
      /\ \A x \in D \ (D \ neg) : p[x] = 0
      /\ \A x \in D \ (D \cap neg) : m[x] = 0
  OBVIOUS
<1> HIDE DEF abs, neg, p, m, s
<1>4. SumOver(abs, D \ neg) = SumOver(p, D)
  <2>1. SumOver(abs, D \ neg) = SumOver(p, D \ neg)
    BY <1>3, SumCongruence
  <2>2. SumOver(p, D) = SumOver(p, D \ neg)
    BY <1>3, SumZeroRows
  <2> QED BY <2>1, <2>2
<1>5. SumOver(abs, D \cap neg) = SumOver(m, D)
  <2>1. SumOver(abs, D \cap neg) = SumOver(m, D \cap neg)
    BY <1>3, SumCongruence
  <2>2. SumOver(m, D) = SumOver(m, D \cap neg)
    BY <1>3, SumZeroRows
  <2> QED BY <2>1, <2>2
<1>6. SumOver(s, D) = SumOver(p, D) + SumOver(b, D)
  BY <1>2, SumAdd
<1>7. SumOver(s, D) = SumOver(m, D) + SumOver(a, D)
  BY <1>2, SumAdd
<1>8. /\ SumOver(p, D) \in Nat /\ SumOver(m, D) \in Nat
      /\ SumOver(a, D) \in Nat /\ SumOver(b, D) \in Nat
  <2>1. \A x \in D : a[x] \in Int /\ b[x] \in Int
    OBVIOUS
  <2> QED BY <1>2, <2>1, SumType
<1> QED BY <1>1, <1>4, <1>5, <1>6, <1>7, <1>8

-----------------------------------------------------------------------------
(* What the reports add up, by cells.                                      *)

Pieces == [c \in Cells |-> papers[c[1]].units[c[2]]]
Finals == [c \in Cells |-> papers[c[1]].final[c[2]]]
Retails == [c \in Cells |-> RetailOf(c[1], c[2])]
Supplies == [c \in Cells |-> SupplyOf(c[1], c[2])]
Reductions == [c \in Cells |-> DiscountOf(c[1], c[2])]

Undone == {i \in DOMAIN papers : Live(papers, i)}

LEMMA CellValues ==
    ASSUME NEW i \in DOMAIN papers, NEW g \in Good
    PROVE  /\ <<i, g>> \in Cells
           /\ Pieces[<<i, g>>] = papers[i].units[g] /\ Finals[<<i, g>>] = papers[i].final[g]
           /\ Retails[<<i, g>>] = RetailOf(i, g) /\ Supplies[<<i, g>>] = SupplyOf(i, g)
           /\ Reductions[<<i, g>>] = DiscountOf(i, g)
<1>1. <<i, g>> \in Cells
  BY CellFacts
<1> QED BY <1>1 DEF Pieces, Finals, Retails, Supplies, Reductions

LEMMA LineFigures ==
    ASSUME Booked(papers), NEW i \in DOMAIN papers, NEW g \in Good
    PROVE  /\ papers[i].units[g] \in Nat /\ papers[i].final[g] \in Nat
           /\ RetailOf(i, g) \in Nat /\ SupplyOf(i, g) \in Nat /\ DiscountOf(i, g) \in Nat
           /\ RetailOf(i, g) = papers[i].final[g] + DiscountOf(i, g)
           /\ papers[i].units[g] = 0 =>
                 /\ papers[i].final[g] = 0 /\ RetailOf(i, g) = 0
                 /\ SupplyOf(i, g) = 0 /\ DiscountOf(i, g) = 0
           /\ IsReturn(i) => DiscountOf(i, g) = 0
<1>1. papers[i].units[g] \in Nat /\ papers[i].final[g] \in Nat
  BY PaperFields DEF Booked
<1>2. /\ papers[i].units[g] = 0 => papers[i].final[g] = 0
      /\ papers[i].type # "return" => papers[i].final[g] <= papers[i].units[g] * RetailPrice[g]
  BY DEF Booked, Priced
<1>3. RetailPrice[g] \in Nat /\ SupplyPrice[g] \in Nat
  BY AdjustmentsAssumption, ReportsAssumption
<1>4. papers[i].units[g] * RetailPrice[g] \in Nat /\ papers[i].units[g] * SupplyPrice[g] \in Nat
  BY <1>1, <1>3
<1>5. papers[i].units[g] = 0 =>
         papers[i].units[g] * RetailPrice[g] = 0 /\ papers[i].units[g] * SupplyPrice[g] = 0
  BY <1>3
<1> QED BY <1>1, <1>2, <1>4, <1>5 DEF RetailOf, SupplyOf, DiscountOf, IsReturn

LEMMA ColumnsHold ==
    ASSUME Booked(papers)
    PROVE  /\ Column(Pieces) /\ Column(Finals) /\ Column(Retails)
           /\ Column(Supplies) /\ Column(Reductions) /\ Shelf
<1>1. ASSUME NEW c \in Cells
      PROVE  \E i \in DOMAIN papers, g \in Good : c = <<i, g>> /\ c[1] = i /\ c[2] = g
  BY CellFacts
<1>2. ASSUME NEW c \in Cells
      PROVE  /\ Pieces[c] \in Nat /\ (papers[c[1]].units[c[2]] = 0 => Pieces[c] = 0)
             /\ Finals[c] \in Nat /\ (papers[c[1]].units[c[2]] = 0 => Finals[c] = 0)
             /\ Retails[c] \in Nat /\ (papers[c[1]].units[c[2]] = 0 => Retails[c] = 0)
             /\ Supplies[c] \in Nat /\ (papers[c[1]].units[c[2]] = 0 => Supplies[c] = 0)
             /\ Reductions[c] \in Nat /\ (papers[c[1]].units[c[2]] = 0 => Reductions[c] = 0)
  <2>1. PICK i \in DOMAIN papers, g \in Good : c = <<i, g>> /\ c[1] = i /\ c[2] = g
    BY <1>1
  <2> QED BY <2>1, CellValues, LineFigures
<1> QED BY <1>2 DEF Column, Shelf, Booked

\* Lines of what went out, and of what came back, for some of the goods.
LEMMA LineOf ==
    ASSUME NEW rows, NEW S, Lists(rows, S), NEW x \in Flat(rows)
    PROVE  /\ rows[x[1]] \in S /\ rows[x[1]] \in DOMAIN papers /\ x[1] \in DOMAIN rows
           /\ x[2] \in Good /\ papers[rows[x[1]]].units[x[2]] > 0 /\ x = <<x[1], x[2]>>
<1>1. PICK k \in DOMAIN rows, g \in Good : x = <<k, g>> /\ papers[rows[k]].units[g] > 0
  BY DEF Flat, LinesOf
<1> QED BY <1>1 DEF Lists

LEMMA WentLines ==
    ASSUME Shelf, NEW V, Column(V), NEW rows, NEW S, Lists(rows, S), NEW G \in SUBSET Good,
           NEW L \in SUBSET Flat(rows),
           \A x \in Flat(rows) : x \in L <=> x[2] \in G /\ ~IsReturn(rows[x[1]]),
           NEW f, \A x \in L : f[x] = V[<<rows[x[1]], x[2]>>]
    PROVE  SumOver(f, L) = Went(V, S, G)
<1>1. PICK T : T = Grid(S \ Backs, G)
  OBVIOUS
<1>2. T \in SUBSET (S \X Good)
  BY <1>1, GridPart DEF Grid
<1>3. ASSUME NEW x \in Flat(rows) PROVE x \in L <=> <<rows[x[1]], x[2]>> \in T
  <2>1. rows[x[1]] \in S /\ rows[x[1]] \in DOMAIN papers
    BY LineOf
  <2>2. <<rows[x[1]], x[2]>> \in T <=> rows[x[1]] \in S \ Backs /\ x[2] \in G
    BY <1>1 DEF Grid
  <2> QED BY <2>1, <2>2 DEF Backs
<1>4. SumOver(f, L) = SumOver(V, T)
  BY <1>2, <1>3, LineSum
<1> QED BY <1>1, <1>4 DEF Went

LEMMA CameLines ==
    ASSUME Shelf, NEW V, Column(V), NEW rows, NEW S, Lists(rows, S), NEW G \in SUBSET Good,
           NEW L \in SUBSET Flat(rows),
           \A x \in Flat(rows) : x \in L <=> x[2] \in G /\ IsReturn(rows[x[1]]),
           NEW f, \A x \in L : f[x] = V[<<rows[x[1]], x[2]>>]
    PROVE  SumOver(f, L) = Came(V, S, G)
<1>1. PICK T : T = Grid(S \cap Backs, G)
  OBVIOUS
<1>2. T \in SUBSET (S \X Good)
  BY <1>1, GridPart DEF Grid
<1>3. ASSUME NEW x \in Flat(rows) PROVE x \in L <=> <<rows[x[1]], x[2]>> \in T
  <2>1. rows[x[1]] \in S /\ rows[x[1]] \in DOMAIN papers
    BY LineOf
  <2>2. <<rows[x[1]], x[2]>> \in T <=> rows[x[1]] \in S \cap Backs /\ x[2] \in G
    BY <1>1 DEF Grid
  <2> QED BY <2>1, <2>2 DEF Backs
<1>4. SumOver(f, L) = SumOver(V, T)
  BY <1>2, <1>3, LineSum
<1> QED BY <1>1, <1>4 DEF Came

\* What went out and came back are natural numbers.
LEMMA WentType ==
    ASSUME Shelf, NEW V, Column(V), NEW S \in SUBSET DOMAIN papers, NEW G \in SUBSET Good
    PROVE  Went(V, S, G) \in Nat /\ Came(V, S, G) \in Nat
<1>1. ASSUME NEW I \in SUBSET (DOMAIN papers) PROVE SumOver(V, Grid(I, G)) \in Nat
  <2>1. Grid(I, G) \in SUBSET Cells
    BY GridPart DEF Grid, Cells
  <2> QED BY <2>1, CellSum
<1>2. S \ Backs \in SUBSET (DOMAIN papers) /\ S \cap Backs \in SUBSET (DOMAIN papers)
  OBVIOUS
<1> QED BY <1>1, <1>2 DEF Went, Came

\* The lines of some of the goods, with the sign of a return.
Tallied(V, rows, G, L, back, f) ==
    /\ G \in SUBSET Good /\ L \in SUBSET Flat(rows)
    /\ \A x \in Flat(rows) : x \in L <=> x[2] \in G
    /\ \A x \in L : x \in back <=> IsReturn(rows[x[1]])
    /\ \A x \in L : f[x] = V[<<rows[x[1]], x[2]>>]

LEMMA SignedLines ==
    ASSUME Shelf, NEW V, Column(V), NEW rows, NEW S, Lists(rows, S), NEW G, NEW L, NEW back,
           NEW f, Tallied(V, rows, G, L, back, f)
    PROVE  SumOver(f, L \ back) = Went(V, S, G) /\ SumOver(f, L \cap back) = Came(V, S, G)
<1>1. PICK out, in : out = L \ back /\ in = L \cap back
  OBVIOUS
<1>2. SumOver(f, out) = Went(V, S, G)
  <2>1. /\ out \in SUBSET Flat(rows) /\ \A x \in out : f[x] = V[<<rows[x[1]], x[2]>>]
        /\ \A x \in Flat(rows) : x \in out <=> x[2] \in G /\ ~IsReturn(rows[x[1]])
    BY <1>1 DEF Tallied
  <2> QED BY <2>1, WentLines DEF Tallied
<1>3. SumOver(f, in) = Came(V, S, G)
  <2>1. /\ in \in SUBSET Flat(rows) /\ \A x \in in : f[x] = V[<<rows[x[1]], x[2]>>]
        /\ \A x \in Flat(rows) : x \in in <=> x[2] \in G /\ IsReturn(rows[x[1]])
    BY <1>1 DEF Tallied
  <2> QED BY <2>1, CameLines DEF Tallied
<1> QED BY <1>1, <1>2, <1>3

LEMMA TallySigned ==
    ASSUME Shelf, NEW V, Column(V), NEW rows, NEW S, Lists(rows, S), NEW G, NEW L, NEW back,
           NEW f, Tallied(V, rows, G, L, back, f)
    PROVE  Signed(f, L, back) = Went(V, S, G) - Came(V, S, G)
<1>1. SumOver(f, L \ back) = Went(V, S, G) /\ SumOver(f, L \cap back) = Came(V, S, G)
  BY SignedLines
<1> QED BY <1>1 DEF Signed

-----------------------------------------------------------------------------
(* Stock in the reports.                                                   *)

LEMMA ProductSums ==
    ASSUME Booked(papers), NEW rows, NEW S, Lists(rows, S), NEW g \in Good
    PROVE  /\ ProductRow(rows, g).sold = Went(Pieces, S, {g})
           /\ ProductRow(rows, g).returned = Came(Pieces, S, {g})
           /\ ProductRow(rows, g).net = Went(Finals, S, {g}) - Came(Finals, S, {g})
<1> DEFINE shown == {x \in Flat(rows) : x[2] = g}
           back == {x \in shown : IsReturn(rows[x[1]])}
           units == [x \in shown |-> papers[rows[x[1]]].units[g]]
           final == [x \in shown |-> papers[rows[x[1]]].final[g]]
<1>1. /\ ProductRow(rows, g).sold = SumOver(units, shown \ back)
      /\ ProductRow(rows, g).returned = SumOver(units, back)
      /\ ProductRow(rows, g).net = Signed(final, shown, back)
  BY DEF ProductRow
<1>2. PICK G \in SUBSET Good : G = {g}
  OBVIOUS
<1>3. ASSUME NEW x \in shown
      PROVE  /\ units[x] = Pieces[<<rows[x[1]], x[2]>>]
             /\ final[x] = Finals[<<rows[x[1]], x[2]>>]
  <2>1. rows[x[1]] \in DOMAIN papers /\ x[2] = g
    BY LineOf
  <2> QED BY <2>1, CellValues
<1>4. Shelf /\ Column(Pieces) /\ Column(Finals)
  BY ColumnsHold
<1>5. Tallied(Pieces, rows, G, shown, back, units)
  BY <1>2, <1>3 DEF Tallied
<1>6. Tallied(Finals, rows, G, shown, back, final)
  BY <1>2, <1>3 DEF Tallied
<1>7. back = shown \cap back
  OBVIOUS
<1> HIDE DEF shown, back, units, final
<1>8. /\ SumOver(units, shown \ back) = Went(Pieces, S, G)
      /\ SumOver(units, shown \cap back) = Came(Pieces, S, G)
  BY <1>4, <1>5, SignedLines
<1>9. Signed(final, shown, back) = Went(Finals, S, G) - Came(Finals, S, G)
  BY <1>4, <1>6, TallySigned
<1> QED BY <1>1, <1>2, <1>7, <1>8, <1>9

\* All goods, or some of them, together.
OfGood(V, I, g) == SumOver(V, Grid(I, {g}))
WentOf(V, S, g) == Went(V, S, {g})
CameOf(V, S, g) == Came(V, S, {g})

LEMMA GoodByGood ==
    ASSUME Shelf, NEW V, Column(V), NEW I \in SUBSET DOMAIN papers, NEW G \in SUBSET Good,
           NEW h, \A g \in G : h[g] = OfGood(V, I, g)
    PROVE  SumOver(h, G) = SumOver(V, Grid(I, G))
<1> DEFINE D == Grid(I, G)
           owner == [c \in D |-> c[2]]
           own == [g \in G |-> {c \in D : owner[c] = g}]
<1>1. D \in SUBSET Cells
  BY GridPart DEF Cells, Grid
<1>2. IsFiniteSet(D) /\ \A c \in D : V[c] \in Nat
  BY <1>1, CellSum
<1>3. IsFiniteSet(G)
  <2>1. IsFiniteSet(Good)
    BY AdjustmentsAssumption
  <2> QED BY <2>1, FS_Subset
<1>4. \A g \in G : own[g] = {c \in D : owner[c] = g}
  OBVIOUS
<1>5. D = {c \in D : owner[c] \in G}
  BY DEF Grid
<1>6. ASSUME NEW g \in G PROVE h[g] = SumOver(V, own[g])
  <2>1. own[g] = Grid(I, {g})
    BY DEF Grid
  <2> QED BY <2>1 DEF OfGood
<1> HIDE DEF D, owner, own
<1>7. SumOver(h, G) = SumOver(V, D)
  BY <1>2, <1>3, <1>4, <1>5, <1>6, SumOfSums
<1> QED BY <1>7 DEF D

LEMMA WentByGood ==
    ASSUME Shelf, NEW V, Column(V), NEW S \in SUBSET DOMAIN papers, NEW G \in SUBSET Good,
           NEW a, NEW b, \A g \in G : a[g] = WentOf(V, S, g) /\ b[g] = CameOf(V, S, g)
    PROVE  SumOver(a, G) = Went(V, S, G) /\ SumOver(b, G) = Came(V, S, G)
<1>1. PICK I, J \in SUBSET (DOMAIN papers) : I = S \ Backs /\ J = S \cap Backs
  OBVIOUS
<1>2. SumOver(a, G) = SumOver(V, Grid(I, G))
  <2>1. \A g \in G : a[g] = OfGood(V, I, g)
    BY <1>1 DEF Went, WentOf, OfGood
  <2> QED BY <1>1, <2>1, GoodByGood
<1>3. SumOver(b, G) = SumOver(V, Grid(J, G))
  <2>1. \A g \in G : b[g] = OfGood(V, J, g)
    BY <1>1 DEF Came, CameOf, OfGood
  <2> QED BY <1>1, <2>1, GoodByGood
<1> QED BY <1>1, <1>2, <1>3 DEF Went, Came

\* Pieces of one good, by papers.
LEMMA OneGoodSum ==
    ASSUME Booked(papers), NEW I \in SUBSET DOMAIN papers, NEW g \in Good
    PROVE  SumOver(UnitColumn(papers, g), I) = SumOver(Pieces, Grid(I, {g}))
<1> DEFINE q == [i \in I |-> <<i, g>>]
           f == UnitColumn(papers, g)
<1>1. q \in Bijection(I, Grid(I, {g}))
  <2>1. q \in [I -> Grid(I, {g})]
    BY DEF Grid
  <2>2. \A i, j \in I : q[i] = q[j] => i = j
    OBVIOUS
  <2>3. \A c \in Grid(I, {g}) : \E i \in I : q[i] = c
    BY DEF Grid
  <2> HIDE DEF q
  <2> QED BY <2>1, <2>2, <2>3 DEF Bijection, Injection, Surjection, IsInjective
<1>2. IsFiniteSet(I)
  BY DomainFinite DEF Booked
<1>3. \A i \in I : f[i] = Pieces[q[i]] /\ f[i] \in Nat
  <2> SUFFICES ASSUME NEW i \in I PROVE f[i] = Pieces[<<i, g>>] /\ f[i] \in Nat
    OBVIOUS
  <2>1. f[i] \in Nat /\ f[i] = papers[i].units[g]
    BY UnitSums DEF Booked
  <2> QED BY <2>1, CellValues
<1> HIDE DEF q, f
<1>4. SumOver(f, I) = SumOver(Pieces, Grid(I, {g}))
  BY <1>1, <1>2, <1>3, SumReindex
<1> QED BY <1>4 DEF f

\* The papers of two periods that follow each other.
LEMMA Periods2 ==
    ASSUME Booked(papers), NEW from \in Minutes
    PROVE  /\ InPeriod(from, LastMinute + Ahead) \cup InPeriod(0, from - 1) = Undone
           /\ InPeriod(from, LastMinute + Ahead) \cap InPeriod(0, from - 1) = {}
           /\ InPeriod(0, LastMinute + Ahead) = Undone
           /\ Undone \in SUBSET DOMAIN papers
           /\ Purchases(papers) = Undone \ Backs
           /\ LiveOfType(papers, {"return"}) = Undone \cap Backs
<1>1. ASSUME NEW i \in DOMAIN papers
      PROVE  /\ papers[i].status \in Reported <=> Live(papers, i)
             /\ papers[i].at \in Nat /\ papers[i].at <= LastMinute + Ahead
             /\ papers[i].type \in {"sale", "exchange"} <=> ~IsReturn(i)
             /\ papers[i].type \in {"return"} <=> IsReturn(i)
  <2>1. papers[i] \in PaperRecord
    BY PaperFields DEF Booked
  <2> QED BY <2>1, Clocks DEF Live, PaperRecord, Reported, IsReturn
<1>2. from \in Nat /\ from <= LastMinute + Ahead /\ LastMinute + Ahead \in Nat
  BY Clocks
<1> QED BY <1>1, <1>2 DEF InPeriod, Undone, Purchases, LiveOfType, Backs

LEMMA GoodOut ==
    ASSUME Booked(papers), NEW g \in Good
    PROVE  Out(papers, g) = Went(Pieces, Undone, {g}) /\ In(papers, g) = Came(Pieces, Undone, {g})
<1>1. 0 \in Minutes
  BY Clocks
<1>2. /\ Purchases(papers) = Undone \ Backs /\ LiveOfType(papers, {"return"}) = Undone \cap Backs
      /\ Undone \in SUBSET (DOMAIN papers)
  BY <1>1, Periods2
<1> QED BY <1>2, OneGoodSum DEF Out, In, Went, Came

\* What went out of two disjoint sets of papers.
LEMMA WentUnion ==
    ASSUME Shelf, NEW V, Column(V), NEW S \in SUBSET DOMAIN papers, NEW T \in SUBSET DOMAIN papers,
           S \cap T = {}, NEW G \in SUBSET Good, NEW U, U = S \cup T
    PROVE  /\ Went(V, U, G) = Went(V, S, G) + Went(V, T, G)
           /\ Came(V, U, G) = Came(V, S, G) + Came(V, T, G)
<1>1. ASSUME NEW I \in SUBSET (DOMAIN papers), NEW J \in SUBSET (DOMAIN papers), I \cap J = {}
      PROVE  SumOver(V, Grid(I \cup J, G)) = SumOver(V, Grid(I, G)) + SumOver(V, Grid(J, G))
  <2>1. PICK A, B : A = Grid(I, G) /\ B = Grid(J, G)
    OBVIOUS
  <2>2. A \in SUBSET Cells /\ B \in SUBSET Cells
    BY <2>1, GridPart DEF Grid, Cells
  <2>3. /\ IsFiniteSet(A) /\ IsFiniteSet(B)
        /\ \A c \in A \cup B : V[c] \in Int
    BY <2>2, CellSum
  <2>4. A \cap B = {} /\ Grid(I \cup J, G) = A \cup B
    BY <1>1, <2>1 DEF Grid
  <2>5. SumOver(V, A \cup B) = SumOver(V, A) + SumOver(V, B)
    BY <2>3, <2>4, SumUnion
  <2> QED BY <2>1, <2>4, <2>5
<1>2. /\ U \ Backs = (S \ Backs) \cup (T \ Backs)
      /\ U \cap Backs = (S \cap Backs) \cup (T \cap Backs)
  OBVIOUS
<1>3. PICK I, J, K, L \in SUBSET (DOMAIN papers) :
         I = S \ Backs /\ J = T \ Backs /\ K = S \cap Backs /\ L = T \cap Backs
  OBVIOUS
<1>4. I \cap J = {} /\ K \cap L = {}
  BY <1>3
<1> QED BY <1>1, <1>2, <1>3, <1>4 DEF Went, Came

LEMMA MoveFields ==
    ASSUME moves \in Seq(MoveRecord), NEW k \in DOMAIN moves
    PROVE  /\ moves[k].type \in MoveTypes /\ moves[k].good \in Good
           /\ moves[k].way \in {"in", "out"} /\ moves[k].at \in Nat /\ moves[k].at >= 0
           /\ moves[k].type = "PURCHASE" => moves[k].way = "in"
<1>1. moves[k] \in MoveRecord
  OBVIOUS
<1>2. \A m \in MoveRecord : /\ m.type \in MoveTypes /\ m.good \in Good /\ m.way \in {"in", "out"}
                            /\ m.at \in Minutes /\ (m.type = "PURCHASE" => m.way = "in")
  BY DEF MoveRecord
<1> QED BY <1>1, <1>2, Clocks

LEMMA MovesFacts ==
    ASSUME moves \in Seq(MoveRecord), NEW rows \in SUBSET (DOMAIN moves)
    PROVE  /\ IsFiniteSet(rows) /\ Cardinality(rows) \in Nat
           /\ \A k \in rows : moves[k].good \in Good
<1>1. DOMAIN moves = 1 .. Len(moves) /\ Len(moves) \in Nat
  OBVIOUS
<1>2. IsFiniteSet(DOMAIN moves)
  BY <1>1, FS_Interval
<1>3. IsFiniteSet(rows)
  BY <1>2, FS_Subset
<1>4. \A k \in DOMAIN moves : moves[k].good \in Good
  BY MoveFields
<1> QED BY <1>3, <1>4, FS_CardinalityType

\* Movements of disjoint types.
LEMMA FlowSplits ==
    ASSUME moves \in Seq(MoveRecord), NEW g, NEW S, NEW T, S \cap T = {}, NEW way, NEW from
    PROVE  Flow(g, S \cup T, way, from) = Flow(g, S, way, from) + Flow(g, T, way, from)
<1> DEFINE rows(types) == {k \in Shifted(types, way) : moves[k].good = g /\ moves[k].at >= from}
<1>1. PICK a, b, c : a = rows(S) /\ b = rows(T) /\ c = rows(S \cup T)
  OBVIOUS
<1>2. a \in SUBSET (DOMAIN moves) /\ b \in SUBSET (DOMAIN moves)
  BY <1>1 DEF Shifted
<1>3. c = a \cup b /\ a \cap b = {}
  BY <1>1 DEF Shifted
<1>4. IsFiniteSet(a) /\ IsFiniteSet(b) /\ Cardinality(a) \in Nat /\ Cardinality(b) \in Nat
  BY <1>2, MovesFacts
<1>5. Cardinality(c) = Cardinality(a) + Cardinality(b) - Cardinality(a \cap b)
  BY <1>3, <1>4, FS_Union
<1>6. Cardinality(a \cap b) = 0
  BY <1>3, FS_EmptySet
<1>7. Cardinality(c) = Cardinality(a) + Cardinality(b)
  BY <1>4, <1>5, <1>6
<1> QED BY <1>1, <1>7 DEF Flow

\* What a report counts of a type, whichever way it went.
LEMMA MovedIsFlow ==
    ASSUME moves \in Seq(MoveRecord), NEW g, NEW type, NEW from
    PROVE  Moved(g, type, from) = Flow(g, {type}, "in", from) + Flow(g, {type}, "out", from)
<1> DEFINE rows(way) == {k \in Shifted({type}, way) : moves[k].good = g /\ moves[k].at >= from}
<1>1. PICK a, b, c : /\ a = rows("in") /\ b = rows("out")
                     /\ c = {k \in DOMAIN moves : moves[k].good = g /\ moves[k].type = type
                                                     /\ moves[k].at >= from}
  OBVIOUS
<1>2. a \in SUBSET (DOMAIN moves) /\ b \in SUBSET (DOMAIN moves) /\ c \in SUBSET (DOMAIN moves)
  BY <1>1 DEF Shifted
<1>3. \A k \in DOMAIN moves : moves[k].way \in {"in", "out"}
  BY MoveFields
<1>4. c = a \cup b /\ a \cap b = {}
  BY <1>1, <1>3 DEF Shifted
<1>5. IsFiniteSet(a) /\ IsFiniteSet(b) /\ Cardinality(a) \in Nat /\ Cardinality(b) \in Nat
  BY <1>2, MovesFacts
<1>6. Cardinality(c) = Cardinality(a) + Cardinality(b) - Cardinality(a \cap b)
  BY <1>4, <1>5, FS_Union
<1>7. Cardinality(a \cap b) = 0
  BY <1>4, FS_EmptySet
<1>8. Cardinality(c) = Cardinality(a) + Cardinality(b)
  BY <1>5, <1>6, <1>7
<1> QED BY <1>1, <1>8 DEF Flow, Moved

\* A receipt brings goods, and nothing is written off.
LEMMA NoFlow ==
    ASSUME moves \in Seq(MoveRecord), NEW g, NEW from
    PROVE  /\ Flow(g, {"PURCHASE"}, "out", from) = 0
           /\ Moved(g, "WRITE_OFF", from) = 0
<1>1. Shifted({"PURCHASE"}, "out") = {}
  BY MoveFields DEF Shifted
<1>2. {k \in Shifted({"PURCHASE"}, "out") : moves[k].good = g /\ moves[k].at >= from} = {}
  BY <1>1
<1>3. {k \in DOMAIN moves : moves[k].good = g /\ moves[k].type = "WRITE_OFF"
                               /\ moves[k].at >= from} = {}
  BY MoveFields DEF MoveTypes
<1> QED BY <1>2, <1>3, FS_EmptySet DEF Flow, Moved

\* All the movements of a good, by type.
LEMMA FlowParts ==
    ASSUME moves \in Seq(MoveRecord), NEW g, NEW from
    PROVE  /\ Moved(g, "PURCHASE", from) = Flow(g, {"PURCHASE"}, "in", from)
           /\ Moved(g, "TRANSFER", from) =
                  Flow(g, {"TRANSFER"}, "in", from) + Flow(g, {"TRANSFER"}, "out", from)
           /\ Moved(g, "WRITE_OFF", from) = 0
           /\ \A way \in {"in", "out"} :
                 /\ Flow(g, {"TRANSFER", "ADJUSTMENT"}, way, from) =
                        Flow(g, {"TRANSFER"}, way, from) + Flow(g, {"ADJUSTMENT"}, way, from)
                 /\ Flow(g, MoveTypes, way, from) =
                        Flow(g, {"PURCHASE"}, way, from)
                          + Flow(g, {"TRANSFER", "ADJUSTMENT"}, way, from)
           /\ Flow(g, {"PURCHASE"}, "out", from) = 0
<1>1. /\ {"TRANSFER", "ADJUSTMENT"} = {"TRANSFER"} \cup {"ADJUSTMENT"}
      /\ {"TRANSFER"} \cap {"ADJUSTMENT"} = {}
      /\ MoveTypes = {"PURCHASE"} \cup {"TRANSFER", "ADJUSTMENT"}
      /\ {"PURCHASE"} \cap {"TRANSFER", "ADJUSTMENT"} = {}
  BY DEF MoveTypes
<1>2. ASSUME NEW way \in {"in", "out"}
      PROVE  /\ Flow(g, {"TRANSFER"} \cup {"ADJUSTMENT"}, way, from) =
                    Flow(g, {"TRANSFER"}, way, from) + Flow(g, {"ADJUSTMENT"}, way, from)
             /\ Flow(g, {"PURCHASE"} \cup {"TRANSFER", "ADJUSTMENT"}, way, from) =
                    Flow(g, {"PURCHASE"}, way, from)
                      + Flow(g, {"TRANSFER", "ADJUSTMENT"}, way, from)
  BY <1>1, FlowSplits
<1>3. /\ Moved(g, "PURCHASE", from) =
             Flow(g, {"PURCHASE"}, "in", from) + Flow(g, {"PURCHASE"}, "out", from)
      /\ Moved(g, "TRANSFER", from) =
             Flow(g, {"TRANSFER"}, "in", from) + Flow(g, {"TRANSFER"}, "out", from)
  BY MovedIsFlow
<1>4. Flow(g, {"PURCHASE"}, "in", from) \in Nat
  BY FlowType
<1>5. Flow(g, {"PURCHASE"}, "out", from) = 0 /\ Moved(g, "WRITE_OFF", from) = 0
  BY NoFlow
<1> QED BY <1>1, <1>2, <1>3, <1>4, <1>5

\* Rows, counted owner by owner.
LEMMA OwnersCount ==
    ASSUME NEW D, IsFiniteSet(D), NEW owner, NEW own,
           \A g \in Good : own[g] = {k \in D : owner[k] = g},
           NEW R, R = {k \in D : owner[k] \in Good},
           NEW h, \A g \in Good : h[g] = Cardinality(own[g])
    PROVE  SumOver(h, Good) = Cardinality(R)
<1>1. PICK one : one = [k \in D |-> 1]
  OBVIOUS
<1>2. (\A k \in D : one[k] = 1) /\ (\A k \in D : one[k] \in Nat)
  BY <1>1
<1>3. IsFiniteSet(Good)
  BY AdjustmentsAssumption
<1>4. \A g \in Good : h[g] = SumOver(one, own[g])
  <2> SUFFICES ASSUME NEW g \in Good PROVE h[g] = SumOver(one, own[g])
    OBVIOUS
  <2>1. own[g] \in SUBSET D
    OBVIOUS
  <2>2. IsFiniteSet(own[g]) /\ \A k \in own[g] : one[k] = 1
    BY <1>2, <2>1, FS_Subset
  <2> QED BY <2>2, SumOfOnes
<1>5. SumOver(h, Good) = SumOver(one, R)
  BY <1>2, <1>3, <1>4, SumOfSums
<1>6. R \in SUBSET D
  OBVIOUS
<1>7. IsFiniteSet(R) /\ \A k \in R : one[k] = 1
  BY <1>2, <1>6, FS_Subset
<1>8. SumOver(one, R) = Cardinality(R)
  BY <1>7, SumOfOnes
<1> QED BY <1>5, <1>8

LEMMA CountedByGood ==
    ASSUME moves \in Seq(MoveRecord), NEW D \in SUBSET (DOMAIN moves), NEW h,
           \A g \in Good : h[g] = Cardinality({k \in D : moves[k].good = g})
    PROVE  SumOver(h, Good) = Cardinality(D)
<1>1. PICK owner : owner = [k \in D |-> moves[k].good]
  OBVIOUS
<1>2. PICK own : own = [g \in Good |-> {k \in D : owner[k] = g}]
  OBVIOUS
<1>3. IsFiniteSet(D) /\ \A k \in D : moves[k].good \in Good
  BY MovesFacts
<1>4. \A g \in Good : own[g] = {k \in D : owner[k] = g}
  BY <1>2
<1>5. D = {k \in D : owner[k] \in Good}
  BY <1>1, <1>3
<1>6. ASSUME NEW g \in Good PROVE h[g] = Cardinality(own[g])
  <2>1. own[g] = {k \in D : moves[k].good = g}
    BY <1>1, <1>2
  <2> QED BY <2>1
<1>7. PICK f : f = h /\ \A g \in Good : f[g] = Cardinality(own[g])
  BY <1>6
<1>8. IsFiniteSet(D)
  BY <1>3
<1>9. SumOver(f, Good) = Cardinality(D)
  BY <1>4, <1>5, <1>7, <1>8, OwnersCount
<1> QED BY <1>7, <1>9

LEMMA FlowByGood ==
    ASSUME moves \in Seq(MoveRecord), NEW types, NEW way, NEW h,
           \A g \in Good : h[g] = Flow(g, types, way, 0)
    PROVE  SumOver(h, Good) = Cardinality(Shifted(types, way))
<1>1. PICK D : D = Shifted(types, way)
  OBVIOUS
<1>2. D \in SUBSET (DOMAIN moves)
  BY <1>1 DEF Shifted
<1>3. ASSUME NEW g \in Good PROVE h[g] = Cardinality({k \in D : moves[k].good = g})
  <2>1. {k \in D : moves[k].good = g /\ moves[k].at >= 0} = {k \in D : moves[k].good = g}
    BY <1>2, MoveFields
  <2> QED BY <1>1, <2>1 DEF Flow
<1>4. SumOver(h, Good) = Cardinality(D)
  BY <1>2, <1>3, CountedByGood
<1> QED BY <1>1, <1>4

LEMMA MovedByGood ==
    ASSUME moves \in Seq(MoveRecord), NEW type, NEW h,
           \A g \in Good : h[g] = Moved(g, type, 0)
    PROVE  SumOver(h, Good) = Cardinality(MovesSince(type, 0))
<1>1. PICK D : D = MovesSince(type, 0)
  OBVIOUS
<1>2. D \in SUBSET (DOMAIN moves)
  BY <1>1 DEF MovesSince
<1>3. ASSUME NEW g \in Good PROVE h[g] = Cardinality({k \in D : moves[k].good = g})
  <2>1. {k \in DOMAIN moves : moves[k].good = g /\ moves[k].type = type /\ moves[k].at >= 0}
            = {k \in D : moves[k].good = g}
    BY <1>1 DEF MovesSince
  <2> QED BY <2>1 DEF Moved
<1>4. SumOver(h, Good) = Cardinality(D)
  BY <1>2, <1>3, CountedByGood
<1> QED BY <1>1, <1>4

\* Rows of a period: what went out and came back of one good.
LEMMA StartIsThere ==
    ASSUME PapersInv, NEW from \in Minutes
    PROVE  StockWasThere(from)
<1> DEFINE late == InPeriod(from, LastMinute + Ahead)
           sooner == InPeriod(0, from - 1)
           rows == Sorted(late)
           earlier == Sorted(sooner)
<1>1. /\ late \cup sooner = Undone /\ late \cap sooner = {}
      /\ Undone \in SUBSET (DOMAIN papers)
      /\ late \in SUBSET (DOMAIN papers) /\ sooner \in SUBSET (DOMAIN papers)
  BY Periods2, PapersFacts, PeriodPapers
<1>2. Booked(papers) /\ Shelf /\ Column(Pieces)
  BY PapersFacts, ColumnsHold
<1> HIDE DEF late, sooner
<1>3. Lists(rows, late) /\ Lists(earlier, sooner)
  BY <1>1, <1>2, SortedIsList
<1> HIDE DEF rows, earlier
<1>4. ASSUME NEW g \in Good
      PROVE  LET was == OpeningStock
                    - ProductRow(earlier, g).sold + ProductRow(earlier, g).returned
                    + Net(g, MoveTypes, 0) - Net(g, MoveTypes, from)
                 received == Moved(g, "PURCHASE", 0)
             IN  /\ StartStock(rows, g, from) =
                       was + 2 * Flow(g, {"TRANSFER"}, "in", from) + Net(g, {"ADJUSTMENT"}, from)
                 /\ ImportRow(g, received).left <= StockRow(g).quantity
                 /\ BeginStock(rows, g, from) =
                       was + ProductRow(rows, g).returned
                           + Net(g, {"TRANSFER", "ADJUSTMENT"}, from)
  <2>1. /\ ProductRow(rows, g).sold = Went(Pieces, late, {g})
        /\ ProductRow(rows, g).returned = Came(Pieces, late, {g})
        /\ ProductRow(earlier, g).sold = Went(Pieces, sooner, {g})
        /\ ProductRow(earlier, g).returned = Came(Pieces, sooner, {g})
    BY <1>2, <1>3, ProductSums
  <2>2. /\ Out(papers, g) = Went(Pieces, Undone, {g}) /\ In(papers, g) = Came(Pieces, Undone, {g})
    BY <1>2, GoodOut
  <2>3. PICK G \in SUBSET Good : G = {g}
    OBVIOUS
  <2>4. /\ Went(Pieces, Undone, G) = Went(Pieces, late, G) + Went(Pieces, sooner, G)
        /\ Came(Pieces, Undone, G) = Came(Pieces, late, G) + Came(Pieces, sooner, G)
    BY <1>1, <1>2, WentUnion
  <2>5. /\ Went(Pieces, late, G) \in Nat /\ Went(Pieces, sooner, G) \in Nat
        /\ Came(Pieces, late, G) \in Nat /\ Came(Pieces, sooner, G) \in Nat
    BY <1>1, <1>2, WentType
  <2>6. moves \in Seq(MoveRecord)
    BY DEF PapersInv, AdjustmentsTypeOK
  <2>7. onHand[g] \in Nat /\ OpeningStock \in Nat
    BY PapersFacts, AdjustmentsAssumption
  <2>8. onHand[g] + Out(papers, g) + Flow(g, MoveTypes, "out", 0) =
            OpeningStock + In(papers, g) + Flow(g, MoveTypes, "in", 0)
    BY DEF PapersInv, Shelved
  <2>9. PICK a, b, c, d, e, m, n :
           /\ a = Went(Pieces, late, G) /\ b = Went(Pieces, sooner, G)
           /\ c = Came(Pieces, late, G) /\ d = Came(Pieces, sooner, G)
           /\ e = onHand[g]
           /\ m = Flow(g, MoveTypes, "in", 0) /\ n = Flow(g, MoveTypes, "out", 0)
    OBVIOUS
  <2>10. PICK p, ti, to, ai, ao, q :
            /\ p = Flow(g, {"PURCHASE"}, "in", from)
            /\ ti = Flow(g, {"TRANSFER"}, "in", from) /\ to = Flow(g, {"TRANSFER"}, "out", from)
            /\ ai = Flow(g, {"ADJUSTMENT"}, "in", from)
            /\ ao = Flow(g, {"ADJUSTMENT"}, "out", from)
            /\ q = Moved(g, "PURCHASE", 0)
    OBVIOUS
  <2>11. /\ a \in Nat /\ b \in Nat /\ c \in Nat /\ d \in Nat /\ e \in Nat
         /\ m \in Nat /\ n \in Nat
    BY <2>5, <2>6, <2>7, <2>9, FlowType
  <2>12. p \in Nat /\ ti \in Nat /\ to \in Nat /\ ai \in Nat /\ ao \in Nat
    BY <2>6, <2>10, FlowType
  <2>13. q \in Nat
    <3>1. q = Flow(g, {"PURCHASE"}, "in", 0)
      BY <2>6, <2>10, FlowParts
    <3> QED BY <2>6, <3>1, FlowType
  <2>14. e + (a + b) + n = OpeningStock + (c + d) + m
    BY <2>2, <2>3, <2>4, <2>8, <2>9
  <2>15. /\ Moved(g, "PURCHASE", from) = p /\ Moved(g, "TRANSFER", from) = ti + to
         /\ Moved(g, "WRITE_OFF", from) = 0
    BY <2>6, <2>10, FlowParts
  <2>16. /\ Flow(g, {"TRANSFER", "ADJUSTMENT"}, "in", from) = ti + ai
         /\ Flow(g, {"TRANSFER", "ADJUSTMENT"}, "out", from) = to + ao
    BY <2>6, <2>10, FlowParts
  <2>17. /\ Flow(g, MoveTypes, "in", from) = p + (ti + ai)
         /\ Flow(g, MoveTypes, "out", from) = to + ao
    <3>1. /\ Flow(g, MoveTypes, "in", from) = Flow(g, {"PURCHASE"}, "in", from)
                 + Flow(g, {"TRANSFER", "ADJUSTMENT"}, "in", from)
          /\ Flow(g, MoveTypes, "out", from) = Flow(g, {"PURCHASE"}, "out", from)
                 + Flow(g, {"TRANSFER", "ADJUSTMENT"}, "out", from)
          /\ Flow(g, {"PURCHASE"}, "out", from) = 0
      BY <2>6, FlowParts
    <3>2. Flow(g, MoveTypes, "in", from) = p + (ti + ai)
      BY <2>10, <2>16, <3>1
    <3>3. Flow(g, MoveTypes, "out", from) = 0 + (to + ao)
      BY <2>16, <3>1
    <3> QED BY <2>12, <3>2, <3>3
  <2>18. /\ Net(g, MoveTypes, 0) = m - n /\ Net(g, MoveTypes, from) = p + (ti + ai) - (to + ao)
         /\ Net(g, {"ADJUSTMENT"}, from) = ai - ao
         /\ Net(g, {"TRANSFER", "ADJUSTMENT"}, from) = ti + ai - (to + ao)
    <3>1. /\ Net(g, MoveTypes, 0) = Flow(g, MoveTypes, "in", 0) - Flow(g, MoveTypes, "out", 0)
          /\ Net(g, MoveTypes, from) =
                Flow(g, MoveTypes, "in", from) - Flow(g, MoveTypes, "out", from)
          /\ Net(g, {"ADJUSTMENT"}, from) =
                Flow(g, {"ADJUSTMENT"}, "in", from) - Flow(g, {"ADJUSTMENT"}, "out", from)
          /\ Net(g, {"TRANSFER", "ADJUSTMENT"}, from) =
                Flow(g, {"TRANSFER", "ADJUSTMENT"}, "in", from)
                  - Flow(g, {"TRANSFER", "ADJUSTMENT"}, "out", from)
      BY DEF Net
    <3>2. Net(g, MoveTypes, 0) = m - n
      BY <2>9, <3>1
    <3>3. Net(g, {"ADJUSTMENT"}, from) = ai - ao
      BY <2>10, <3>1
    <3>4. Net(g, {"TRANSFER", "ADJUSTMENT"}, from) = ti + ai - (to + ao)
      BY <2>12, <2>16, <3>1
    <3>5. Net(g, MoveTypes, from) = p + (ti + ai) - (to + ao)
      BY <2>12, <2>17, <3>1
    <3> QED BY <3>2, <3>3, <3>4, <3>5
  <2>19. /\ StartStock(rows, g, from) = e - p - c + a + 0 + (ti + to)
         /\ BeginStock(rows, g, from) = e + a + 0 - p
         /\ ProductRow(rows, g).returned = c /\ ProductRow(earlier, g).sold = b
         /\ ProductRow(earlier, g).returned = d
    BY <2>1, <2>3, <2>9, <2>15 DEF StartStock, BeginStock
  <2>20. ImportRow(g, q).left <= e /\ StockRow(g).quantity = e
    BY <2>9, <2>11, <2>13 DEF ImportRow, Positive, StockRow
  <2>21. e - p - c + a + 0 + (ti + to) =
            OpeningStock - b + d + (m - n) - (p + (ti + ai) - (to + ao)) + 2 * ti + (ai - ao)
    BY <2>7, <2>11, <2>12, <2>14
  <2>22. e + a + 0 - p =
            OpeningStock - b + d + (m - n) - (p + (ti + ai) - (to + ao)) + c
              + (ti + ai - (to + ao))
    BY <2>7, <2>11, <2>12, <2>14
  <2> QED BY <2>10, <2>18, <2>19, <2>20, <2>21, <2>22
<1> QED BY <1>4 DEF StockWasThere, rows, earlier, late, sooner

\* No more of a good came back than went out.
LEMMA InWithinOut ==
    ASSUME Booked(papers), NEW g \in Good
    PROVE  In(papers, g) <= Out(papers, g)
<1> DEFINE f == UnitColumn(papers, g)
           sales == {b \in Purchases(papers) : papers[b].type = "sale"}
           back == LiveOfType(papers, {"return"})
           owner == [i \in back |-> papers[i].base]
           own == [b \in sales |-> {i \in back : owner[i] = b}]
           h == [b \in sales |-> SumOver(f, own[b])]
<1>1. papers \in Seq(PaperRecord)
  BY DEF Booked
<1>2. /\ back \in SUBSET (DOMAIN papers) /\ Purchases(papers) \in SUBSET (DOMAIN papers)
      /\ sales \in SUBSET (DOMAIN papers) /\ sales \in SUBSET Purchases(papers)
  BY PaperSets
<1>3. IsFiniteSet(back) /\ IsFiniteSet(sales) /\ IsFiniteSet(Purchases(papers))
  BY <1>1, <1>2, DomainFinite
<1>4. \A i \in DOMAIN papers : f[i] \in Nat /\ f[i] = papers[i].units[g]
  BY <1>1, UnitSums
<1>5. \A i \in back : papers[i].base \in sales
  <2> SUFFICES ASSUME NEW i \in back PROVE papers[i].base \in sales
    OBVIOUS
  <2>1. i \in DOMAIN papers /\ Live(papers, i) /\ papers[i].type = "return"
    BY DEF LiveOfType
  <2>2. /\ papers[i].base \in DOMAIN papers /\ papers[papers[i].base].type = "sale"
        /\ Live(papers, papers[i].base)
    BY <2>1 DEF Booked, OfSale
  <2> QED BY <2>2 DEF Purchases, LiveOfType
<1>6. \A b \in sales : own[b] = {i \in back : owner[i] = b}
  OBVIOUS
<1>7. back = {i \in back : owner[i] \in sales}
  BY <1>5
<1>8. ASSUME NEW b \in sales PROVE h[b] \in Nat /\ h[b] <= f[b]
  <2>1. own[b] = ReturnsOf(papers, b)
    BY DEF ReturnsOf, LiveChildren, Children, LiveOfType
  <2>2. SumOver(f, ReturnsOf(papers, b)) <= papers[b].units[g]
    BY <1>2 DEF Booked, Fits
  <2>3. SumOver(f, ReturnsOf(papers, b)) \in Nat
    BY <1>1, UnitSums, PaperSets
  <2> QED BY <1>2, <1>4, <2>1, <2>2, <2>3
<1>9. \A b \in sales : h[b] = SumOver(f, own[b])
  OBVIOUS
<1>10. \A i \in back : f[i] \in Nat
  BY <1>2, <1>4
<1>11. \A b \in Purchases(papers) : f[b] \in Nat /\ f[b] \in Int
  <2> SUFFICES ASSUME NEW b \in Purchases(papers) PROVE f[b] \in Nat
    OBVIOUS
  <2>1. b \in DOMAIN papers
    BY <1>2
  <2> QED BY <1>4, <2>1
<1>111. \A b \in sales : h[b] \in Nat /\ f[b] \in Nat /\ h[b] <= f[b]
  <2> SUFFICES ASSUME NEW b \in sales PROVE f[b] \in Nat
    BY <1>8
  <2>1. b \in DOMAIN papers
    BY <1>2
  <2> QED BY <1>4, <2>1
<1> HIDE DEF f, sales, back, owner, own, h
<1>12. SumOver(h, sales) = SumOver(f, back)
  BY <1>3, <1>6, <1>7, <1>9, <1>10, SumOfSums
<1>13. SumOver(h, sales) <= SumOver(f, sales)
  BY <1>3, <1>111, SumMonotone
<1>14. SumOver(f, sales) <= SumOver(f, Purchases(papers))
  BY <1>2, <1>3, <1>11, SumPart
<1>15. /\ SumOver(f, sales) \in Nat /\ SumOver(h, sales) \in Nat
       /\ SumOver(f, Purchases(papers)) \in Nat
  <2>1. \A b \in sales : f[b] \in Int /\ h[b] \in Int
    BY <1>111
  <2> QED BY <1>3, <1>11, <2>1, SumType
<1>16. SumOver(f, back) <= SumOver(f, Purchases(papers))
  BY <1>12, <1>13, <1>14, <1>15
<1> QED BY <1>16 DEF In, Out, f, back

LEMMA TotalsSums ==
    ASSUME Booked(papers), NEW rows, NEW S, Lists(rows, S)
    PROVE  /\ GeneralTotals(rows).sold = Went(Pieces, S, Good)
           /\ GeneralTotals(rows).returned = Came(Pieces, S, Good)
           /\ GeneralTotals(rows).netUnits = Went(Pieces, S, Good) - Came(Pieces, S, Good)
           /\ GeneralTotals(rows).returnedSum = Came(Finals, S, Good)
           /\ GeneralTotals(rows).net = Went(Finals, S, Good) - Came(Finals, S, Good)
<1> DEFINE shown == Flat(rows)
           back == {x \in shown : IsReturn(rows[x[1]])}
           units == [x \in shown |-> papers[rows[x[1]]].units[x[2]]]
           final == [x \in shown |-> papers[rows[x[1]]].final[x[2]]]
<1>1. /\ GeneralTotals(rows).sold = SumOver(units, shown \ back)
      /\ GeneralTotals(rows).returned = SumOver(units, back)
      /\ GeneralTotals(rows).netUnits = Signed(units, shown, back)
      /\ GeneralTotals(rows).returnedSum = SumOver(final, back)
      /\ GeneralTotals(rows).net = Signed(final, shown, back)
  BY DEF GeneralTotals
<1>2. ASSUME NEW x \in shown
      PROVE  /\ units[x] = Pieces[<<rows[x[1]], x[2]>>]
             /\ final[x] = Finals[<<rows[x[1]], x[2]>>]
  <2>1. rows[x[1]] \in DOMAIN papers /\ x[2] \in Good
    BY LineOf
  <2> QED BY <2>1, CellValues
<1>3. \A x \in shown : x[2] \in Good
  BY LineOf
<1>4. Shelf /\ Column(Pieces) /\ Column(Finals)
  BY ColumnsHold
<1>5. Tallied(Pieces, rows, Good, shown, back, units)
  BY <1>2, <1>3 DEF Tallied
<1>6. Tallied(Finals, rows, Good, shown, back, final)
  BY <1>2, <1>3 DEF Tallied
<1>7. back = shown \cap back
  OBVIOUS
<1> HIDE DEF shown, back, units, final
<1>8. /\ SumOver(units, shown \ back) = Went(Pieces, S, Good)
      /\ SumOver(units, shown \cap back) = Came(Pieces, S, Good)
  BY <1>4, <1>5, SignedLines
<1>9. /\ SumOver(final, shown \ back) = Went(Finals, S, Good)
      /\ SumOver(final, shown \cap back) = Came(Finals, S, Good)
  BY <1>4, <1>6, SignedLines
<1>10. Signed(units, shown, back) = Went(Pieces, S, Good) - Came(Pieces, S, Good)
  BY <1>4, <1>5, TallySigned
<1>11. Signed(final, shown, back) = Went(Finals, S, Good) - Came(Finals, S, Good)
  BY <1>4, <1>6, TallySigned
<1> QED BY <1>1, <1>7, <1>8, <1>9, <1>10, <1>11

\* Of the receipts of a good that is not on the shelf any more, all are sold.
Gone(g) == IF onHand[g] = 0 THEN Moved(g, "PURCHASE", 0) ELSE 0

LEMMA SoldReceipts ==
    ASSUME PapersInv, NEW f,
           \A k \in MovesSince("PURCHASE", 0) : f[k] = Positive(1 - onHand[moves[k].good])
    PROVE  SumOver(f, MovesSince("PURCHASE", 0)) = SumOver([g \in Good |-> Gone(g)], Good)
<1> DEFINE D == MovesSince("PURCHASE", 0)
           h == [g \in Good |-> Gone(g)]
           owner == [k \in D |-> moves[k].good]
           own == [g \in Good |-> {k \in D : owner[k] = g}]
<1>1. IsFiniteSet(D) /\ \A k \in D : moves[k].good \in Good
  <2>1. D \in SUBSET (DOMAIN moves)
    BY DEF MovesSince
  <2> HIDE DEF D
  <2> QED BY <2>1, MovesFacts DEF PapersInv, AdjustmentsTypeOK
<1>2. IsFiniteSet(Good)
  BY AdjustmentsAssumption
<1>3. \A g \in Good : own[g] = {k \in D : owner[k] = g}
  OBVIOUS
<1>4. D = {k \in D : owner[k] \in Good}
  BY <1>1
<1>5. \A g \in Good : onHand[g] \in Nat
  BY PapersFacts
<1>6. \A k \in D : f[k] \in Nat /\ f[k] = IF onHand[moves[k].good] = 0 THEN 1 ELSE 0
  <2> SUFFICES ASSUME NEW k \in D
               PROVE  f[k] \in Nat /\ f[k] = IF onHand[moves[k].good] = 0 THEN 1 ELSE 0
    OBVIOUS
  <2>1. onHand[moves[k].good] \in Nat /\ f[k] = Positive(1 - onHand[moves[k].good])
    BY <1>1, <1>5
  <2> QED BY <2>1 DEF Positive
<1>7. \A g \in Good : h[g] = SumOver(f, own[g])
  <2> SUFFICES ASSUME NEW g \in Good PROVE Gone(g) = SumOver(f, own[g])
    OBVIOUS
  <2>1. own[g] \in SUBSET D /\ \A k \in own[g] : moves[k].good = g
    OBVIOUS
  <2>2. own[g] = {k \in DOMAIN moves :
                    moves[k].good = g /\ moves[k].type = "PURCHASE" /\ moves[k].at >= 0}
    BY DEF MovesSince
  <2>3. Moved(g, "PURCHASE", 0) = Cardinality(own[g])
    BY <2>2 DEF Moved
  <2> HIDE DEF own, D
  <2>4. IsFiniteSet(own[g])
    BY <1>1, <2>1, FS_Subset
  <2>5. CASE onHand[g] = 0
    <3>1. \A k \in own[g] : f[k] = 1
      BY <1>6, <2>1, <2>5
    <3>2. SumOver(f, own[g]) = Cardinality(own[g])
      BY <2>4, <3>1, SumOfOnes
    <3> QED BY <2>3, <2>5, <3>2 DEF Gone
  <2>6. CASE onHand[g] # 0
    <3>1. \A k \in own[g] : f[k] = 0
      BY <1>6, <2>1, <2>6
    <3> QED BY <2>6, <3>1, SumNothing DEF Gone
  <2> QED BY <2>5, <2>6
<1>8. \A k \in D : f[k] \in Nat
  BY <1>6
<1>9. IsFiniteSet(D)
  BY <1>1
<1> HIDE DEF D, h, owner, own
<1>10. SumOver(h, Good) = SumOver(f, D)
  BY <1>2, <1>3, <1>4, <1>7, <1>8, <1>9, SumOfSums
<1> QED BY <1>10 DEF D, h

LEMMA ReportFields ==
    ASSUME NEW rows
    PROVE  /\ ProductReport(rows).sold = GeneralTotals(rows).sold
           /\ ProductReport(rows).returned = GeneralTotals(rows).returned
           /\ ProductReport(rows).left = SumOver([g \in Good |-> onHand[g]], Good)
<1>1. ProductReport(rows).left = SumOver([g \in Good |-> StockRow(g).quantity], Good)
  BY DEF ProductReport
<1>2. \A g \in Good : StockRow(g).quantity = onHand[g]
  BY DEF StockRow
<1>3. [g \in Good |-> StockRow(g).quantity] = [g \in Good |-> onHand[g]]
  BY <1>2
<1> QED BY <1>1, <1>3 DEF ProductReport

LEMMA ReceiptFields ==
    ASSUME PapersInv
    PROVE  /\ ImportTotals(0).imported = Cardinality(MovesSince("PURCHASE", 0))
           /\ ImportTotals(0).sold = SumOver([g \in Good |-> Gone(g)], Good)
           /\ ImportSummary(0).sold = SumOver([g \in Good |-> Gone(g)], Good)
<1> DEFINE receipts == MovesSince("PURCHASE", 0)
           row == [k \in receipts |-> ImportRow(moves[k].good, 1)]
           f == [k \in receipts |-> row[k].sold]
           h == [k \in receipts |-> Positive(1 - onHand[moves[k].good])]
<1>1. /\ ImportTotals(0).imported = Cardinality(receipts)
      /\ ImportTotals(0).sold = SumOver(f, receipts)
  BY DEF ImportTotals
<1>2. ImportSummary(0).sold = SumOver(h, receipts)
  BY DEF ImportSummary
<1>4. \A k \in receipts : f[k] = Positive(1 - onHand[moves[k].good])
  BY DEF ImportRow
<1>5. \A k \in receipts : h[k] = Positive(1 - onHand[moves[k].good])
  OBVIOUS
<1> HIDE DEF row, f, h
<1>6. SumOver(f, receipts) = SumOver([g \in Good |-> Gone(g)], Good)
  BY <1>4, SoldReceipts
<1>7. SumOver(h, receipts) = SumOver([g \in Good |-> Gone(g)], Good)
  BY <1>5, SoldReceipts
<1> QED BY <1>1, <1>2, <1>6, <1>7

LEMMA StockBalances ==
    ASSUME PapersInv
    PROVE  StockAddsUp
<1> DEFINE shelf == [g \in Good |-> onHand[g]]
           a == [g \in Good |-> WentOf(Pieces, Undone, g)]
           b == [g \in Good |-> CameOf(Pieces, Undone, g)]
           p == [g \in Good |-> Moved(g, "PURCHASE", 0)]
           q == [g \in Good |-> Flow(g, {"TRANSFER", "ADJUSTMENT"}, "in", 0)]
           w == [g \in Good |-> Flow(g, MoveTypes, "out", 0)]
           open == [g \in Good |-> OpeningStock]
           gone == [g \in Good |-> Gone(g)]
           s1 == [g \in Good |-> shelf[g] + a[g]]
           s2 == [g \in Good |-> s1[g] + w[g]]
           t1 == [g \in Good |-> open[g] + b[g]]
           t2 == [g \in Good |-> t1[g] + p[g]]
           t3 == [g \in Good |-> t2[g] + q[g]]
           u1 == [g \in Good |-> gone[g] + b[g]]
           u2 == [g \in Good |-> a[g] + w[g]]
<1>1. Booked(papers) /\ Shelf /\ Column(Pieces) /\ Undone \in SUBSET (DOMAIN papers)
  BY PapersFacts, ColumnsHold DEF Undone
<1>2. IsFiniteSet(Good)
  BY AdjustmentsAssumption
<1>3. ASSUME NEW g \in Good
      PROVE  /\ shelf[g] \in Nat /\ a[g] \in Nat /\ b[g] \in Nat /\ p[g] \in Nat
             /\ q[g] \in Nat /\ w[g] \in Nat /\ open[g] \in Nat /\ gone[g] \in Nat
             /\ s2[g] = t3[g] /\ u1[g] <= u2[g]
  <2>1. PICK G \in SUBSET Good : G = {g}
    OBVIOUS
  <2>2. Went(Pieces, Undone, G) \in Nat /\ Came(Pieces, Undone, G) \in Nat
    BY <1>1, WentType
  <2>3. /\ Out(papers, g) = a[g] /\ In(papers, g) = b[g]
        /\ a[g] \in Nat /\ b[g] \in Nat
    BY <1>1, <2>1, <2>2, GoodOut DEF WentOf, CameOf
  <2>4. /\ p[g] \in Nat /\ q[g] \in Nat /\ w[g] \in Nat
        /\ Flow(g, MoveTypes, "in", 0) = p[g] + q[g]
    <3>1. moves \in Seq(MoveRecord)
      BY DEF PapersInv, AdjustmentsTypeOK
    <3>2. /\ Moved(g, "PURCHASE", 0) = Flow(g, {"PURCHASE"}, "in", 0)
          /\ Flow(g, MoveTypes, "in", 0) = Flow(g, {"PURCHASE"}, "in", 0)
                 + Flow(g, {"TRANSFER", "ADJUSTMENT"}, "in", 0)
      BY <3>1, FlowParts
    <3>3. /\ Flow(g, {"PURCHASE"}, "in", 0) \in Nat /\ Flow(g, MoveTypes, "out", 0) \in Nat
          /\ Flow(g, {"TRANSFER", "ADJUSTMENT"}, "in", 0) \in Nat
      BY <3>1, FlowType
    <3> QED BY <3>2, <3>3
  <2>5. shelf[g] \in Nat /\ open[g] \in Nat
    BY PapersFacts, AdjustmentsAssumption
  <2>6. shelf[g] + a[g] + w[g] = open[g] + b[g] + (p[g] + q[g])
    <3>1. onHand[g] + Out(papers, g) + Flow(g, MoveTypes, "out", 0) =
            OpeningStock + In(papers, g) + Flow(g, MoveTypes, "in", 0)
      BY DEF PapersInv, Shelved
    <3> QED BY <2>3, <2>4, <3>1
  <2>7. b[g] <= a[g]
    BY <1>1, <2>3, InWithinOut
  <2>8. /\ gone[g] = IF shelf[g] = 0 THEN p[g] ELSE 0
        /\ s2[g] = shelf[g] + a[g] + w[g] /\ t3[g] = open[g] + b[g] + p[g] + q[g]
        /\ u1[g] = gone[g] + b[g] /\ u2[g] = a[g] + w[g]
    BY DEF Gone
  <2> HIDE DEF shelf, a, b, p, q, w, open, gone, s1, s2, t1, t2, t3, u1, u2
  <2> QED BY <2>3, <2>4, <2>5, <2>6, <2>7, <2>8
<1>4. /\ \A g \in Good : shelf[g] \in Nat /\ a[g] \in Nat /\ s1[g] = shelf[g] + a[g]
      /\ \A g \in Good : s1[g] \in Nat /\ w[g] \in Nat /\ s2[g] = s1[g] + w[g]
      /\ \A g \in Good : open[g] \in Nat /\ b[g] \in Nat /\ t1[g] = open[g] + b[g]
      /\ \A g \in Good : t1[g] \in Nat /\ p[g] \in Nat /\ t2[g] = t1[g] + p[g]
      /\ \A g \in Good : t2[g] \in Nat /\ q[g] \in Nat /\ t3[g] = t2[g] + q[g]
      /\ \A g \in Good : gone[g] \in Nat /\ b[g] \in Nat /\ u1[g] = gone[g] + b[g]
      /\ \A g \in Good : a[g] \in Nat /\ w[g] \in Nat /\ u2[g] = a[g] + w[g]
      /\ \A g \in Good : u1[g] \in Nat /\ u2[g] \in Nat /\ u1[g] <= u2[g]
      /\ \A g \in Good : s2[g] = t3[g]
      /\ \A g \in Good : open[g] = OpeningStock
  BY <1>3
<1>5. /\ \A g \in Good : a[g] = WentOf(Pieces, Undone, g) /\ b[g] = CameOf(Pieces, Undone, g)
      /\ \A g \in Good : p[g] = Moved(g, "PURCHASE", 0)
      /\ \A g \in Good : q[g] = Flow(g, {"TRANSFER", "ADJUSTMENT"}, "in", 0)
      /\ \A g \in Good : w[g] = Flow(g, MoveTypes, "out", 0)
  OBVIOUS
<1> HIDE DEF shelf, a, b, p, q, w, open, gone, s1, s2, t1, t2, t3, u1, u2
<1>6. SumOver(s1, Good) = SumOver(shelf, Good) + SumOver(a, Good)
  BY <1>2, <1>4, SumAdd
<1>7. SumOver(s2, Good) = SumOver(s1, Good) + SumOver(w, Good)
  BY <1>2, <1>4, SumAdd
<1>8. SumOver(t1, Good) = SumOver(open, Good) + SumOver(b, Good)
  BY <1>2, <1>4, SumAdd
<1>9. SumOver(t2, Good) = SumOver(t1, Good) + SumOver(p, Good)
  BY <1>2, <1>4, SumAdd
<1>23. SumOver(t3, Good) = SumOver(t2, Good) + SumOver(q, Good)
  BY <1>2, <1>4, SumAdd
<1>10. SumOver(u1, Good) = SumOver(gone, Good) + SumOver(b, Good)
  BY <1>2, <1>4, SumAdd
<1>11. SumOver(u2, Good) = SumOver(a, Good) + SumOver(w, Good)
  BY <1>2, <1>4, SumAdd
<1>12. SumOver(u1, Good) <= SumOver(u2, Good)
  BY <1>2, <1>4, SumMonotone
<1>13. SumOver(s2, Good) = SumOver(t3, Good)
  BY <1>4, SumCongruence
<1>14. SumOver(open, Good) = Cardinality(Good) * OpeningStock
  <2>1. OpeningStock \in Nat
    BY AdjustmentsAssumption
  <2> QED BY <1>2, <1>4, <2>1, SumConstant
<1>15. SumOver(a, Good) = Went(Pieces, Undone, Good) /\ SumOver(b, Good) = Came(Pieces, Undone, Good)
  <2>1. Good \in SUBSET Good
    OBVIOUS
  <2> QED BY <1>1, <1>5, <2>1, WentByGood
<1>16. /\ SumOver(p, Good) = Cardinality(MovesSince("PURCHASE", 0))
       /\ SumOver(q, Good) = Cardinality(Shifted({"TRANSFER", "ADJUSTMENT"}, "in"))
       /\ SumOver(w, Good) = Cardinality(Shifted(MoveTypes, "out"))
  <2>1. moves \in Seq(MoveRecord)
    BY DEF PapersInv, AdjustmentsTypeOK
  <2> QED BY <1>5, <2>1, MovedByGood, FlowByGood
<1>17. /\ SumOver(shelf, Good) \in Nat /\ SumOver(a, Good) \in Nat /\ SumOver(b, Good) \in Nat
       /\ SumOver(p, Good) \in Nat /\ SumOver(w, Good) \in Nat /\ SumOver(gone, Good) \in Nat
       /\ SumOver(open, Good) \in Nat /\ SumOver(q, Good) \in Nat
  <2>1. \A n \in Nat : n \in Int
    OBVIOUS
  <2>2. /\ \A g \in Good : shelf[g] \in Int
        /\ \A g \in Good : a[g] \in Int
        /\ \A g \in Good : b[g] \in Int
        /\ \A g \in Good : p[g] \in Int
        /\ \A g \in Good : q[g] \in Int
        /\ \A g \in Good : w[g] \in Int
        /\ \A g \in Good : gone[g] \in Int
        /\ \A g \in Good : open[g] \in Int
    BY <1>4, <2>1
  <2> QED BY <1>2, <2>2, SumType
<1>18. Lists(Everything, Undone)
  <2>1. 0 \in Minutes
    BY Clocks
  <2>2. InPeriod(0, LastMinute + Ahead) = Undone
    BY <1>1, <2>1, Periods2
  <2>3. Lists(Sorted(Undone), Undone)
    BY <1>1, SortedIsList
  <2> QED BY <2>2, <2>3 DEF Everything
<1>19. /\ ProductReport(Everything).sold = SumOver(a, Good)
       /\ ProductReport(Everything).returned = SumOver(b, Good)
       /\ ProductReport(Everything).left = SumOver(shelf, Good)
  BY <1>1, <1>15, <1>18, TotalsSums, ReportFields DEF shelf
<1>20. /\ ImportTotals(0).imported = SumOver(p, Good)
       /\ ImportTotals(0).sold = SumOver(gone, Good)
       /\ ImportSummary(0).sold = SumOver(gone, Good)
  BY <1>16, ReceiptFields DEF gone
<1>21. SumOver(shelf, Good) + SumOver(a, Good) - SumOver(b, Good)
          = Cardinality(Good) * OpeningStock + SumOver(p, Good) + SumOver(q, Good)
              - SumOver(w, Good)
  BY <1>6, <1>7, <1>8, <1>9, <1>23, <1>13, <1>14, <1>17
<1>22. SumOver(gone, Good) <=
          Positive(SumOver(a, Good) - SumOver(b, Good)) + SumOver(w, Good)
  BY <1>10, <1>11, <1>12, <1>17 DEF Positive
<1> QED BY <1>16, <1>19, <1>20, <1>21, <1>22 DEF StockAddsUp

LEMMA StockFollows ==
    ASSUME PapersInv
    PROVE  ReportsMatchStock
BY StockBalances, StartIsThere DEF ReportsMatchStock

-----------------------------------------------------------------------------
(* The client's record and the pages of the client.                        *)

LEMMA ImageFinite ==
    ASSUME NEW S, IsFiniteSet(S), NEW f, NEW T, T = {f[x] : x \in S}
    PROVE  IsFiniteSet(T)
<1> DEFINE q == [x \in S |-> f[x]]
<1>1. q \in [S -> T] /\ \A t \in T : \E x \in S : q[x] = t
  OBVIOUS
<1>2. q \in Surjection(S, T)
  BY <1>1 DEF Surjection
<1> HIDE DEF q
<1> QED BY <1>2, FS_Surjection

LEMMA GreatestIs ==
    ASSUME NEW T \in SUBSET Nat, NEW m \in T, \A k \in T : k <= m
    PROVE  GreatestOf(T) = m
<1>1. \A n \in T : (\A k \in T : k <= n) => n = m
  OBVIOUS
<1> QED BY <1>1 DEF GreatestOf

LEMMA LeastIs ==
    ASSUME NEW T \in SUBSET Nat, NEW m \in T, \A k \in T : m <= k
    PROVE  LeastOf(T) = m
<1>1. \A n \in T : (\A k \in T : n <= k) => n = m
  OBVIOUS
<1> QED BY <1>1 DEF LeastOf

LEMMA ExchangesAreWhole ==
    ASSUME PapersInv
    PROVE  ExchangesWhole
<1> SUFFICES ASSUME NEW i \in DOMAIN papers, NEW j \in DOMAIN papers,
                    papers[i].group # NoPaper, papers[i].group = papers[j].group
             PROVE  Live(papers, i) <=> Live(papers, j)
  BY DEF ExchangesWhole
<1> QED BY PapersFacts DEF AllPaired, Paired

LEMMA BoughtFacts ==
    ASSUME PapersInv
    PROVE  /\ Completed \in SUBSET DOMAIN papers /\ IsFiniteSet(Completed)
           /\ Cardinality(Completed) \in Nat
           /\ Completed # {} => Cardinality(Completed) > 0
           /\ \A i \in Completed : papers[i].at \in Nat /\ papers[i].at <= LastMinute + Ahead
           /\ \A i \in Completed : papers[i].payable \in Nat
           /\ \A i \in DOMAIN papers : i \in Completed <=> Live(papers, i) /\ ~IsReturn(i)
<1>1. papers \in Seq(PaperRecord)
  BY PapersFacts
<1>2. Completed \in SUBSET (DOMAIN papers)
  BY PaperSets DEF Completed
<1>3. IsFiniteSet(Completed) /\ Cardinality(Completed) \in Nat
  BY <1>1, <1>2, DomainFinite, FS_CardinalityType
<1>4. Completed # {} => Cardinality(Completed) # 0
  BY <1>3, FS_EmptySet
<1>5. ASSUME NEW i \in DOMAIN papers
      PROVE  /\ papers[i].at \in Nat /\ papers[i].at <= LastMinute + Ahead
             /\ papers[i].payable \in Nat
             /\ papers[i].type \in {"sale", "exchange"} <=> ~IsReturn(i)
  BY <1>1, PaperFields, Clocks DEF IsReturn
<1> QED BY <1>2, <1>3, <1>4, <1>5 DEF Completed, Purchases, LiveOfType

\* The last of what was bought.
LEMMA LastBought ==
    ASSUME PapersInv, Completed # {}
    PROVE  \E m \in Nat :
              /\ m \in {papers[i].at : i \in Completed}
              /\ \A i \in Completed : papers[i].at <= m
              /\ GreatestOf({papers[i].at : i \in Completed}) = m
              /\ Aggregates(papers).last = m
<1> DEFINE dates == {papers[i].at : i \in Completed}
<1>1. dates \in SUBSET Nat /\ IsFiniteSet(dates) /\ dates # {}
  <2>1. dates \in SUBSET Nat /\ dates # {}
    BY BoughtFacts
  <2>2. IsFiniteSet(dates)
    <3>1. PICK f : f = [i \in Completed |-> papers[i].at]
      OBVIOUS
    <3>2. dates = {f[i] : i \in Completed}
      BY <3>1
    <3> HIDE DEF dates
    <3>3. IsFiniteSet(Completed)
      BY BoughtFacts
    <3> QED BY <3>2, <3>3, ImageFinite
  <2> QED BY <2>1, <2>2
<1>2. PICK m \in dates : \A t \in dates : t <= m
  <2> HIDE DEF dates
  <2> QED BY <1>1, GreatestExists
<1>3. m \in Nat /\ \A i \in Completed : papers[i].at <= m
  BY <1>1, <1>2
<1>4. GreatestOf(dates) = m
  <2> HIDE DEF dates
  <2> QED BY <1>1, <1>2, GreatestIs
<1>5. \A t \in dates : (\A i \in Completed : papers[i].at <= t) => t = m
  <2> SUFFICES ASSUME NEW t \in dates, \A i \in Completed : papers[i].at <= t PROVE t = m
    OBVIOUS
  <2>1. m <= t /\ t <= m
    BY <1>2
  <2> QED BY <1>1, <1>3, <2>1
<1>6. Aggregates(papers).last = CHOOSE t \in dates : \A i \in Completed : papers[i].at <= t
  BY DEF Aggregates, Completed
<1>7. Aggregates(papers).last = m
  BY <1>2, <1>3, <1>5, <1>6
<1> QED BY <1>2, <1>3, <1>4, <1>7

LEMMA BookTotals ==
    ASSUME PapersInv
    PROVE  /\ Aggregates(papers).visits = Cardinality(Completed)
           /\ Aggregates(papers).total =
                 Positive(SumOver([i \in DOMAIN papers |-> papers[i].payable], Completed)
                    - SumOver([i \in DOMAIN papers |-> papers[i].payable],
                              LiveOfType(papers, {"return"})))
           /\ SumOver([i \in Completed |-> papers[i].payable], Completed) =
                 SumOver([i \in DOMAIN papers |-> papers[i].payable], Completed)
<1>1. PICK f, h : /\ f = [i \in DOMAIN papers |-> papers[i].payable]
                  /\ h = [i \in Completed |-> papers[i].payable]
  OBVIOUS
<1>2. \A i \in Completed : h[i] = f[i]
  BY <1>1, BoughtFacts
<1>3. SumOver(h, Completed) = SumOver(f, Completed)
  BY <1>2, SumCongruence
<1> QED BY <1>1, <1>3 DEF Aggregates, Completed

LEMMA MetricFields ==
    ASSUME PapersInv
    PROVE  /\ Metric.visits = Cardinality(Completed)
           /\ Metric # NoMetric <=> Completed # {}
           /\ Completed # {} =>
                 /\ Metric.total = SumOver([i \in Completed |-> papers[i].payable], Completed)
                 /\ Metric.last = GreatestOf({papers[i].at : i \in Completed})
                 /\ Metric.first = LeastOf({papers[i].at : i \in Completed})
<1>1. CASE Completed = {}
  BY <1>1, FS_EmptySet DEF Metric, NoMetric
<1>2. CASE Completed # {}
  <2>1. /\ Metric.visits = Cardinality(Completed)
        /\ Metric.total = SumOver([i \in Completed |-> papers[i].payable], Completed)
        /\ Metric.last = GreatestOf({papers[i].at : i \in Completed})
        /\ Metric.first = LeastOf({papers[i].at : i \in Completed})
    BY <1>2 DEF Metric
  <2>2. Cardinality(Completed) > 0 /\ Cardinality(Completed) \in Nat
    BY <1>2, BoughtFacts
  <2>3. NoMetric.visits = 0
    BY DEF NoMetric
  <2>4. Metric # NoMetric
    BY <2>1, <2>2, <2>3
  <2> QED BY <1>2, <2>1, <2>4
<1> QED BY <1>1, <1>2

\* What was bought last is what was bought last of some product.
LEMMA PreferencesAgree ==
    ASSUME PapersInv, Completed # {}, \A i \in Completed : Sum(papers[i].units) > 0
    PROVE  GreatestOf({Preference(g).last : g \in Good}) = Metric.last
<1>1. PICK m \in Nat :
              /\ m \in {papers[i].at : i \in Completed}
              /\ \A i \in Completed : papers[i].at <= m
              /\ GreatestOf({papers[i].at : i \in Completed}) = m
  BY LastBought
<1>2. Metric.last = m
  BY <1>1, MetricFields
<1> DEFINE with(g) == {i \in Completed : papers[i].units[g] > 0}
           dates(g) == {papers[i].at : i \in with(g)}
           lasts == {Preference(g).last : g \in Good}
<1>3. ASSUME NEW g \in Good, with(g) = {} PROVE Preference(g).last = 0
  BY <1>3 DEF Preference
<1>4. ASSUME NEW g \in Good, with(g) # {}
      PROVE  /\ Preference(g).last \in dates(g) /\ Preference(g).last \in Nat
             /\ \A t \in dates(g) : t <= Preference(g).last
  <2>1. Preference(g).last = GreatestOf(dates(g))
    BY <1>4 DEF Preference
  <2>2. dates(g) \in SUBSET Nat /\ dates(g) # {}
    BY <1>4, BoughtFacts
  <2>3. IsFiniteSet(with(g))
    BY BoughtFacts, FS_Subset
  <2>4. IsFiniteSet(dates(g))
    <3>1. PICK f : f = [i \in with(g) |-> papers[i].at]
      OBVIOUS
    <3>2. dates(g) = {f[i] : i \in with(g)}
      BY <3>1
    <3> HIDE DEF dates, with
    <3> QED BY <2>3, <3>2, ImageFinite
  <2> HIDE DEF dates
  <2>5. PICK n \in dates(g) : \A t \in dates(g) : t <= n
    BY <2>2, <2>4, GreatestExists
  <2>6. GreatestOf(dates(g)) = n
    BY <2>2, <2>5, GreatestIs
  <2> QED BY <2>1, <2>2, <2>5, <2>6
<1>5. ASSUME NEW g \in Good PROVE Preference(g).last \in Nat /\ Preference(g).last <= m
  <2>1. CASE with(g) = {}
    BY <1>1, <1>3, <2>1
  <2>2. CASE with(g) # {}
    <3>1. PICK i \in with(g) : Preference(g).last = papers[i].at
      BY <1>4, <2>2
    <3> QED BY <1>1, <1>4, <2>2, <3>1
  <2> QED BY <2>1, <2>2
<1>6. \E g \in Good : Preference(g).last = m
  <2>1. PICK i \in Completed : papers[i].at = m
    BY <1>1
  <2>2. PICK g \in Good : papers[i].units[g] # 0
    <3> SUFFICES ASSUME \A g \in Good : papers[i].units[g] = 0 PROVE FALSE
      OBVIOUS
    <3>1. Sum(papers[i].units) = 0
      BY SumNothing DEF Sum
    <3> QED BY <3>1
  <2>3. papers[i].units[g] > 0
    <3>1. papers[i].units[g] \in Nat
      BY PapersFacts, BoughtFacts, PaperFields
    <3> QED BY <2>2, <3>1
  <2>4. i \in with(g) /\ m \in dates(g)
    BY <2>1, <2>3
  <2>5. m <= Preference(g).last
    BY <1>4, <2>4
  <2>6. Preference(g).last \in Nat /\ Preference(g).last <= m
    BY <1>5
  <2> QED BY <1>1, <2>5, <2>6
<1>7. lasts \in SUBSET Nat /\ m \in lasts /\ \A t \in lasts : t <= m
  BY <1>5, <1>6
<1>8. GreatestOf(lasts) = m
  <2> HIDE DEF lasts
  <2> QED BY <1>7, GreatestIs
<1> QED BY <1>2, <1>8

LEMMA DashboardFields ==
    ASSUME PapersInv
    PROVE  /\ Dashboard.visits = Cardinality(Completed)
           /\ Dashboard.total = SumOver([i \in Completed |-> papers[i].payable], Completed)
           /\ Dashboard.dates = {papers[i].at : i \in Completed}
           /\ Dashboard.top \in Nat
           /\ Dashboard.top <= Dashboard.total
<1> DEFINE amounts == [i \in Completed |-> papers[i].payable]
           T == {0} \cup {amounts[i] : i \in Completed}
<1>1. /\ Dashboard.visits = Cardinality(Completed)
      /\ Dashboard.total = SumOver(amounts, Completed)
      /\ Dashboard.dates = {papers[i].at : i \in Completed}
      /\ Dashboard.top = GreatestOf(T)
  BY DEF Dashboard
<1>2. \A i \in Completed : amounts[i] \in Nat /\ amounts[i] \in Int
  BY BoughtFacts
<1>3. IsFiniteSet(Completed)
  BY BoughtFacts
<1>4. T \in SUBSET Nat /\ T # {} /\ IsFiniteSet(T)
  <2>1. T \in SUBSET Nat /\ T # {}
    BY <1>2
  <2>2. PICK U : U = {amounts[i] : i \in Completed}
    OBVIOUS
  <2>3. IsFiniteSet(U)
    <3> HIDE DEF amounts
    <3> QED BY <1>3, <2>2, ImageFinite
  <2>4. IsFiniteSet({0}) /\ T = {0} \cup U
    BY <2>2, FS_Singleton
  <2>5. IsFiniteSet({0} \cup U)
    BY <2>3, <2>4, FS_Union
  <2> HIDE DEF T
  <2> QED BY <2>1, <2>4, <2>5
<1>5. PICK m \in T : \A t \in T : t <= m
  <2> HIDE DEF T
  <2> QED BY <1>4, GreatestExists
<1>6. GreatestOf(T) = m
  <2> HIDE DEF T
  <2> QED BY <1>4, <1>5, GreatestIs
<1>7. SumOver(amounts, Completed) \in Nat
  <2> HIDE DEF amounts
  <2> QED BY <1>2, <1>3, SumType
<1>8. \A i \in Completed : amounts[i] <= SumOver(amounts, Completed)
  <2> HIDE DEF amounts
  <2> QED BY <1>2, <1>3, SumBoundsRow
<1>9. m \in Nat /\ m <= SumOver(amounts, Completed)
  <2> HIDE DEF amounts
  <2> QED BY <1>4, <1>5, <1>7, <1>8
<1> HIDE DEF amounts, T
<1> QED BY <1>1, <1>6, <1>9 DEF amounts

LEMMA DatesBetween ==
    ASSUME PapersInv, Completed # {}
    PROVE  {papers[i].at : i \in Completed} \subseteq Metric.first .. Metric.last
<1> DEFINE dates == {papers[i].at : i \in Completed}
<1>1. PICK m \in Nat :
              /\ m \in dates
              /\ \A i \in Completed : papers[i].at <= m
              /\ GreatestOf(dates) = m
  BY LastBought
<1>2. dates \in SUBSET Nat /\ dates # {}
  BY BoughtFacts
<1>3. PICK n \in dates : \A t \in dates : n <= t
  <2> HIDE DEF dates
  <2> QED BY <1>2, LeastExists
<1>4. LeastOf(dates) = n
  <2> HIDE DEF dates
  <2> QED BY <1>2, <1>3, LeastIs
<1>5. Metric.last = m /\ Metric.first = n
  BY <1>1, <1>4, MetricFields
<1>6. \A t \in dates : t \in Nat /\ n <= t /\ t <= m
  BY <1>1, <1>2, <1>3
<1> HIDE DEF dates
<1>7. n \in Nat
  BY <1>2, <1>3
<1>8. dates \subseteq n .. m
  BY <1>6, <1>7
<1> QED BY <1>5, <1>8 DEF dates

LEMMA RecordAgrees ==
    ASSUME PapersInv, ~behind
    PROVE  /\ books.visits = Dashboard.visits
           /\ books.last = ListItem.last
           /\ books.total =
                 Positive(Dashboard.total - SumOver([i \in DOMAIN papers |-> papers[i].payable],
                                                    LiveOfType(papers, {"return"})))
           /\ \A t \in Minutes :
                 /\ BoughtSince(t) <=> History(t, LastMinute + Ahead) # {}
                 /\ InactiveSince(t) <=> History(t + 1, LastMinute + Ahead) = {}
<1>1. books = Aggregates(papers)
  BY DEF PapersInv
<1>2. books.visits = Dashboard.visits
  BY <1>1, BookTotals, DashboardFields
<1>3. books.total =
                 Positive(Dashboard.total - SumOver([i \in DOMAIN papers |-> papers[i].payable],
                                                    LiveOfType(papers, {"return"})))
  BY <1>1, BookTotals, DashboardFields
<1>4. CASE Completed = {}
  <2>1. ListItem = books
    BY <1>4, MetricFields DEF ListItem
  <2>2. books.visits = 0
    BY <1>1, <1>4, BookTotals, FS_EmptySet
  <2>3. \A t : History(t, LastMinute + Ahead) = {}
    BY <1>4 DEF History
  <2> QED BY <1>2, <1>3, <2>1, <2>2, <2>3 DEF BoughtSince, InactiveSince
<1>5. CASE Completed # {}
  <2>1. PICK m \in Nat :
              /\ m \in {papers[i].at : i \in Completed}
              /\ \A i \in Completed : papers[i].at <= m
              /\ GreatestOf({papers[i].at : i \in Completed}) = m
              /\ Aggregates(papers).last = m
    BY <1>5, LastBought
  <2>2. ListItem.visits = Cardinality(Completed) /\ ListItem.last = m
    BY <1>5, <2>1, MetricFields DEF ListItem
  <2>3. Cardinality(Completed) \in Nat /\ Cardinality(Completed) > 0
    BY <1>5, BoughtFacts
  <2>4. ASSUME NEW t \in Nat
        PROVE  History(t, LastMinute + Ahead) # {} <=> t <= m
    <3>1. \A i \in Completed : papers[i].at \in Nat /\ papers[i].at <= LastMinute + Ahead
                               /\ papers[i].at <= m
      BY <2>1, BoughtFacts
    <3>2. PICK i \in Completed : papers[i].at = m
      BY <2>1
    <3>3. LastMinute + Ahead \in Nat
      BY Clocks
    <3>4. t <= m => i \in History(t, LastMinute + Ahead)
      BY <3>1, <3>2, <3>3 DEF History
    <3>5. ASSUME NEW j \in History(t, LastMinute + Ahead) PROVE t <= m
      <4>1. j \in Completed /\ t <= papers[j].at
        BY <3>1, <3>3 DEF History
      <4> QED BY <2>1, <3>1, <4>1
    <3> QED BY <3>4, <3>5
  <2>5. ASSUME NEW t \in Minutes
        PROVE  /\ BoughtSince(t) <=> History(t, LastMinute + Ahead) # {}
               /\ InactiveSince(t) <=> History(t + 1, LastMinute + Ahead) = {}
    <3>1. t \in Nat /\ t + 1 \in Nat
      BY Clocks
    <3>2. BoughtSince(t) <=> t <= m
      BY <2>2, <2>3, <3>1 DEF BoughtSince
    <3>3. InactiveSince(t) <=> m <= t
      BY <2>2, <2>3, <3>1 DEF InactiveSince
    <3>4. History(t, LastMinute + Ahead) # {} <=> t <= m
      BY <2>4, <3>1
    <3>5. History(t + 1, LastMinute + Ahead) # {} <=> t + 1 <= m
      BY <2>4, <3>1
    <3> QED BY <3>1, <3>2, <3>3, <3>4, <3>5
  <2> QED BY <1>1, <1>2, <1>3, <2>1, <2>2, <2>5
<1> QED BY <1>4, <1>5

LEMMA PagesAgree ==
    ASSUME PapersInv
    PROVE  MetricsAgree
<1>1. /\ Dashboard.visits = Metric.visits
      /\ Cardinality(History(0, LastMinute + Ahead)) = Metric.visits
  <2>1. History(0, LastMinute + Ahead) = Completed
    <3>1. \A i \in Completed : papers[i].at \in 0 .. LastMinute + Ahead
      BY BoughtFacts, Clocks
    <3> QED BY <3>1 DEF History
  <2> QED BY <2>1, MetricFields, DashboardFields
<1>2. NeverCameBack <=> Dashboard.visits = 1
  <2>1. Metric.visits \in Nat
    BY MetricFields, BoughtFacts
  <2> QED BY <1>1, <2>1 DEF NeverCameBack
<1>3. ASSUME Metric # NoMetric
      PROVE  /\ Dashboard.total = Metric.total
             /\ Dashboard.top <= Metric.total
             /\ Dashboard.dates \subseteq Metric.first .. Metric.last
             /\ (\A i \in Completed : Sum(papers[i].units) > 0) =>
                    GreatestOf({Preference(g).last : g \in Good}) = Metric.last
             /\ \A g \in Good : Preference(g).count <= Metric.visits
  <2>1. Completed # {}
    BY <1>3, MetricFields
  <2>2. Dashboard.total = Metric.total
    BY <2>1, MetricFields, DashboardFields
  <2>3. Dashboard.top <= Metric.total
    BY <2>2, DashboardFields
  <2>4. Dashboard.dates \subseteq Metric.first .. Metric.last
    BY <2>1, DatesBetween, DashboardFields
  <2>5. ASSUME NEW g \in Good PROVE Preference(g).count <= Metric.visits
    <3>1. PICK T : T = {i \in Completed : papers[i].units[g] > 0}
      OBVIOUS
    <3>2. Preference(g).count = Cardinality(T)
      BY <3>1 DEF Preference
    <3>3. Cardinality(T) <= Cardinality(Completed)
      BY <3>1, BoughtFacts, FS_Subset
    <3> QED BY <3>2, <3>3, MetricFields
  <2> QED BY <2>1, <2>2, <2>3, <2>4, <2>5, PreferencesAgree
<1> QED BY <1>1, <1>2, <1>3, RecordAgrees DEF MetricsAgree

-----------------------------------------------------------------------------
LEMMA CustomersAreKnown ==
    ASSUME PapersInv
    PROVE  CustomersKnown
<1> DEFINE last == LastMinute + Ahead
<1> SUFFICES ASSUME NEW from \in Minutes, CustomerRows(from, last) # {}
             PROVE  LET earlier == {i \in Purchases(papers) : papers[i].at < from}
                        type == CustomerType(from, last)
                    IN  /\ earlier = {} => type = "new"
                        /\ (\E i \in earlier : papers[i].status \in {"paid", "returned"}) =>
                               type = "returned"
  BY DEF CustomersKnown
<1> DEFINE selected == CustomerRows(from, last)
           earlier == {i \in Purchases(papers) : papers[i].at < from}
           whole == {j \in DOMAIN papers : papers[j].status \in {"paid", "returned"} /\ ~IsReturn(j)}
           firsts == {papers[i].at : i \in selected \cup whole}
<1>1. from \in Nat /\ last \in Nat
  BY Clocks
<1>2. ASSUME NEW i \in DOMAIN papers
      PROVE  /\ papers[i].at \in Nat /\ papers[i].at <= last
             /\ i \in Completed <=> Live(papers, i) /\ ~IsReturn(i)
             /\ papers[i].status \in Reported <=> Live(papers, i)
  <2>1. papers[i] \in PaperRecord
    BY PapersFacts, PaperFields
  <2> QED BY <2>1, BoughtFacts, Clocks DEF Live, PaperRecord, Reported
<1>3. /\ \A i : i \in selected <=> i \in Completed /\ papers[i].at >= from
      /\ \A i \in selected : papers[i].at \in Nat /\ i \in DOMAIN papers
  <2>1. Completed \in SUBSET (DOMAIN papers)
    BY BoughtFacts
  <2> QED BY <1>1, <1>2, <2>1 DEF CustomerRows, InPeriod
<1>4. \A i : i \in earlier <=> i \in Completed /\ papers[i].at < from
  BY DEF Completed
<1>5. whole \in SUBSET Completed
  BY <1>2 DEF Live
<1>6. CustomerType(from, last) =
         IF \E t \in firsts : \A i \in selected : t < papers[i].at THEN "returned" ELSE "new"
  BY DEF CustomerType, FirstPurchases
<1>7. ASSUME earlier = {} PROVE ~\E t \in firsts : \A i \in selected : t < papers[i].at
  <2> SUFFICES ASSUME NEW i \in selected \cup whole PROVE ~(\A j \in selected : papers[i].at < papers[j].at)
    OBVIOUS
  <2>1. i \in selected
    <3>1. i \in Completed /\ i \notin earlier
      BY <1>3, <1>5, <1>7
    <3>2. papers[i].at \in Nat
      BY <3>1, BoughtFacts
    <3> QED BY <1>1, <1>3, <1>4, <3>1, <3>2
  <2>2. ~(papers[i].at < papers[i].at)
    BY <1>3, <2>1
  <2> QED BY <2>1, <2>2
<1>8. ASSUME NEW i \in earlier, papers[i].status \in {"paid", "returned"}
      PROVE  \E t \in firsts : \A j \in selected : t < papers[j].at
  <2>1. i \in Completed /\ papers[i].at < from /\ i \in DOMAIN papers
    BY <1>4, BoughtFacts
  <2>2. i \in whole
    BY <1>2, <1>8, <2>1
  <2>3. \A j \in selected : papers[i].at < papers[j].at
    BY <1>1, <1>2, <1>3, <2>1
  <2>4. papers[i].at \in firsts
    BY <2>2
  <2> QED BY <2>3, <2>4
<1> QED BY <1>6, <1>7, <1>8

-----------------------------------------------------------------------------
(* The same figure, paper by paper.                                        *)

Rowed(V, rows, f) == \A k \in DOMAIN rows : f[k] = OfPaper(V, rows[k], Good)
BackRows(rows) == {k \in DOMAIN rows : IsReturn(rows[k])}

LEMMA PaperLines ==
    ASSUME Shelf, NEW V, Column(V), NEW i \in DOMAIN papers,
           NEW h, \A g \in Good : h[g] = V[<<i, g>>]
    PROVE  SumOver(h, LinesOf(i)) = OfPaper(V, i, Good) /\ Sum(h) = OfPaper(V, i, Good)
<1>1. Sum(h) = OfPaper(V, i, Good)
  <2>1. PICK G \in SUBSET Good : G = Good
    OBVIOUS
  <2>2. \A g \in G : h[g] = V[<<i, g>>]
    BY <2>1
  <2>3. SumOver(h, G) = OfPaper(V, i, G)
    BY <2>2, OnePaperSum
  <2> QED BY <2>1, <2>3 DEF Sum
<1>2. \A g \in Good \ LinesOf(i) : h[g] = 0
  <2> SUFFICES ASSUME NEW g \in Good, g \notin LinesOf(i) PROVE h[g] = 0
    OBVIOUS
  <2>1. papers[i].units[g] \in Nat
    BY PaperFields DEF Shelf
  <2>2. papers[i].units[g] = 0
    BY <2>1 DEF LinesOf
  <2>3. <<i, g>> \in Cells
    BY CellFacts
  <2> QED BY <2>2, <2>3 DEF Column
<1>3. LinesOf(i) \subseteq Good
  BY DEF LinesOf
<1>4. SumOver(h, Good) = SumOver(h, LinesOf(i))
  BY <1>2, <1>3, SumZeroRows
<1> QED BY <1>1, <1>4 DEF Sum

LEMMA RowsWent ==
    ASSUME Shelf, NEW V, Column(V), NEW rows, NEW S, Lists(rows, S), NEW f, Rowed(V, rows, f)
    PROVE  /\ SumOver(f, DOMAIN rows \ BackRows(rows)) = Went(V, S, Good)
           /\ SumOver(f, DOMAIN rows \cap BackRows(rows)) = Came(V, S, Good)
<1>1. PICK L, M \in SUBSET (DOMAIN rows) :
         L = DOMAIN rows \ BackRows(rows) /\ M = DOMAIN rows \cap BackRows(rows)
  OBVIOUS
<1>2. PICK I, J \in SUBSET S : I = S \ Backs /\ J = S \cap Backs
  OBVIOUS
<1>3. ASSUME NEW k \in DOMAIN rows
      PROVE  /\ rows[k] \in S /\ (k \in L <=> rows[k] \in I) /\ (k \in M <=> rows[k] \in J)
  <2>1. rows[k] \in S /\ rows[k] \in DOMAIN papers
    BY DEF Lists
  <2> QED BY <1>1, <1>2, <2>1 DEF BackRows, Backs
<1>4. SumOver(f, L) = SumOver(V, Grid(I, Good))
  <2>1. \A k \in L : f[k] = OfPaper(V, rows[k], Good)
    BY DEF Rowed
  <2>2. \A k \in DOMAIN rows : k \in L <=> rows[k] \in I
    BY <1>3
  <2> QED BY <2>1, <2>2, RowSum
<1>5. SumOver(f, M) = SumOver(V, Grid(J, Good))
  <2>1. \A k \in M : f[k] = OfPaper(V, rows[k], Good)
    BY DEF Rowed
  <2>2. \A k \in DOMAIN rows : k \in M <=> rows[k] \in J
    BY <1>3
  <2> QED BY <2>1, <2>2, RowSum
<1> QED BY <1>1, <1>2, <1>4, <1>5 DEF Went, Came

LEMMA RowsSigned ==
    ASSUME Shelf, NEW V, Column(V), NEW rows, NEW S, Lists(rows, S), NEW f, Rowed(V, rows, f)
    PROVE  Signed(f, DOMAIN rows, BackRows(rows)) = Went(V, S, Good) - Came(V, S, Good)
BY RowsWent DEF Signed

\* How many rows there are of some papers.
LEMMA RowCount ==
    ASSUME NEW rows, NEW S, Lists(rows, S), NEW L \in SUBSET DOMAIN rows,
           NEW I \in SUBSET S, \A k \in DOMAIN rows : k \in L <=> rows[k] \in I
    PROVE  Cardinality(L) = Cardinality(I)
<1>1. [k \in L |-> rows[k]] \in Bijection(L, I) /\ IsFiniteSet(L)
  BY PartOfList
<1> QED BY <1>1, FS_Bijection DEF ExistsBijection

ExchangesOf(S) == {i \in S : papers[i].type = "exchange"}

LEMMA SummarySums ==
    ASSUME Booked(papers), NEW rows, NEW S, Lists(rows, S)
    PROVE  /\ Summary(rows).gross = Went(Retails, S, Good) - Came(Retails, S, Good)
           /\ Summary(rows).net = Went(Finals, S, Good) - Came(Finals, S, Good)
           /\ Summary(rows).discount = Went(Reductions, S, Good) - Came(Reductions, S, Good)
           /\ Summary(rows).supply = Went(Supplies, S, Good) - Came(Supplies, S, Good)
           /\ Summary(rows).units = Went(Pieces, S, Good) - Came(Pieces, S, Good)
           /\ Summary(rows).papers = Cardinality(S)
           /\ Summary(rows).returns = Cardinality(S \cap Backs)
           /\ Summary(rows).exchanges = Cardinality(ExchangesOf(S))
<1> DEFINE gross == [k \in DOMAIN rows |->
                       SumOver([g \in Good |-> RetailOf(rows[k], g)], LinesOf(rows[k]))]
           net == [k \in DOMAIN rows |->
                       SumOver([g \in Good |-> papers[rows[k]].final[g]], LinesOf(rows[k]))]
           cut == [k \in DOMAIN rows |->
                       SumOver([g \in Good |-> DiscountOf(rows[k], g)], LinesOf(rows[k]))]
           supply == [k \in DOMAIN rows |->
                       SumOver([g \in Good |-> SupplyOf(rows[k], g)], LinesOf(rows[k]))]
           units == [k \in DOMAIN rows |->
                       SumOver([g \in Good |-> papers[rows[k]].units[g]], LinesOf(rows[k]))]
           back == BackRows(rows)
           swaps == {k \in DOMAIN rows : papers[rows[k]].type = "exchange"}
<1>1. /\ Summary(rows).gross = Signed(gross, DOMAIN rows, back)
      /\ Summary(rows).net = Signed(net, DOMAIN rows, back)
      /\ Summary(rows).discount = Signed(cut, DOMAIN rows, back)
      /\ Summary(rows).supply = Signed(supply, DOMAIN rows, back)
      /\ Summary(rows).units = Signed(units, DOMAIN rows, back)
      /\ Summary(rows).papers = Cardinality(DOMAIN rows)
      /\ Summary(rows).returns = Cardinality(back)
      /\ Summary(rows).exchanges = Cardinality(swaps)
  BY DEF Summary, BackRows
<1>2. Shelf /\ Column(Pieces) /\ Column(Finals) /\ Column(Retails) /\ Column(Supplies)
      /\ Column(Reductions)
  BY ColumnsHold
<1>3. ASSUME NEW k \in DOMAIN rows
      PROVE  /\ gross[k] = OfPaper(Retails, rows[k], Good)
             /\ net[k] = OfPaper(Finals, rows[k], Good)
             /\ cut[k] = OfPaper(Reductions, rows[k], Good)
             /\ supply[k] = OfPaper(Supplies, rows[k], Good)
             /\ units[k] = OfPaper(Pieces, rows[k], Good)
  <2>1. PICK i \in DOMAIN papers : rows[k] = i
    BY DEF Lists
  <2>2. PICK h1, h2, h3, h4, h5 :
           /\ h1 = [g \in Good |-> RetailOf(i, g)] /\ h2 = [g \in Good |-> papers[i].final[g]]
           /\ h3 = [g \in Good |-> DiscountOf(i, g)] /\ h4 = [g \in Good |-> SupplyOf(i, g)]
           /\ h5 = [g \in Good |-> papers[i].units[g]]
    OBVIOUS
  <2>3. /\ \A g \in Good : h1[g] = Retails[<<i, g>>]
        /\ \A g \in Good : h2[g] = Finals[<<i, g>>]
        /\ \A g \in Good : h3[g] = Reductions[<<i, g>>]
        /\ \A g \in Good : h4[g] = Supplies[<<i, g>>]
        /\ \A g \in Good : h5[g] = Pieces[<<i, g>>]
    BY <2>2, CellValues
  <2>4. /\ gross[k] = SumOver(h1, LinesOf(i)) /\ net[k] = SumOver(h2, LinesOf(i))
        /\ cut[k] = SumOver(h3, LinesOf(i)) /\ supply[k] = SumOver(h4, LinesOf(i))
        /\ units[k] = SumOver(h5, LinesOf(i))
    BY <2>1, <2>2
  <2>5. SumOver(h1, LinesOf(i)) = OfPaper(Retails, i, Good)
    BY <1>2, <2>3, PaperLines
  <2>6. SumOver(h2, LinesOf(i)) = OfPaper(Finals, i, Good)
    BY <1>2, <2>3, PaperLines
  <2>7. SumOver(h3, LinesOf(i)) = OfPaper(Reductions, i, Good)
    BY <1>2, <2>3, PaperLines
  <2>8. SumOver(h4, LinesOf(i)) = OfPaper(Supplies, i, Good)
    BY <1>2, <2>3, PaperLines
  <2>9. SumOver(h5, LinesOf(i)) = OfPaper(Pieces, i, Good)
    BY <1>2, <2>3, PaperLines
  <2> QED BY <2>1, <2>4, <2>5, <2>6, <2>7, <2>8, <2>9
<1>4. /\ Rowed(Retails, rows, gross) /\ Rowed(Finals, rows, net) /\ Rowed(Reductions, rows, cut)
      /\ Rowed(Supplies, rows, supply) /\ Rowed(Pieces, rows, units)
  BY <1>3 DEF Rowed
<1> HIDE DEF gross, net, cut, supply, units
<1>5. /\ Signed(gross, DOMAIN rows, back) = Went(Retails, S, Good) - Came(Retails, S, Good)
      /\ Signed(net, DOMAIN rows, back) = Went(Finals, S, Good) - Came(Finals, S, Good)
      /\ Signed(cut, DOMAIN rows, back) = Went(Reductions, S, Good) - Came(Reductions, S, Good)
      /\ Signed(supply, DOMAIN rows, back) = Went(Supplies, S, Good) - Came(Supplies, S, Good)
      /\ Signed(units, DOMAIN rows, back) = Went(Pieces, S, Good) - Came(Pieces, S, Good)
  BY <1>2, <1>4, RowsSigned
<1>6. ASSUME NEW k \in DOMAIN rows PROVE rows[k] \in S /\ rows[k] \in DOMAIN papers
  BY DEF Lists
<1>7. Cardinality(DOMAIN rows) = Cardinality(S)
  <2>1. PICK L \in SUBSET DOMAIN rows, I \in SUBSET S : L = DOMAIN rows /\ I = S
    OBVIOUS
  <2>2. \A k \in DOMAIN rows : k \in L <=> rows[k] \in I
    BY <1>6, <2>1
  <2>3. Cardinality(L) = Cardinality(I)
    BY <2>2, RowCount
  <2> QED BY <2>1, <2>3
<1>8. Cardinality(back) = Cardinality(S \cap Backs)
  <2>1. PICK L \in SUBSET DOMAIN rows, I \in SUBSET S : L = back /\ I = S \cap Backs
    BY DEF BackRows
  <2>2. \A k \in DOMAIN rows : k \in L <=> rows[k] \in I
    BY <1>6, <2>1 DEF BackRows, Backs
  <2>3. Cardinality(L) = Cardinality(I)
    BY <2>2, RowCount
  <2> QED BY <2>1, <2>3
<1>9. Cardinality(swaps) = Cardinality(ExchangesOf(S))
  <2>1. PICK L \in SUBSET DOMAIN rows, I \in SUBSET S : L = swaps /\ I = ExchangesOf(S)
    BY DEF ExchangesOf
  <2>2. \A k \in DOMAIN rows : k \in L <=> rows[k] \in I
    BY <1>6, <2>1 DEF ExchangesOf
  <2>3. Cardinality(L) = Cardinality(I)
    BY <2>2, RowCount
  <2> QED BY <2>1, <2>3
<1> QED BY <1>1, <1>5, <1>7, <1>8, <1>9

-----------------------------------------------------------------------------
(* The client's record and the reports.                                    *)

LEMMA FactsAre ==
    ASSUME Booked(papers)
    PROVE  /\ InPeriod(0, LastMinute + Ahead) = Undone /\ Undone \in SUBSET DOMAIN papers
           /\ IsFiniteSet(Undone) /\ Cardinality(Undone) \in Nat
           /\ Purchases(papers) = Undone \ Backs
           /\ LiveOfType(papers, {"return"}) = Undone \cap Backs
           /\ Everything = Sorted(Undone) /\ Lists(Everything, Undone)
           /\ \A x : x \in Facts(0, LastMinute + Ahead) <=>
                       \E i \in Undone, g \in Good : x = <<i, g>> /\ papers[i].units[g] > 0
<1>1. /\ InPeriod(0, LastMinute + Ahead) = Undone /\ Undone \in SUBSET DOMAIN papers
      /\ Purchases(papers) = Undone \ Backs
      /\ LiveOfType(papers, {"return"}) = Undone \cap Backs
  <2>1. 0 \in Minutes
    BY Clocks
  <2> QED BY <2>1, Periods2
<1>2. IsFiniteSet(Undone) /\ Cardinality(Undone) \in Nat
  BY <1>1, DomainFinite, FS_CardinalityType DEF Booked
<1>3. Everything = Sorted(Undone) /\ Lists(Everything, Undone)
  BY <1>1, SortedIsList DEF Everything, Booked, Shelf
<1>4. \A x : x \in Facts(0, LastMinute + Ahead) <=>
                       \E i \in Undone, g \in Good : x = <<i, g>> /\ papers[i].units[g] > 0
  BY <1>1 DEF Facts, LinesOf
<1> QED BY <1>1, <1>2, <1>3, <1>4

\* Of the papers that went out and the ones that came back.
LEMMA KindsCount ==
    ASSUME Booked(papers)
    PROVE  Cardinality(Purchases(papers)) = Cardinality(Undone) - Cardinality(Undone \cap Backs)
<1>1. IsFiniteSet(Undone)
  BY FactsAre
<1>2. Cardinality(Undone \ Backs) = Cardinality(Undone) - Cardinality(Undone \cap Backs)
  BY <1>1, FS_Difference
<1> QED BY <1>2, FactsAre

\* A cell that is a line counts as one.
Ones == [c \in Cells |-> IF papers[c[1]].units[c[2]] > 0 THEN 1 ELSE 0]

LEMMA FactsCount ==
    ASSUME Booked(papers)
    PROVE  /\ Column(Ones)
           /\ Facts(0, LastMinute + Ahead) \in SUBSET Grid(Undone, Good)
           /\ IsFiniteSet(Facts(0, LastMinute + Ahead))
           /\ Cardinality(Facts(0, LastMinute + Ahead)) = SumOver(Ones, Grid(Undone, Good))
<1>1. Column(Ones)
  BY DEF Column, Ones
<1>2. PICK T, D : T = Facts(0, LastMinute + Ahead) /\ D = Grid(Undone, Good)
  OBVIOUS
<1>3. D \in SUBSET Cells
  <2>1. Undone \in SUBSET (DOMAIN papers)
    BY FactsAre
  <2> QED BY <1>2, <2>1, GridPart DEF Grid, Cells
<1>4. T \in SUBSET D
  BY <1>2, FactsAre DEF Grid
<1>5. IsFiniteSet(D) /\ IsFiniteSet(T)
  <2>1. IsFiniteSet(D)
    BY <1>1, <1>3, CellSum DEF Booked, Shelf
  <2> QED BY <1>4, <2>1, FS_Subset
<1>6. \A c \in T : Ones[c] = 1
  <2> SUFFICES ASSUME NEW c \in T PROVE Ones[c] = 1
    OBVIOUS
  <2>1. PICK i \in Undone, g \in Good : c = <<i, g>> /\ papers[i].units[g] > 0
    BY <1>2, FactsAre
  <2>2. c \in Cells
    BY <1>3, <1>4
  <2> QED BY <2>1, <2>2 DEF Ones
<1>7. \A c \in D \ T : Ones[c] = 0
  <2> SUFFICES ASSUME NEW c \in D, c \notin T PROVE Ones[c] = 0
    OBVIOUS
  <2>1. PICK i \in Undone, g \in Good : c = <<i, g>>
    BY <1>2 DEF Grid
  <2>2. ~(papers[i].units[g] > 0)
    BY <1>2, <2>1, FactsAre
  <2>3. c \in Cells
    BY <1>3
  <2> QED BY <2>1, <2>2, <2>3 DEF Ones
<1>8. SumOver(Ones, D) = SumOver(Ones, T)
  BY <1>4, <1>7, SumZeroRows
<1>9. SumOver(Ones, T) = Cardinality(T)
  BY <1>5, <1>6, SumOfOnes
<1> QED BY <1>1, <1>2, <1>4, <1>5, <1>8, <1>9

\* Of one paper: what was paid, and what its lines say.
LEMMA PaidAsPriced ==
    ASSUME Booked(papers), NEW i \in DOMAIN papers
    PROVE  /\ papers[i].payable \in Nat
           /\ OfPaper(Finals, i, Good) \in Nat /\ OfPaper(Ones, i, Good) \in Nat
           /\ IsReturn(i) => papers[i].payable = OfPaper(Finals, i, Good)
           /\ papers[i].payable <= OfPaper(Finals, i, Good) + OfPaper(Ones, i, Good)
           /\ OfPaper(Finals, i, Good) <= papers[i].payable + OfPaper(Ones, i, Good)
<1>1. Shelf /\ Column(Finals) /\ Column(Ones)
  BY ColumnsHold, FactsCount
<1>2. papers[i].final \in [Good -> Nat] /\ papers[i].units \in [Good -> Nat]
      /\ papers[i].payable \in Nat /\ papers[i].type \in {"sale", "return", "exchange"}
  BY PaperFields DEF Booked
<1>3. Sum(papers[i].final) = OfPaper(Finals, i, Good)
  <2>1. \A g \in Good : papers[i].final[g] = Finals[<<i, g>>]
    BY CellValues
  <2> QED BY <1>1, <2>1, PaperLines
<1>4. Sum(papers[i].final) \in Nat
  BY <1>2, GoodSum
<1>5. Cardinality(GoodsOf(papers[i])) = OfPaper(Ones, i, Good)
      /\ Cardinality(GoodsOf(papers[i])) \in Nat
  <2>1. PICK h : h = [g \in Good |-> IF papers[i].units[g] > 0 THEN 1 ELSE 0]
    OBVIOUS
  <2>2. \A g \in Good : h[g] = Ones[<<i, g>>]
    <3> SUFFICES ASSUME NEW g \in Good PROVE h[g] = Ones[<<i, g>>]
      OBVIOUS
    <3>1. <<i, g>> \in Cells
      BY CellFacts
    <3> QED BY <2>1, <3>1 DEF Ones
  <2>3. SumOver(h, LinesOf(i)) = OfPaper(Ones, i, Good)
    BY <1>1, <2>2, PaperLines
  <2>4. LinesOf(i) = GoodsOf(papers[i]) /\ LinesOf(i) \in SUBSET Good
    BY DEF LinesOf, GoodsOf
  <2>5. IsFiniteSet(Good)
    BY AdjustmentsAssumption
  <2>6. IsFiniteSet(LinesOf(i))
    BY <2>4, <2>5, FS_Subset
  <2>7. \A g \in LinesOf(i) : h[g] = 1
    BY <2>1 DEF LinesOf
  <2>8. SumOver(h, LinesOf(i)) = Cardinality(LinesOf(i))
    BY <2>6, <2>7, SumOfOnes
  <2>9. Cardinality(LinesOf(i)) \in Nat
    BY <2>6, FS_CardinalityType
  <2> QED BY <2>3, <2>4, <2>8, <2>9
<1>6. Priced(papers[i])
  BY DEF Booked
<1>7. /\ papers[i].type = "sale" =>
            /\ papers[i].payable <= Sum(papers[i].final) + Cardinality(GoodsOf(papers[i]))
            /\ Sum(papers[i].final) <= papers[i].payable + Cardinality(GoodsOf(papers[i]))
      /\ papers[i].type # "sale" => papers[i].payable = Sum(papers[i].final)
  BY <1>6 DEF Priced
<1> QED BY <1>2, <1>3, <1>4, <1>5, <1>7 DEF IsReturn

LEMMA Lipschitz ==
    ASSUME NEW p \in Nat, NEW q \in Nat, NEW r \in Nat, NEW n \in Nat,
           p <= q + n, q <= p + n
    PROVE  Positive(p - r) <= Positive(q - r) + n /\ Positive(q - r) <= Positive(p - r) + n
BY DEF Positive

LEMMA ClientFollows ==
    ASSUME PapersInv
    PROVE  ClientAgrees
<1> SUFFICES ASSUME ~behind
             PROVE  LET net == Summary(Everything).net
                        slack == Cardinality(Facts(0, LastMinute + Ahead))
                    IN  /\ books.visits = Summary(Everything).papers - Summary(Everything).returns
                        /\ books.total <= Positive(net) + slack
                        /\ Positive(net) <= books.total + slack
  BY DEF ClientAgrees
<1> DEFINE paid == [i \in DOMAIN papers |-> papers[i].payable]
           priced == [i \in DOMAIN papers |-> OfPaper(Finals, i, Good)]
           lined == [i \in DOMAIN papers |-> OfPaper(Ones, i, Good)]
           upper == [i \in DOMAIN papers |-> priced[i] + lined[i]]
           lower == [i \in DOMAIN papers |-> paid[i] + lined[i]]
           out == Purchases(papers)
           in == LiveOfType(papers, {"return"})
           facts == Facts(0, LastMinute + Ahead)
<1>1. /\ Booked(papers) /\ Shelf /\ Column(Finals) /\ Column(Ones)
  BY PapersFacts, ColumnsHold, FactsCount
<1>2. /\ out = Undone \ Backs /\ in = Undone \cap Backs /\ Undone \in SUBSET (DOMAIN papers)
      /\ Lists(Everything, Undone) /\ Cardinality(Undone) \in Nat
  BY <1>1, FactsAre
<1>3. /\ out \in SUBSET (DOMAIN papers) /\ in \in SUBSET (DOMAIN papers)
      /\ IsFiniteSet(out) /\ IsFiniteSet(in)
  BY <1>1, <1>2, DomainFinite DEF Booked
<1>4. ASSUME NEW i \in DOMAIN papers
      PROVE  /\ paid[i] \in Nat /\ priced[i] \in Nat /\ lined[i] \in Nat
             /\ upper[i] = priced[i] + lined[i] /\ lower[i] = paid[i] + lined[i]
             /\ upper[i] \in Nat /\ lower[i] \in Nat
             /\ paid[i] <= upper[i] /\ priced[i] <= lower[i]
             /\ IsReturn(i) => paid[i] = priced[i]
  BY <1>1, PaidAsPriced
<1>5. /\ \A i \in DOMAIN papers : priced[i] = OfPaper(Finals, i, Good)
      /\ \A i \in DOMAIN papers : lined[i] = OfPaper(Ones, i, Good)
  OBVIOUS
<1>6. books = Aggregates(papers)
  BY DEF PapersInv
<1>7. books.visits = Cardinality(out) /\ books.total = Positive(SumOver(paid, out) - SumOver(paid, in))
  BY <1>6, BookTotals DEF Completed
<1> HIDE DEF paid, priced, lined, upper, lower, out, in
<1>8. ASSUME NEW I \in SUBSET (DOMAIN papers)
      PROVE  /\ SumOver(priced, I) = SumOver(Finals, Grid(I, Good))
             /\ SumOver(lined, I) = SumOver(Ones, Grid(I, Good))
  <2>1. \A i \in I : priced[i] = OfPaper(Finals, i, Good)
    BY <1>5
  <2>2. \A i \in I : lined[i] = OfPaper(Ones, i, Good)
    BY <1>5
  <2>3. PICK G \in SUBSET Good : G = Good
    OBVIOUS
  <2>4. SumOver(priced, I) = SumOver(Finals, Grid(I, G))
    BY <1>1, <2>1, <2>3, PaperSum
  <2>5. SumOver(lined, I) = SumOver(Ones, Grid(I, G))
    BY <1>1, <2>2, <2>3, PaperSum
  <2> QED BY <2>3, <2>4, <2>5
<1>9. SumOver(priced, out) = Went(Finals, Undone, Good) /\ SumOver(priced, in) = Came(Finals, Undone, Good)
  <2>1. PICK I, J \in SUBSET (DOMAIN papers) : I = out /\ J = in
    BY <1>3
  <2>2. I = Undone \ Backs /\ J = Undone \cap Backs
    BY <1>2, <2>1
  <2>3. SumOver(priced, I) = SumOver(Finals, Grid(I, Good))
        /\ SumOver(priced, J) = SumOver(Finals, Grid(J, Good))
    BY <1>8
  <2> QED BY <2>1, <2>2, <2>3 DEF Went, Came
<1>10. SumOver(paid, in) = SumOver(priced, in)
  <2>1. \A i \in in : paid[i] = priced[i]
    <3> SUFFICES ASSUME NEW i \in in PROVE paid[i] = priced[i]
      OBVIOUS
    <3>1. i \in DOMAIN papers /\ IsReturn(i)
      BY <1>2, <1>3 DEF Backs
    <3> QED BY <1>4, <3>1
  <2> QED BY <2>1, SumCongruence
<1>11. \A i \in out : /\ paid[i] \in Nat /\ priced[i] \in Nat /\ lined[i] \in Nat
                      /\ upper[i] = priced[i] + lined[i] /\ lower[i] = paid[i] + lined[i]
                      /\ upper[i] \in Nat /\ lower[i] \in Nat
                      /\ paid[i] <= upper[i] /\ priced[i] <= lower[i]
  BY <1>3, <1>4
<1>12. SumOver(upper, out) = SumOver(priced, out) + SumOver(lined, out)
  BY <1>3, <1>11, SumAdd
<1>13. SumOver(lower, out) = SumOver(paid, out) + SumOver(lined, out)
  BY <1>3, <1>11, SumAdd
<1>14. SumOver(paid, out) <= SumOver(upper, out)
  BY <1>3, <1>11, SumMonotone
<1>15. SumOver(priced, out) <= SumOver(lower, out)
  BY <1>3, <1>11, SumMonotone
<1>16. /\ SumOver(paid, out) \in Nat /\ SumOver(priced, out) \in Nat /\ SumOver(lined, out) \in Nat
       /\ SumOver(priced, in) \in Nat
  <2>1. /\ \A i \in out : paid[i] \in Int
        /\ \A i \in out : priced[i] \in Int
        /\ \A i \in out : lined[i] \in Int
        /\ \A i \in in : priced[i] \in Int
    BY <1>3, <1>4
  <2> QED BY <1>3, <2>1, SumType
<1>17. SumOver(lined, out) <= Cardinality(facts) /\ Cardinality(facts) \in Nat
  <2>1. Cardinality(facts) = SumOver(Ones, Grid(Undone, Good)) /\ IsFiniteSet(facts)
    BY <1>1, FactsCount
  <2>2. PICK D, E : D = Grid(Undone, Good) /\ E = Grid(out, Good)
    OBVIOUS
  <2>3. D \in SUBSET Cells /\ E \in SUBSET D
    BY <1>2, <2>2, GridPart DEF Grid, Cells
  <2>4. IsFiniteSet(D) /\ \A c \in D : Ones[c] \in Nat
    BY <1>1, <2>3, CellSum
  <2>5. \A c \in D : Ones[c] \in Int
    BY <2>4
  <2>6. SumOver(Ones, E) <= SumOver(Ones, D)
    BY <2>3, <2>4, <2>5, SumPart
  <2>7. SumOver(lined, out) = SumOver(Ones, E)
    BY <1>3, <1>8, <2>2
  <2>8. Cardinality(facts) \in Nat
    BY <2>1, FS_CardinalityType
  <2> QED BY <2>1, <2>2, <2>6, <2>7, <2>8
<1>18. PICK p, q, r, n \in Nat :
          /\ p = SumOver(paid, out) /\ q = SumOver(priced, out)
          /\ r = SumOver(priced, in) /\ n = Cardinality(facts)
  BY <1>16, <1>17
<1>19. p <= q + n /\ q <= p + n
  BY <1>12, <1>13, <1>14, <1>15, <1>16, <1>17, <1>18
<1>20. Positive(p - r) <= Positive(q - r) + n /\ Positive(q - r) <= Positive(p - r) + n
  BY <1>19, Lipschitz
<1>21. Summary(Everything).net = q - r
  <2>1. Lists(Everything, Undone)
    BY <1>2
  <2>2. Summary(Everything).net = Went(Finals, Undone, Good) - Came(Finals, Undone, Good)
    BY <1>1, <2>1, SummarySums
  <2> QED BY <1>9, <1>18, <2>2
<1>22. books.total = Positive(p - r)
  BY <1>7, <1>10, <1>18
<1>23. books.visits = Summary(Everything).papers - Summary(Everything).returns
  BY <1>1, <1>2, <1>7, KindsCount, SummarySums DEF out
<1> HIDE DEF facts
<1> QED BY <1>18, <1>20, <1>21, <1>22, <1>23 DEF facts

-----------------------------------------------------------------------------
(* One figure, added up by good, by supplier, by seller and by moment.     *)

SplitGoods(owner, C, of, G) ==
    /\ IsFiniteSet(C) /\ G \in SUBSET Good /\ \A g \in G : owner[g] \in C
    /\ \A c \in C : of[c] = {g \in G : owner[g] = c}

SplitPapers(owner, C, of, S) ==
    /\ IsFiniteSet(C) /\ S \in SUBSET DOMAIN papers /\ \A i \in S : owner[i] \in C
    /\ \A c \in C : of[c] = {i \in S : owner[i] = c}

\* The part of each, what came back taken off.
NetByGoods(V, S, C, of, f) ==
    /\ DOMAIN f = C
    /\ \A c \in C : f[c] = Went(V, S, of[c]) - Came(V, S, of[c])

NetByPapers(V, C, of, f) ==
    /\ DOMAIN f = C
    /\ \A c \in C : f[c] = Went(V, of[c], Good) - Came(V, of[c], Good)

\* Cells of some papers, by the owners of their goods or of the papers.
LEMMA CellsByGoods ==
    ASSUME Shelf, NEW V, Column(V), NEW I \in SUBSET DOMAIN papers,
           NEW owner, NEW C, NEW of, NEW G, SplitGoods(owner, C, of, G),
           NEW h, \A c \in C : h[c] = SumOver(V, Grid(I, of[c]))
    PROVE  SumOver(h, C) = SumOver(V, Grid(I, G))
<1> DEFINE D == Grid(I, G)
           of2 == [d \in D |-> owner[d[2]]]
           own == [c \in C |-> {d \in D : of2[d] = c}]
<1>1. D \in SUBSET Cells
  BY GridPart DEF Cells, Grid, SplitGoods
<1>2. IsFiniteSet(D) /\ \A d \in D : V[d] \in Nat
  BY <1>1, CellSum
<1>3. \A d \in D : d[2] \in G
  BY DEF Grid
<1>4. D = {d \in D : of2[d] \in C}
  BY <1>3 DEF SplitGoods
<1>5. \A c \in C : own[c] = {d \in D : of2[d] = c}
  OBVIOUS
<1>6. \A c \in C : h[c] = SumOver(V, own[c])
  <2> SUFFICES ASSUME NEW c \in C PROVE h[c] = SumOver(V, own[c])
    OBVIOUS
  <2>1. of[c] = {g \in G : owner[g] = c}
    BY DEF SplitGoods
  <2>2. Grid(I, of[c]) = own[c]
    BY <2>1 DEF Grid
  <2> QED BY <2>2
<1>7. IsFiniteSet(C)
  BY DEF SplitGoods
<1> HIDE DEF D, of2, own
<1>8. SumOver(h, C) = SumOver(V, D)
  BY <1>2, <1>4, <1>5, <1>6, <1>7, SumOfSums
<1> QED BY <1>8 DEF D

PartIn(V, of, T, c) == SumOver(V, Grid(of[c] \cap T, Good))

LEMMA CellsByPapers ==
    ASSUME Shelf, NEW V, Column(V),
           NEW owner, NEW C, NEW of, NEW S, SplitPapers(owner, C, of, S),
           NEW T \in SUBSET S,
           NEW h, \A c \in C : h[c] = PartIn(V, of, T, c)
    PROVE  SumOver(h, C) = SumOver(V, Grid(T, Good))
<1> DEFINE D == Grid(T, Good)
           of1 == [d \in D |-> owner[d[1]]]
           own == [c \in C |-> {d \in D : of1[d] = c}]
<1>1. D \in SUBSET Cells
  BY GridPart DEF Cells, Grid, SplitPapers
<1>2. IsFiniteSet(D) /\ \A d \in D : V[d] \in Nat
  BY <1>1, CellSum
<1>3. \A d \in D : d[1] \in T
  BY DEF Grid
<1>4. D = {d \in D : of1[d] \in C}
  BY <1>3 DEF SplitPapers
<1>5. \A c \in C : own[c] = {d \in D : of1[d] = c}
  OBVIOUS
<1>6. \A c \in C : h[c] = SumOver(V, own[c])
  <2> SUFFICES ASSUME NEW c \in C PROVE h[c] = SumOver(V, own[c])
    OBVIOUS
  <2>1. of[c] = {i \in S : owner[i] = c}
    BY DEF SplitPapers
  <2>2. Grid(of[c] \cap T, Good) = own[c]
    BY <2>1 DEF Grid
  <2> QED BY <2>2 DEF PartIn
<1>7. IsFiniteSet(C)
  BY DEF SplitPapers
<1> HIDE DEF D, of1, own
<1>8. SumOver(h, C) = SumOver(V, D)
  BY <1>2, <1>4, <1>5, <1>6, <1>7, SumOfSums
<1> QED BY <1>8 DEF D

LEMMA NetGoods ==
    ASSUME Shelf, NEW V, Column(V), NEW S \in SUBSET DOMAIN papers,
           NEW owner, NEW C, NEW of, NEW G, SplitGoods(owner, C, of, G),
           NEW f, NetByGoods(V, S, C, of, f)
    PROVE  SumSigned(f) = Went(V, S, G) - Came(V, S, G)
<1>1. PICK I, J \in SUBSET (DOMAIN papers) : I = S \ Backs /\ J = S \cap Backs
  OBVIOUS
<1>2. PICK a, b : /\ a = [c \in C |-> SumOver(V, Grid(I, of[c]))]
                  /\ b = [c \in C |-> SumOver(V, Grid(J, of[c]))]
  OBVIOUS
<1>3. \A c \in C : a[c] = SumOver(V, Grid(I, of[c]))
  BY <1>2
<1>4. \A c \in C : b[c] = SumOver(V, Grid(J, of[c]))
  BY <1>2
<1>5. SumOver(a, C) = SumOver(V, Grid(I, G))
  BY <1>3, CellsByGoods
<1>6. SumOver(b, C) = SumOver(V, Grid(J, G))
  BY <1>4, CellsByGoods
<1>7. ASSUME NEW c \in C PROVE a[c] \in Nat /\ b[c] \in Nat /\ f[c] = a[c] - b[c]
  <2>1. of[c] \in SUBSET Good
    BY DEF SplitGoods
  <2>2. a[c] = Went(V, S, of[c]) /\ b[c] = Came(V, S, of[c])
    BY <1>1, <1>2 DEF Went, Came
  <2>3. Went(V, S, of[c]) \in Nat /\ Came(V, S, of[c]) \in Nat
    BY <2>1, WentType
  <2> QED BY <2>2, <2>3 DEF NetByGoods
<1>8. \A c \in C : a[c] \in Nat /\ b[c] \in Nat /\ f[c] = a[c] - b[c]
  BY <1>7
<1>9. IsFiniteSet(C) /\ DOMAIN f = C
  BY DEF SplitGoods, NetByGoods
<1>10. SumSigned(f) = SumOver(a, C) - SumOver(b, C)
  BY <1>8, <1>9, SumOfDifferences
<1> QED BY <1>1, <1>5, <1>6, <1>10 DEF Went, Came

LEMMA NetPapers ==
    ASSUME Shelf, NEW V, Column(V),
           NEW owner, NEW C, NEW of, NEW S, SplitPapers(owner, C, of, S),
           NEW f, NetByPapers(V, C, of, f)
    PROVE  SumSigned(f) = Went(V, S, Good) - Came(V, S, Good)
<1>1. PICK I, J \in SUBSET S : I = S \ Backs /\ J = S \cap Backs
  OBVIOUS
<1>2. PICK a, b : /\ a = [c \in C |-> SumOver(V, Grid(of[c] \cap I, Good))]
                  /\ b = [c \in C |-> SumOver(V, Grid(of[c] \cap J, Good))]
  OBVIOUS
<1>3. \A c \in C : a[c] = PartIn(V, of, I, c)
  BY <1>2 DEF PartIn
<1>4. \A c \in C : b[c] = PartIn(V, of, J, c)
  BY <1>2 DEF PartIn
<1>5. SumOver(a, C) = SumOver(V, Grid(I, Good))
  BY <1>3, CellsByPapers
<1>6. SumOver(b, C) = SumOver(V, Grid(J, Good))
  BY <1>4, CellsByPapers
<1>7. ASSUME NEW c \in C PROVE a[c] \in Nat /\ b[c] \in Nat /\ f[c] = a[c] - b[c]
  <2>1. of[c] \in SUBSET (DOMAIN papers) /\ of[c] \in SUBSET S
    BY DEF SplitPapers
  <2>2. of[c] \cap I = of[c] \ Backs /\ of[c] \cap J = of[c] \cap Backs
    BY <1>1, <2>1
  <2>3. a[c] = Went(V, of[c], Good) /\ b[c] = Came(V, of[c], Good)
    BY <1>2, <2>2 DEF Went, Came
  <2>4. PICK G \in SUBSET Good : G = Good
    OBVIOUS
  <2>5. Went(V, of[c], G) \in Nat /\ Came(V, of[c], G) \in Nat
    BY <2>1, WentType
  <2> QED BY <2>3, <2>4, <2>5 DEF NetByPapers
<1>8. \A c \in C : a[c] \in Nat /\ b[c] \in Nat /\ f[c] = a[c] - b[c]
  BY <1>7
<1>9. IsFiniteSet(C) /\ DOMAIN f = C
  BY DEF SplitPapers, NetByPapers
<1>10. SumSigned(f) = SumOver(a, C) - SumOver(b, C)
  BY <1>8, <1>9, SumOfDifferences
<1> QED BY <1>1, <1>5, <1>6, <1>10 DEF Went, Came

-----------------------------------------------------------------------------
(* The figures of the reports.                                             *)

\* The figures of a line, as the reports read them.
LEMMA LineValues ==
    ASSUME NEW rows, NEW S, Lists(rows, S), NEW x \in Flat(rows)
    PROVE  /\ papers[rows[x[1]]].units[x[2]] = Pieces[<<rows[x[1]], x[2]>>]
           /\ papers[rows[x[1]]].final[x[2]] = Finals[<<rows[x[1]], x[2]>>]
           /\ RetailOf(rows[x[1]], x[2]) = Retails[<<rows[x[1]], x[2]>>]
<1>1. rows[x[1]] \in DOMAIN papers /\ x[2] \in Good
  BY LineOf
<1> QED BY <1>1, CellValues

LEMMA SupplierSums ==
    ASSUME Booked(papers), NEW rows, NEW S, Lists(rows, S), NEW s,
           NEW G, G = {g \in Good : SupplierOf[g] = s}
    PROVE  /\ SupplierRow(rows, s).net = Went(Finals, S, G) - Came(Finals, S, G)
           /\ SupplierShare(rows, s).gross = Went(Retails, S, G) - Came(Retails, S, G)
           /\ SupplierShare(rows, s).returns = Came(Pieces, S, G)
<1> DEFINE shown == {x \in Flat(rows) : SupplierOf[x[2]] = s}
           back == {x \in shown : IsReturn(rows[x[1]])}
           units == [x \in shown |-> papers[rows[x[1]]].units[x[2]]]
           final == [x \in shown |-> papers[rows[x[1]]].final[x[2]]]
           gross == [x \in shown |-> RetailOf(rows[x[1]], x[2])]
<1>1. SupplierRow(rows, s).net = Signed(final, shown, back)
  BY DEF SupplierRow
<1>2. /\ SupplierShare(rows, s).gross = Signed(gross, shown, back)
      /\ SupplierShare(rows, s).returns = SumOver(units, back)
  BY DEF SupplierShare
<1>3. ASSUME NEW x \in shown
      PROVE  /\ units[x] = Pieces[<<rows[x[1]], x[2]>>]
             /\ final[x] = Finals[<<rows[x[1]], x[2]>>]
             /\ gross[x] = Retails[<<rows[x[1]], x[2]>>]
  BY LineValues
<1>4. \A x \in Flat(rows) : x \in shown <=> x[2] \in G
  <2> SUFFICES ASSUME NEW x \in Flat(rows) PROVE x \in shown <=> x[2] \in G
    OBVIOUS
  <2>1. x[2] \in Good
    BY LineOf
  <2> QED BY <2>1
<1>5. /\ Shelf /\ Column(Pieces) /\ Column(Finals) /\ Column(Retails)
  BY ColumnsHold
<1>6. G \in SUBSET Good
  OBVIOUS
<1>7. Tallied(Pieces, rows, G, shown, back, units)
  BY <1>3, <1>4, <1>6 DEF Tallied
<1>8. Tallied(Finals, rows, G, shown, back, final)
  BY <1>3, <1>4, <1>6 DEF Tallied
<1>9. Tallied(Retails, rows, G, shown, back, gross)
  BY <1>3, <1>4, <1>6 DEF Tallied
<1>10. back = shown \cap back
  OBVIOUS
<1> HIDE DEF shown, back, units, final, gross
<1>11. /\ SumOver(units, shown \ back) = Went(Pieces, S, G)
       /\ SumOver(units, shown \cap back) = Came(Pieces, S, G)
  BY <1>5, <1>7, SignedLines
<1>12. Signed(final, shown, back) = Went(Finals, S, G) - Came(Finals, S, G)
  BY <1>5, <1>8, TallySigned
<1>13. Signed(gross, shown, back) = Went(Retails, S, G) - Came(Retails, S, G)
  BY <1>5, <1>9, TallySigned
<1> QED BY <1>1, <1>2, <1>10, <1>11, <1>12, <1>13

LEMMA AttributeSums ==
    ASSUME Booked(papers), NEW rows, NEW S, Lists(rows, S), NEW G \in SUBSET Good
    PROVE  AttributeRow(rows, G).revenue = Went(Finals, S, G) - Came(Finals, S, G)
<1> DEFINE shown == {x \in Flat(rows) : x[2] \in G}
           back == {x \in shown : IsReturn(rows[x[1]])}
           final == [x \in shown |-> papers[rows[x[1]]].final[x[2]]]
<1>1. AttributeRow(rows, G).revenue = Signed(final, shown, back)
  BY DEF AttributeRow
<1>2. \A x \in shown : final[x] = Finals[<<rows[x[1]], x[2]>>]
  BY LineValues
<1>3. Tallied(Finals, rows, G, shown, back, final)
  BY <1>2 DEF Tallied
<1>4. Shelf /\ Column(Finals)
  BY ColumnsHold
<1> HIDE DEF shown, back, final
<1>5. Signed(final, shown, back) = Went(Finals, S, G) - Came(Finals, S, G)
  BY <1>3, <1>4, TallySigned
<1> QED BY <1>1, <1>5

LEMMA ReturnSums ==
    ASSUME Booked(papers), NEW rows, NEW S, Lists(rows, S)
    PROVE  /\ OrderReturns(rows).units = Came(Pieces, S, Good)
           /\ OrderReturns(rows).amount = Came(Finals, S, Good)
<1> DEFINE shown == {x \in Flat(rows) : IsReturn(rows[x[1]])}
           units == [x \in shown |-> papers[rows[x[1]]].units[x[2]]]
           final == [x \in shown |-> papers[rows[x[1]]].final[x[2]]]
<1>1. /\ OrderReturns(rows).units = SumOver(units, shown)
      /\ OrderReturns(rows).amount = SumOver(final, shown)
  BY DEF OrderReturns
<1>2. PICK G \in SUBSET Good : G = Good
  OBVIOUS
<1>3. /\ \A x \in shown : units[x] = Pieces[<<rows[x[1]], x[2]>>]
      /\ \A x \in shown : final[x] = Finals[<<rows[x[1]], x[2]>>]
  BY LineValues
<1>4. /\ shown \in SUBSET Flat(rows)
      /\ \A x \in Flat(rows) : x \in shown <=> x[2] \in G /\ IsReturn(rows[x[1]])
  BY <1>2, LineOf
<1>5. Shelf /\ Column(Pieces) /\ Column(Finals)
  BY ColumnsHold
<1> HIDE DEF shown, units, final
<1>6. SumOver(units, shown) = Came(Pieces, S, G)
  BY <1>3, <1>4, <1>5, CameLines
<1>7. SumOver(final, shown) = Came(Finals, S, G)
  BY <1>3, <1>4, <1>5, CameLines
<1> QED BY <1>1, <1>2, <1>6, <1>7

LEMMA SoldSums ==
    ASSUME Booked(papers), NEW rows, NEW S, Lists(rows, S)
    PROVE  SoldMetric(rows, "sold_qty") = Went(Pieces, S, Good)
<1> DEFINE shown == {x \in Flat(rows) : ~IsReturn(rows[x[1]])}
           units == [x \in shown |-> papers[rows[x[1]]].units[x[2]]]
<1>1. SoldMetric(rows, "sold_qty") = SumOver(units, shown)
  BY DEF SoldMetric
<1>2. PICK G \in SUBSET Good : G = Good
  OBVIOUS
<1>3. \A x \in shown : units[x] = Pieces[<<rows[x[1]], x[2]>>]
  BY LineValues
<1>4. /\ shown \in SUBSET Flat(rows)
      /\ \A x \in Flat(rows) : x \in shown <=> x[2] \in G /\ ~IsReturn(rows[x[1]])
  BY <1>2, LineOf
<1>5. Shelf /\ Column(Pieces)
  BY ColumnsHold
<1> HIDE DEF shown, units
<1>6. SumOver(units, shown) = Went(Pieces, S, G)
  BY <1>3, <1>4, <1>5, WentLines
<1> QED BY <1>1, <1>2, <1>6

\* The price of each row, as its paper has it.
LEMMA RowPrices ==
    ASSUME Booked(papers), NEW rows, NEW S, Lists(rows, S)
    PROVE  \A k \in DOMAIN rows : Sum(papers[rows[k]].final) = OfPaper(Finals, rows[k], Good)
<1> SUFFICES ASSUME NEW k \in DOMAIN rows
             PROVE  Sum(papers[rows[k]].final) = OfPaper(Finals, rows[k], Good)
  OBVIOUS
<1>1. PICK i \in DOMAIN papers : rows[k] = i
  BY DEF Lists
<1>2. PICK h : h = papers[i].final
  OBVIOUS
<1>3. \A g \in Good : h[g] = Finals[<<i, g>>]
  BY <1>2, CellValues
<1>4. Shelf /\ Column(Finals)
  BY ColumnsHold
<1>5. Sum(h) = OfPaper(Finals, i, Good)
  BY <1>3, <1>4, PaperLines
<1> QED BY <1>1, <1>2, <1>5

LEMMA CustomerSums ==
    ASSUME Booked(papers), NEW rows, NEW S, Lists(rows, S)
    PROVE  /\ CustomerRow(rows).amount = Went(Finals, S, Good)
           /\ CustomerRow(rows).count = Cardinality(S \ Backs)
<1> DEFINE bought == {k \in DOMAIN rows : ~IsReturn(rows[k])}
           f == [k \in bought |-> Sum(papers[rows[k]].final)]
           all == [k \in DOMAIN rows |-> Sum(papers[rows[k]].final)]
<1>1. CustomerRow(rows).count = Cardinality(bought) /\ CustomerRow(rows).amount = SumOver(f, bought)
  BY DEF CustomerRow
<1>2. bought = DOMAIN rows \ BackRows(rows)
  BY DEF BackRows
<1>3. \A k \in bought : f[k] = all[k]
  OBVIOUS
<1>4. Rowed(Finals, rows, all)
  BY RowPrices DEF Rowed
<1>5. Shelf /\ Column(Finals)
  BY ColumnsHold
<1>6. Cardinality(bought) = Cardinality(S \ Backs)
  <2>1. PICK L \in SUBSET DOMAIN rows, I \in SUBSET S : L = bought /\ I = S \ Backs
    OBVIOUS
  <2>2. \A k \in DOMAIN rows : rows[k] \in S /\ rows[k] \in DOMAIN papers
    BY DEF Lists
  <2>3. \A k \in DOMAIN rows : k \in L <=> rows[k] \in I
    BY <2>1, <2>2 DEF Backs
  <2>4. Cardinality(L) = Cardinality(I)
    BY <2>3, RowCount
  <2> QED BY <2>1, <2>4
<1> HIDE DEF bought, f, all
<1>7. SumOver(f, bought) = SumOver(all, bought)
  BY <1>3, SumCongruence
<1>8. SumOver(all, DOMAIN rows \ BackRows(rows)) = Went(Finals, S, Good)
  BY <1>4, <1>5, RowsWent
<1> QED BY <1>1, <1>2, <1>6, <1>7, <1>8

\* Of each product, what went out, paper by paper.
LEMMA RankingSums ==
    ASSUME Booked(papers), NEW rows, NEW S, Lists(rows, S), NEW g \in Good
    PROVE  Ranking(rows)[g] = WentOf(Pieces, S, g)
<1> DEFINE L == {k \in DOMAIN rows : ~IsReturn(rows[k])}
           I == S \ Backs
           f == [k \in DOMAIN rows |-> papers[rows[k]].units[g]]
           q == [k \in L |-> rows[k]]
           h == UnitColumn(papers, g)
<1>1. Ranking(rows)[g] = SumOver(f, L)
  BY DEF Ranking
<1>2. \A k \in DOMAIN rows : rows[k] \in S /\ rows[k] \in DOMAIN papers
  BY DEF Lists
<1>3. I \in SUBSET S /\ L \in SUBSET DOMAIN rows /\ S \in SUBSET DOMAIN papers
  BY DEF Lists
<1>4. \A k \in DOMAIN rows : k \in L <=> rows[k] \in I
  BY <1>2 DEF Backs
<1>5. \A k \in L : f[k] = h[q[k]] /\ f[k] \in Nat
  <2> SUFFICES ASSUME NEW k \in L PROVE f[k] = h[q[k]] /\ f[k] \in Nat
    OBVIOUS
  <2>1. rows[k] \in DOMAIN papers /\ q[k] = rows[k] /\ f[k] = papers[rows[k]].units[g]
    BY <1>2
  <2>2. h[rows[k]] \in Nat /\ h[rows[k]] = papers[rows[k]].units[g]
    BY <2>1, UnitSums DEF Booked
  <2> QED BY <2>1, <2>2
<1>6. q \in Bijection(L, I) /\ IsFiniteSet(L)
  <2> HIDE DEF L, I
  <2> QED BY <1>3, <1>4, PartOfList
<1> HIDE DEF L, I, f, q, h
<1>7. SumOver(f, L) = SumOver(h, I)
  BY <1>5, <1>6, SumReindex
<1>8. SumOver(h, I) = SumOver(Pieces, Grid(I, {g}))
  BY <1>3, OneGoodSum DEF h
<1> QED BY <1>1, <1>7, <1>8 DEF WentOf, Went, I

-----------------------------------------------------------------------------
(* The tables of the reports add up.                                       *)

\* The goods of a table, each by itself.
LEMMA NetOfGoods ==
    ASSUME Shelf, NEW V, Column(V), NEW S \in SUBSET DOMAIN papers, NEW G \in SUBSET Good,
           NEW f, DOMAIN f = G, \A g \in G : f[g] = WentOf(V, S, g) - CameOf(V, S, g)
    PROVE  SumSigned(f) = Went(V, S, G) - Came(V, S, G)
<1>1. PICK owner, of : owner = [g \in G |-> g] /\ of = [g \in G |-> {g}]
  OBVIOUS
<1>2. IsFiniteSet(G)
  <2>1. IsFiniteSet(Good)
    BY AdjustmentsAssumption
  <2> QED BY <2>1, FS_Subset
<1>3. SplitGoods(owner, G, of, G)
  BY <1>1, <1>2 DEF SplitGoods
<1>4. NetByGoods(V, S, G, of, f)
  BY <1>1 DEF NetByGoods, WentOf, CameOf
<1> QED BY <1>3, <1>4, NetGoods

LEMMA GoodsApart ==
    ASSUME Shelf, NEW V, Column(V), NEW S \in SUBSET DOMAIN papers, NEW G \in SUBSET Good,
           NEW H, H = Good \ G
    PROVE  /\ Went(V, S, Good) = Went(V, S, G) + Went(V, S, H)
           /\ Came(V, S, Good) = Came(V, S, G) + Came(V, S, H)
<1>1. ASSUME NEW I \in SUBSET (DOMAIN papers)
      PROVE  SumOver(V, Grid(I, Good)) = SumOver(V, Grid(I, G)) + SumOver(V, Grid(I, H))
  <2>1. PICK A, B : A = Grid(I, G) /\ B = Grid(I, H)
    OBVIOUS
  <2>2. A \in SUBSET Cells /\ B \in SUBSET Cells
    BY <2>1, GridPart DEF Grid, Cells
  <2>3. A \cap B = {} /\ A \cup B = Grid(I, Good)
    BY <2>1 DEF Grid
  <2>4. IsFiniteSet(A) /\ IsFiniteSet(B)
    BY <2>2, CellSum
  <2>5. \A c \in A \cup B : V[c] \in Int
    BY <2>2 DEF Column
  <2>6. SumOver(V, A \cup B) = SumOver(V, A) + SumOver(V, B)
    BY <2>3, <2>4, <2>5, SumUnion
  <2> QED BY <2>1, <2>3, <2>6
<1>2. S \ Backs \in SUBSET (DOMAIN papers) /\ S \cap Backs \in SUBSET (DOMAIN papers)
  OBVIOUS
<1> QED BY <1>1, <1>2 DEF Went, Came

\* By product, and by product with the others in one row.
LEMMA ProductsAddUp ==
    ASSUME Booked(papers), NEW rows, NEW S, Lists(rows, S)
    PROVE  SumSigned([g \in Good |-> ProductRow(rows, g).net])
              = Went(Finals, S, Good) - Came(Finals, S, Good)
<1>1. PICK f : f = [g \in Good |-> ProductRow(rows, g).net]
  OBVIOUS
<1>2. PICK G \in SUBSET Good : G = Good
  OBVIOUS
<1>3. \A g \in G : f[g] = WentOf(Finals, S, g) - CameOf(Finals, S, g)
  BY <1>1, <1>2, ProductSums DEF WentOf, CameOf
<1>4. Shelf /\ Column(Finals) /\ S \in SUBSET (DOMAIN papers) /\ DOMAIN f = G
  BY <1>1, <1>2, ColumnsHold DEF Lists
<1>5. SumSigned(f) = Went(Finals, S, G) - Came(Finals, S, G)
  BY <1>3, <1>4, NetOfGoods
<1> QED BY <1>1, <1>2, <1>5

LEMMA OneAttribute ==
    ASSUME Booked(papers), NEW rows, NEW S, Lists(rows, S), NEW g \in Good
    PROVE  AttributeRow(rows, {g}).revenue = WentOf(Finals, S, g) - CameOf(Finals, S, g)
<1>1. {g} \in SUBSET Good
  OBVIOUS
<1> QED BY <1>1, AttributeSums DEF WentOf, CameOf

LEMMA SplitAddsUp ==
    ASSUME Booked(papers), NEW rows, NEW S, Lists(rows, S), NEW top \in SUBSET Good,
           NEW others, others = Good \ top, NEW net,
           \A g \in Good : net[g] = WentOf(Finals, S, g) - CameOf(Finals, S, g)
    PROVE  SumSigned([g \in top |-> net[g]]) + SumSigned([g \in others |-> net[g]])
              = Went(Finals, S, Good) - Came(Finals, S, Good)
<1>1. PICK f, h : f = [g \in top |-> net[g]] /\ h = [g \in others |-> net[g]]
  OBVIOUS
<1>2. Shelf /\ Column(Finals) /\ S \in SUBSET (DOMAIN papers)
  BY ColumnsHold DEF Lists
<1>3. DOMAIN f = top /\ \A g \in top : f[g] = WentOf(Finals, S, g) - CameOf(Finals, S, g)
  BY <1>1
<1>4. SumSigned(f) = Went(Finals, S, top) - Came(Finals, S, top)
  BY <1>2, <1>3, NetOfGoods
<1>5. /\ DOMAIN h = others /\ others \in SUBSET Good
      /\ \A g \in others : h[g] = WentOf(Finals, S, g) - CameOf(Finals, S, g)
  BY <1>1
<1>6. SumSigned(h) = Went(Finals, S, others) - Came(Finals, S, others)
  BY <1>2, <1>5, NetOfGoods
<1>7. /\ Went(Finals, S, Good) = Went(Finals, S, top) + Went(Finals, S, others)
      /\ Came(Finals, S, Good) = Came(Finals, S, top) + Came(Finals, S, others)
  BY <1>2, GoodsApart
<1>8. /\ Went(Finals, S, top) \in Nat /\ Came(Finals, S, top) \in Nat
      /\ Went(Finals, S, others) \in Nat /\ Came(Finals, S, others) \in Nat
  BY <1>2, <1>5, WentType
<1> QED BY <1>1, <1>4, <1>6, <1>7, <1>8

LEMMA TopsAddUp ==
    ASSUME Booked(papers), NEW rows, NEW S, Lists(rows, S), NEW top \in SUBSET Good,
           NEW all, all = Went(Finals, S, Good) - Came(Finals, S, Good)
    PROVE  /\ SumSigned(TopAndOthers(rows, top).top) + TopAndOthers(rows, top).others = all
           /\ SumSigned(Performance(rows, top).top) + Performance(rows, top).others = all
           /\ AttributeRow(rows, top).revenue + AttributeRow(rows, Good \ top).revenue = all
<1>1. PICK others \in SUBSET Good : others = Good \ top
  OBVIOUS
<1>2. SumSigned(TopAndOthers(rows, top).top) + TopAndOthers(rows, top).others = all
  <2>1. PICK net : net = [g \in Good |-> AttributeRow(rows, {g}).revenue]
    OBVIOUS
  <2>2. \A g \in Good : net[g] = WentOf(Finals, S, g) - CameOf(Finals, S, g)
    BY <2>1, OneAttribute
  <2>3. SumSigned([g \in top |-> net[g]]) + SumSigned([g \in others |-> net[g]]) = all
    BY <1>1, <2>2, SplitAddsUp
  <2>4. /\ TopAndOthers(rows, top).top = [g \in top |-> net[g]]
        /\ TopAndOthers(rows, top).others = SumSigned([g \in others |-> net[g]])
    BY <1>1, <2>1 DEF TopAndOthers
  <2> QED BY <2>3, <2>4
<1>3. SumSigned(Performance(rows, top).top) + Performance(rows, top).others = all
  <2>1. PICK net : net = [g \in Good |-> ProductRow(rows, g).net]
    OBVIOUS
  <2>2. \A g \in Good : net[g] = WentOf(Finals, S, g) - CameOf(Finals, S, g)
    BY <2>1, ProductSums DEF WentOf, CameOf
  <2>3. SumSigned([g \in top |-> net[g]]) + SumSigned([g \in others |-> net[g]]) = all
    BY <1>1, <2>2, SplitAddsUp
  <2>4. Performance(rows, top).top = [g \in top |-> net[g]]
    <3>1. Performance(rows, top).top = [g \in top |-> ProductRow(rows, g).net]
      BY DEF Performance
    <3> QED BY <2>1, <3>1
  <2>5. Performance(rows, top).others = SumSigned([g \in others |-> net[g]])
    <3>1. Performance(rows, top).others = SumSigned([g \in others |-> ProductRow(rows, g).net])
      BY <1>1 DEF Performance
    <3>2. [g \in others |-> ProductRow(rows, g).net] = [g \in others |-> net[g]]
      BY <2>1
    <3> QED BY <3>1, <3>2
  <2> QED BY <2>3, <2>4, <2>5
<1>4. AttributeRow(rows, top).revenue + AttributeRow(rows, others).revenue = all
  <2>1. /\ AttributeRow(rows, top).revenue = Went(Finals, S, top) - Came(Finals, S, top)
        /\ AttributeRow(rows, others).revenue = Went(Finals, S, others) - Came(Finals, S, others)
    BY AttributeSums
  <2>2. Shelf /\ Column(Finals) /\ S \in SUBSET (DOMAIN papers)
    BY ColumnsHold DEF Lists
  <2>3. /\ Went(Finals, S, Good) = Went(Finals, S, top) + Went(Finals, S, others)
        /\ Came(Finals, S, Good) = Came(Finals, S, top) + Came(Finals, S, others)
    BY <1>1, <2>2, GoodsApart
  <2>4. /\ Went(Finals, S, top) \in Nat /\ Came(Finals, S, top) \in Nat
        /\ Went(Finals, S, others) \in Nat /\ Came(Finals, S, others) \in Nat
    BY <2>2, WentType
  <2> QED BY <2>1, <2>3, <2>4
<1> QED BY <1>1, <1>2, <1>3, <1>4

LEMMA SumOfNaturals ==
    ASSUME NEW D, IsFiniteSet(D), NEW f, DOMAIN f = D, \A x \in D : f[x] \in Nat
    PROVE  SumSigned(f) = SumOver(f, D)
<1>1. PICK z : z = [x \in D |-> 0]
  OBVIOUS
<1>2. SumOver(z, D) = 0
  BY <1>1, SumNothing
<1>3. PICK a : a = [x \in D |-> f[x]]
  OBVIOUS
<1>4. \A x \in D : a[x] \in Nat /\ z[x] \in Nat /\ f[x] = a[x] - z[x]
  BY <1>1, <1>3
<1>5. /\ SumSigned(f) = SumOver(a, D) - SumOver(z, D)
      /\ SumOver(a, D) \in Nat /\ SumOver(z, D) \in Nat
  BY <1>4, SumOfDifferences
<1>6. SumOver(a, D) = SumOver(f, D)
  <2>1. \A x \in D : a[x] = f[x]
    BY <1>3
  <2> QED BY <2>1, SumCongruence
<1> QED BY <1>2, <1>5, <1>6

\* By supplier.
LEMMA SuppliersAddUp ==
    ASSUME Booked(papers), NEW rows, NEW S, Lists(rows, S),
           NEW C, C = {SupplierOf[g] : g \in Good}
    PROVE  /\ SumSigned([s \in C |-> SupplierRow(rows, s).net])
                 = Went(Finals, S, Good) - Came(Finals, S, Good)
           /\ SumSigned([s \in C |-> SupplierShare(rows, s).gross])
                 = Went(Retails, S, Good) - Came(Retails, S, Good)
           /\ SumSigned([s \in C |-> SupplierShare(rows, s).returns]) = Came(Pieces, S, Good)
<1>1. PICK of : of = [s \in C |-> {g \in Good : SupplierOf[g] = s}]
  OBVIOUS
<1>2. PICK G \in SUBSET Good : G = Good
  OBVIOUS
<1>3. IsFiniteSet(C)
  <2>1. IsFiniteSet(Good)
    BY AdjustmentsAssumption
  <2> QED BY <2>1, ImageFinite
<1>4. SplitGoods(SupplierOf, C, of, G)
  BY <1>1, <1>2, <1>3 DEF SplitGoods
<1>5. Shelf /\ Column(Finals) /\ Column(Retails) /\ Column(Pieces) /\ S \in SUBSET (DOMAIN papers)
  BY ColumnsHold DEF Lists
<1>6. ASSUME NEW s \in C
      PROVE  /\ SupplierRow(rows, s).net = Went(Finals, S, of[s]) - Came(Finals, S, of[s])
             /\ SupplierShare(rows, s).gross = Went(Retails, S, of[s]) - Came(Retails, S, of[s])
             /\ SupplierShare(rows, s).returns = Came(Pieces, S, of[s])
             /\ Came(Pieces, S, of[s]) \in Nat
  <2>1. of[s] = {g \in Good : SupplierOf[g] = s} /\ of[s] \in SUBSET Good
    BY <1>1
  <2>2. Came(Pieces, S, of[s]) \in Nat
    BY <1>5, <2>1, WentType
  <2>3. PICK K : K = of[s]
    OBVIOUS
  <2>4. K = {g \in Good : SupplierOf[g] = s}
    BY <2>1, <2>3
  <2>5. /\ SupplierRow(rows, s).net = Went(Finals, S, K) - Came(Finals, S, K)
        /\ SupplierShare(rows, s).gross = Went(Retails, S, K) - Came(Retails, S, K)
        /\ SupplierShare(rows, s).returns = Came(Pieces, S, K)
    BY <2>4, SupplierSums
  <2> QED BY <2>2, <2>3, <2>5
<1>7. SumSigned([s \in C |-> SupplierRow(rows, s).net]) = Went(Finals, S, G) - Came(Finals, S, G)
  <2>1. PICK f : f = [s \in C |-> SupplierRow(rows, s).net]
    OBVIOUS
  <2>2. NetByGoods(Finals, S, C, of, f)
    BY <1>6, <2>1 DEF NetByGoods
  <2> QED BY <1>4, <1>5, <2>1, <2>2, NetGoods
<1>8. SumSigned([s \in C |-> SupplierShare(rows, s).gross])
         = Went(Retails, S, G) - Came(Retails, S, G)
  <2>1. PICK f : f = [s \in C |-> SupplierShare(rows, s).gross]
    OBVIOUS
  <2>2. NetByGoods(Retails, S, C, of, f)
    BY <1>6, <2>1 DEF NetByGoods
  <2> QED BY <1>4, <1>5, <2>1, <2>2, NetGoods
<1>9. SumSigned([s \in C |-> SupplierShare(rows, s).returns]) = Came(Pieces, S, G)
  <2>1. PICK f : f = [s \in C |-> SupplierShare(rows, s).returns]
    OBVIOUS
  <2>2. PICK J \in SUBSET (DOMAIN papers) : J = S \cap Backs
    BY <1>5
  <2>3. \A s \in C : f[s] = SumOver(Pieces, Grid(J, of[s]))
    BY <1>6, <2>1, <2>2 DEF Came
  <2>4. SumOver(f, C) = SumOver(Pieces, Grid(J, G))
    BY <1>4, <1>5, <2>3, CellsByGoods
  <2>5. DOMAIN f = C /\ \A s \in C : f[s] \in Nat
    BY <1>6, <2>1
  <2>6. SumSigned(f) = SumOver(f, C)
    BY <1>3, <2>5, SumOfNaturals
  <2> QED BY <2>1, <2>2, <2>4, <2>6 DEF Came
<1> QED BY <1>2, <1>7, <1>8, <1>9

-----------------------------------------------------------------------------
(* By seller and by moment, of a list of all that is not cancelled.        *)

PapersOf(owner, S, c) == {i \in S : owner[i] = c}

\* The rows of some of the papers are a list of them.
LEMMA PartSummary ==
    ASSUME Booked(papers), NEW rows, NEW S, Lists(rows, S), NEW L \in SUBSET DOMAIN rows,
           NEW I \in SUBSET S, \A k \in DOMAIN rows : k \in L <=> rows[k] \in I
    PROVE  Summary([k \in L |-> rows[k]]).net = Went(Finals, I, Good) - Came(Finals, I, Good)
<1>1. Lists([k \in L |-> rows[k]], I)
  BY PartOfList
<1> QED BY <1>1, SummarySums

LEMMA SellersAddUp ==
    ASSUME Booked(papers), NEW rows, NEW S, Lists(rows, S),
           NEW C, C = {SellerOf[i] : i \in Ids}, DOMAIN papers \subseteq Ids
    PROVE  SumSigned([s \in C |-> SellerRow(rows, s).net])
              = Went(Finals, S, Good) - Came(Finals, S, Good)
<1>1. PICK of : of = [s \in C |-> PapersOf(SellerOf, S, s)]
  OBVIOUS
<1>2. IsFiniteSet(C)
  <2>1. IsFiniteSet(Ids)
    BY Clocks, FS_Interval DEF Ids
  <2> QED BY <2>1, ImageFinite
<1>3. S \in SUBSET (DOMAIN papers)
  BY DEF Lists
<1>4. SplitPapers(SellerOf, C, of, S)
  BY <1>1, <1>2, <1>3 DEF SplitPapers, PapersOf
<1>5. ASSUME NEW s \in C
      PROVE  SellerRow(rows, s).net = Went(Finals, of[s], Good) - Came(Finals, of[s], Good)
  <2>1. PICK L \in SUBSET DOMAIN rows : L = {n \in DOMAIN rows : SellerOf[rows[n]] = s}
    OBVIOUS
  <2>2. PICK I \in SUBSET S : I = of[s]
    BY <1>1 DEF PapersOf
  <2>3. \A k \in DOMAIN rows : k \in L <=> rows[k] \in I
    BY <1>1, <2>1, <2>2 DEF PapersOf, Lists
  <2>4. Summary([k \in L |-> rows[k]]).net = Went(Finals, I, Good) - Came(Finals, I, Good)
    BY <2>3, PartSummary
  <2>5. SellerRow(rows, s) = Summary([k \in L |-> rows[k]])
    BY <2>1 DEF SellerRow, RowsOfSeller
  <2> QED BY <2>2, <2>4, <2>5
<1>6. PICK f : f = [s \in C |-> SellerRow(rows, s).net]
  OBVIOUS
<1>7. NetByPapers(Finals, C, of, f)
  BY <1>5, <1>6 DEF NetByPapers
<1>8. Shelf /\ Column(Finals)
  BY ColumnsHold
<1>9. SumSigned(f) = Went(Finals, S, Good) - Came(Finals, S, Good)
  BY <1>4, <1>7, <1>8, NetPapers
<1> QED BY <1>6, <1>9

LEMMA MomentsAddUp ==
    ASSUME Booked(papers), NEW rows, NEW S, Lists(rows, S)
    PROVE  /\ SumSigned([t \in MomentsOf(rows) |-> GeneralTable(rows)[t].net])
                 = Went(Finals, S, Good) - Came(Finals, S, Good)
           /\ SumSigned(SalesByDay(rows)) = Went(Finals, S, Good) - Came(Finals, S, Good)
<1>1. PICK C : C = MomentsOf(rows)
  OBVIOUS
<1>2. PICK moment : moment = [i \in DOMAIN papers |-> papers[i].at]
  OBVIOUS
<1>3. PICK of : of = [t \in C |-> PapersOf(moment, S, t)]
  OBVIOUS
<1>4. S \in SUBSET (DOMAIN papers) /\ \A k \in DOMAIN rows : rows[k] \in S /\ rows[k] \in DOMAIN papers
  BY DEF Lists
<1>5. IsFiniteSet(C)
  <2>1. PICK at : at = [k \in DOMAIN rows |-> papers[rows[k]].at]
    OBVIOUS
  <2>2. C = {at[k] : k \in DOMAIN rows}
    BY <1>1, <2>1 DEF MomentsOf
  <2>3. IsFiniteSet(DOMAIN rows)
    BY DEF Lists
  <2> QED BY <2>2, <2>3, ImageFinite
<1>6. SplitPapers(moment, C, of, S)
  <2>1. \A i \in S : moment[i] \in C
    <3> SUFFICES ASSUME NEW i \in S PROVE moment[i] \in C
      OBVIOUS
    <3>1. PICK k \in DOMAIN rows : rows[k] = i
      BY DEF Lists
    <3> QED BY <1>1, <1>2, <1>4, <3>1 DEF MomentsOf
  <2> QED BY <1>3, <1>4, <1>5, <2>1 DEF SplitPapers, PapersOf
<1>7. Shelf /\ Column(Finals)
  BY ColumnsHold
<1>8. PICK price : price = [k \in DOMAIN rows |-> Sum(papers[rows[k]].final)]
  OBVIOUS
<1>9. \A k \in DOMAIN rows : price[k] = OfPaper(Finals, rows[k], Good)
  BY <1>8, RowPrices
<1>10. ASSUME NEW t \in C
       PROVE  /\ GeneralTable(rows)[t].net = Went(Finals, of[t], Good) - Came(Finals, of[t], Good)
              /\ SalesByDay(rows)[t] = Went(Finals, of[t], Good) - Came(Finals, of[t], Good)
  <2>1. PICK L \in SUBSET DOMAIN rows : L = {n \in DOMAIN rows : papers[rows[n]].at = t}
    OBVIOUS
  <2>2. PICK I \in SUBSET S : I = of[t]
    BY <1>3 DEF PapersOf
  <2>3. \A k \in DOMAIN rows : k \in L <=> rows[k] \in I
    BY <1>2, <1>3, <1>4, <2>1, <2>2 DEF PapersOf
  <2>4. Summary([k \in L |-> rows[k]]).net = Went(Finals, I, Good) - Came(Finals, I, Good)
    BY <2>3, PartSummary
  <2>5. GeneralTable(rows)[t].net = Summary([k \in L |-> rows[k]]).net
    <3>1. GeneralTable(rows)[t] = Metrics(Summary(RowsAt(rows, t)))
      BY <1>1 DEF GeneralTable
    <3>2. RowsAt(rows, t) = [k \in L |-> rows[k]]
      BY <2>1 DEF RowsAt
    <3> QED BY <3>1, <3>2 DEF Metrics
  <2>6. SalesByDay(rows)[t] = Signed(price, L, BackRows(rows))
    BY <1>1, <1>8, <2>1 DEF SalesByDay, BackRows
  <2>7. PICK L1, L2 \in SUBSET (DOMAIN rows) :
           L1 = L \ BackRows(rows) /\ L2 = L \cap BackRows(rows)
    OBVIOUS
  <2>8. PICK I1, I2 \in SUBSET S : I1 = I \ Backs /\ I2 = I \cap Backs
    OBVIOUS
  <2>9. SumOver(price, L1) = SumOver(Finals, Grid(I1, Good))
    <3>1. \A k \in DOMAIN rows : k \in L1 <=> rows[k] \in I1
      BY <1>4, <2>3, <2>7, <2>8 DEF BackRows, Backs
    <3>2. \A k \in L1 : price[k] = OfPaper(Finals, rows[k], Good)
      BY <1>9
    <3> QED BY <1>7, <3>1, <3>2, RowSum
  <2>10. SumOver(price, L2) = SumOver(Finals, Grid(I2, Good))
    <3>1. \A k \in DOMAIN rows : k \in L2 <=> rows[k] \in I2
      BY <1>4, <2>3, <2>7, <2>8 DEF BackRows, Backs
    <3>2. \A k \in L2 : price[k] = OfPaper(Finals, rows[k], Good)
      BY <1>9
    <3> QED BY <1>7, <3>1, <3>2, RowSum
  <2>11. SalesByDay(rows)[t] = Went(Finals, I, Good) - Came(Finals, I, Good)
    BY <2>6, <2>7, <2>8, <2>9, <2>10 DEF Signed, Went, Came
  <2> QED BY <2>2, <2>4, <2>5, <2>11
<1>11. SumSigned([t \in C |-> GeneralTable(rows)[t].net])
          = Went(Finals, S, Good) - Came(Finals, S, Good)
  <2>1. PICK f : f = [t \in C |-> GeneralTable(rows)[t].net]
    OBVIOUS
  <2>2. NetByPapers(Finals, C, of, f)
    BY <1>10, <2>1 DEF NetByPapers
  <2>3. SumSigned(f) = Went(Finals, S, Good) - Came(Finals, S, Good)
    BY <1>6, <1>7, <2>2, NetPapers
  <2> QED BY <2>1, <2>3
<1>12. SumSigned(SalesByDay(rows)) = Went(Finals, S, Good) - Came(Finals, S, Good)
  <2>1. PICK f : f = SalesByDay(rows)
    OBVIOUS
  <2>2. DOMAIN f = C
    BY <1>1, <2>1 DEF SalesByDay
  <2>3. NetByPapers(Finals, C, of, f)
    BY <1>10, <2>1, <2>2 DEF NetByPapers
  <2>4. SumSigned(f) = Went(Finals, S, Good) - Came(Finals, S, Good)
    BY <1>6, <1>7, <2>3, NetPapers
  <2> QED BY <2>1, <2>4
<1> QED BY <1>1, <1>11, <1>12

\* The ranking of what went out.
LEMMA RankingAddsUp ==
    ASSUME Booked(papers), NEW rows, NEW S, Lists(rows, S)
    PROVE  Sum(Ranking(rows)) = Went(Pieces, S, Good)
<1>1. PICK a, b : a = Ranking(rows) /\ b = [g \in Good |-> CameOf(Pieces, S, g)]
  OBVIOUS
<1>2. PICK G \in SUBSET Good : G = Good
  OBVIOUS
<1>3. \A g \in G : a[g] = WentOf(Pieces, S, g) /\ b[g] = CameOf(Pieces, S, g)
  BY <1>1, <1>2, RankingSums
<1>4. Shelf /\ Column(Pieces) /\ S \in SUBSET (DOMAIN papers)
  BY ColumnsHold DEF Lists
<1>5. SumOver(a, G) = Went(Pieces, S, G) /\ SumOver(b, G) = Came(Pieces, S, G)
  BY <1>3, <1>4, WentByGood
<1> QED BY <1>1, <1>2, <1>5 DEF Sum

-----------------------------------------------------------------------------
(* Line by line, and the best sellers.                                     *)

\* The lines of all that is not cancelled, in one query.
LEMMA FactsSigned ==
    ASSUME Booked(papers), NEW V, Column(V), NEW T, T = Facts(0, LastMinute + Ahead),
           NEW back, \A x \in T : x \in back <=> IsReturn(x[1]),
           NEW f, \A x \in T : f[x] = V[x]
    PROVE  Signed(f, T, back) = Went(V, Undone, Good) - Came(V, Undone, Good)
<1>1. PICK out, in : out = T \ back /\ in = T \cap back
  OBVIOUS
<1>2. PICK A, B : A = Grid(Undone \ Backs, Good) /\ B = Grid(Undone \cap Backs, Good)
  OBVIOUS
<1>3. \A x : x \in T <=> \E i \in Undone, g \in Good : x = <<i, g>> /\ papers[i].units[g] > 0
  BY FactsAre
<1>4. Undone \in SUBSET (DOMAIN papers)
  BY FactsAre
<1>5. ASSUME NEW x \in T
      PROVE  (x \in out => x \in A) /\ (x \in in => x \in B)
  <2>1. PICK i \in Undone, g \in Good : x = <<i, g>>
    BY <1>3
  <2>2. i \in DOMAIN papers /\ x[1] = i
    BY <1>4, <2>1
  <2> QED BY <1>1, <1>2, <2>1, <2>2 DEF Grid, Backs
<1>6. out \subseteq A /\ in \subseteq B
  BY <1>1, <1>5
<1>7. ASSUME NEW x \in A \cup B, x \notin T PROVE V[x] = 0
  <2>1. PICK i \in Undone, g \in Good : x = <<i, g>>
    BY <1>2 DEF Grid
  <2>2. i \in DOMAIN papers /\ papers[i].units[g] \in Nat
    BY <1>4, <2>1, LineFigures
  <2>3. papers[i].units[g] = 0
    BY <1>3, <1>7, <2>1, <2>2
  <2>4. x \in Cells
    BY <2>1, <2>2, CellFacts
  <2> QED BY <2>1, <2>3, <2>4 DEF Column
<1>8. /\ \A x \in A \ out : V[x] = 0
      /\ \A x \in B \ in : V[x] = 0
  <2>1. ASSUME NEW x \in A, x \in T PROVE x \in out
    <3>1. PICK i \in Undone \ Backs, g \in Good : x = <<i, g>>
      BY <1>2 DEF Grid
    <3>2. i \in DOMAIN papers /\ x[1] = i /\ ~IsReturn(i)
      BY <1>4, <3>1 DEF Backs
    <3> QED BY <1>1, <2>1, <3>2
  <2>2. ASSUME NEW x \in B, x \in T PROVE x \in in
    <3>1. PICK i \in Undone \cap Backs, g \in Good : x = <<i, g>>
      BY <1>2 DEF Grid
    <3>2. x[1] = i /\ IsReturn(i)
      BY <3>1 DEF Backs
    <3> QED BY <1>1, <2>2, <3>2
  <2> QED BY <1>7, <2>1, <2>2
<1>9. SumOver(f, out) = SumOver(V, out) /\ SumOver(f, in) = SumOver(V, in)
  <2>1. /\ \A x \in out : f[x] = V[x]
        /\ \A x \in in : f[x] = V[x]
    BY <1>1
  <2> QED BY <2>1, SumCongruence
<1>10. SumOver(V, A) = SumOver(V, out) /\ SumOver(V, B) = SumOver(V, in)
  BY <1>6, <1>8, SumZeroRows
<1> QED BY <1>1, <1>2, <1>9, <1>10 DEF Signed, Went, Came

\* The papers that have lines.
LEMMA FactsPapers ==
    ASSUME Booked(papers), NEW T, T = Facts(0, LastMinute + Ahead)
    PROVE  /\ Cardinality({x[1] : x \in T}) = Cardinality(Undone) - Cardinality(Bare)
           /\ {x[1] : x \in {y \in T : papers[y[1]].type = "return"}} = Undone \cap Backs
           /\ {x[1] : x \in {y \in T : papers[y[1]].type = "exchange"}} = ExchangesOf(Undone)
<1>1. /\ Undone \in SUBSET (DOMAIN papers) /\ IsFiniteSet(Undone)
      /\ InPeriod(0, LastMinute + Ahead) = Undone
  BY FactsAre
<1>2. \A x : x \in T <=> \E i \in Undone, g \in Good : x = <<i, g>> /\ papers[i].units[g] > 0
  BY FactsAre
<1>3. ASSUME NEW i \in Undone, i \notin Bare PROVE \E x \in T : x[1] = i
  <2>1. PICK g \in Good : papers[i].units[g] > 0
    BY <1>1, <1>3 DEF Bare, LinesOf
  <2>2. <<i, g>> \in T /\ <<i, g>>[1] = i
    BY <1>2, <2>1
  <2> QED BY <2>2
<1>4. ASSUME NEW x \in T PROVE x[1] \in Undone /\ x[1] \notin Bare
  <2>1. PICK i \in Undone, g \in Good : x = <<i, g>> /\ papers[i].units[g] > 0
    BY <1>2
  <2> QED BY <2>1 DEF Bare, LinesOf
<1>5. {x[1] : x \in T} = Undone \ Bare
  BY <1>3, <1>4
<1>6. Bare \subseteq Undone /\ Undone \cap Bare = Bare
  BY <1>1 DEF Bare
<1>7. Cardinality(Undone \ Bare) = Cardinality(Undone) - Cardinality(Bare)
  <2>1. Cardinality(Undone \ Bare) = Cardinality(Undone) - Cardinality(Undone \cap Bare)
    BY <1>1, FS_Difference
  <2> QED BY <1>6, <2>1
<1>8. ASSUME NEW i \in Undone, papers[i].type # "sale" PROVE i \notin Bare
  <2>1. GoodsOf(papers[i]) # {}
    BY <1>1, <1>8 DEF Booked, Priced
  <2> QED BY <2>1 DEF Bare, LinesOf, GoodsOf
<1>9. {x[1] : x \in {y \in T : papers[y[1]].type = "return"}} = Undone \cap Backs
  <2>1. ASSUME NEW i \in Undone \cap Backs
        PROVE  \E x \in T : papers[x[1]].type = "return" /\ x[1] = i
    BY <1>3, <1>8 DEF Backs, IsReturn
  <2>2. ASSUME NEW x \in T, papers[x[1]].type = "return" PROVE x[1] \in Undone \cap Backs
    BY <1>1, <1>4, <2>2 DEF Backs, IsReturn
  <2> QED BY <2>1, <2>2
<1>10. {x[1] : x \in {y \in T : papers[y[1]].type = "exchange"}} = ExchangesOf(Undone)
  <2>1. ASSUME NEW i \in ExchangesOf(Undone)
        PROVE  \E x \in T : papers[x[1]].type = "exchange" /\ x[1] = i
    BY <1>3, <1>8 DEF ExchangesOf
  <2>2. ASSUME NEW x \in T, papers[x[1]].type = "exchange" PROVE x[1] \in ExchangesOf(Undone)
    BY <1>4, <2>2 DEF ExchangesOf
  <2> QED BY <2>1, <2>2
<1> QED BY <1>5, <1>7, <1>9, <1>10

LEMMA FactsFields ==
    ASSUME Booked(papers), NEW T, T = Facts(0, LastMinute + Ahead)
    PROVE  LET fast == SummaryFromFacts(T)
           IN  /\ fast.gross = Went(Retails, Undone, Good) - Came(Retails, Undone, Good)
               /\ fast.net = Went(Finals, Undone, Good) - Came(Finals, Undone, Good)
               /\ fast.discount = Went(Reductions, Undone, Good) - Came(Reductions, Undone, Good)
               /\ fast.supply = Went(Supplies, Undone, Good) - Came(Supplies, Undone, Good)
               /\ fast.units = Went(Pieces, Undone, Good) - Came(Pieces, Undone, Good)
               /\ fast.papers = Cardinality(Undone) - Cardinality(Bare)
               /\ fast.returns = Cardinality(Undone \cap Backs)
               /\ fast.exchanges = Cardinality(ExchangesOf(Undone))
<1> DEFINE back == {x \in T : IsReturn(x[1])}
           gross == [x \in T |-> RetailOf(x[1], x[2])]
           net == [x \in T |-> papers[x[1]].final[x[2]]]
           cut == [x \in T |-> DiscountOf(x[1], x[2])]
           supply == [x \in T |-> SupplyOf(x[1], x[2])]
           units == [x \in T |-> papers[x[1]].units[x[2]]]
<1>1. LET fast == SummaryFromFacts(T)
      IN  /\ fast.gross = Signed(gross, T, back) /\ fast.net = Signed(net, T, back)
          /\ fast.discount = Signed(cut, T, back) /\ fast.supply = Signed(supply, T, back)
          /\ fast.units = Signed(units, T, back)
  BY DEF SummaryFromFacts
<1>2. LET fast == SummaryFromFacts(T)
      IN  /\ fast.papers = Cardinality({x[1] : x \in T})
          /\ fast.returns = Cardinality({x[1] : x \in {y \in T : papers[y[1]].type = "return"}})
          /\ fast.exchanges = Cardinality({x[1] : x \in {y \in T : papers[y[1]].type = "exchange"}})
  BY DEF SummaryFromFacts
<1>3. ASSUME NEW x \in T
      PROVE  /\ gross[x] = Retails[x] /\ net[x] = Finals[x] /\ cut[x] = Reductions[x]
             /\ supply[x] = Supplies[x] /\ units[x] = Pieces[x]
  <2>1. PICK i \in Undone, g \in Good : x = <<i, g>>
    BY FactsAre
  <2>2. x \in Cells
    BY <2>1, FactsAre, CellFacts
  <2> QED BY <2>2 DEF Retails, Finals, Reductions, Supplies, Pieces
<1>4. /\ Column(Pieces) /\ Column(Finals) /\ Column(Retails)
      /\ Column(Supplies) /\ Column(Reductions)
  BY ColumnsHold
<1>5. \A x \in T : x \in back <=> IsReturn(x[1])
  OBVIOUS
<1> HIDE DEF back, gross, net, cut, supply, units
<1>6. Signed(gross, T, back) = Went(Retails, Undone, Good) - Came(Retails, Undone, Good)
  BY <1>3, <1>4, <1>5, FactsSigned
<1>7. Signed(net, T, back) = Went(Finals, Undone, Good) - Came(Finals, Undone, Good)
  BY <1>3, <1>4, <1>5, FactsSigned
<1>8. Signed(cut, T, back) = Went(Reductions, Undone, Good) - Came(Reductions, Undone, Good)
  BY <1>3, <1>4, <1>5, FactsSigned
<1>9. Signed(supply, T, back) = Went(Supplies, Undone, Good) - Came(Supplies, Undone, Good)
  BY <1>3, <1>4, <1>5, FactsSigned
<1>10. Signed(units, T, back) = Went(Pieces, Undone, Good) - Came(Pieces, Undone, Good)
  BY <1>3, <1>4, <1>5, FactsSigned
<1>11. LET fast == SummaryFromFacts(T)
       IN  /\ fast.papers = Cardinality(Undone) - Cardinality(Bare)
           /\ fast.returns = Cardinality(Undone \cap Backs)
           /\ fast.exchanges = Cardinality(ExchangesOf(Undone))
  BY <1>2, FactsPapers
<1> QED BY <1>1, <1>6, <1>7, <1>8, <1>9, <1>10, <1>11

LEMMA FactsAgree ==
    ASSUME Booked(papers)
    PROVE  SummaryFromFacts(Facts(0, LastMinute + Ahead)) =
              [Summary(Everything) EXCEPT !.papers = @ - Cardinality(Bare)]
<1>1. PICK T, rows : T = Facts(0, LastMinute + Ahead) /\ rows = Everything
  OBVIOUS
<1>2. PICK fast, slow : fast = SummaryFromFacts(T) /\ slow = Summary(rows)
  OBVIOUS
<1>3. fast = [gross |-> fast.gross, net |-> fast.net, discount |-> fast.discount,
              supply |-> fast.supply, units |-> fast.units, papers |-> fast.papers,
              returns |-> fast.returns, exchanges |-> fast.exchanges]
  BY <1>2 DEF SummaryFromFacts
<1>4. slow = [gross |-> slow.gross, net |-> slow.net, discount |-> slow.discount,
              supply |-> slow.supply, units |-> slow.units, papers |-> slow.papers,
              returns |-> slow.returns, exchanges |-> slow.exchanges]
  BY <1>2 DEF Summary
<1>5. Lists(rows, Undone)
  BY <1>1, FactsAre
<1>6. /\ fast.gross = slow.gross /\ fast.net = slow.net /\ fast.discount = slow.discount
      /\ fast.supply = slow.supply /\ fast.units = slow.units
      /\ fast.returns = slow.returns /\ fast.exchanges = slow.exchanges
      /\ fast.papers = slow.papers - Cardinality(Bare)
  BY <1>1, <1>2, <1>5, SummarySums, FactsFields
<1> QED BY <1>1, <1>2, <1>3, <1>4, <1>6

\* What is added to a part adds to its balance.
LEMMA BalanceGrows ==
    ASSUME NEW D, IsFiniteSet(D), NEW T \in SUBSET D, NEW a, NEW b,
           \A x \in D : a[x] \in Nat /\ b[x] \in Nat, \A x \in D \ T : b[x] <= a[x]
    PROVE  SumOver(a, T) - SumOver(b, T) <= SumOver(a, D) - SumOver(b, D)
<1>1. PICK R : R = D \ T
  OBVIOUS
<1>2. \A x \in D : a[x] \in Int /\ b[x] \in Int
  OBVIOUS
<1>3. SumOver(a, D) = SumOver(a, T) + SumOver(a, R)
  BY <1>1, <1>2, SumPart
<1>4. SumOver(b, D) = SumOver(b, T) + SumOver(b, R)
  BY <1>1, <1>2, SumPart
<1>5. IsFiniteSet(R) /\ IsFiniteSet(T)
  BY <1>1, FS_Subset, FS_Difference
<1>6. \A x \in R : b[x] \in Nat /\ a[x] \in Nat /\ b[x] <= a[x]
  BY <1>1
<1>7. SumOver(b, R) <= SumOver(a, R)
  BY <1>5, <1>6, SumMonotone
<1>8. SumOver(a, T) \in Nat /\ SumOver(b, T) \in Nat
  <2>1. \A x \in T : a[x] \in Int /\ b[x] \in Int
    BY <1>2
  <2> QED BY <1>5, <2>1, SumType
<1>9. SumOver(a, R) \in Nat /\ SumOver(b, R) \in Nat
  <2>1. \A x \in R : a[x] \in Int /\ b[x] \in Int
    BY <1>1, <1>2
  <2> QED BY <1>5, <2>1, SumType
<1> QED BY <1>3, <1>4, <1>7, <1>8, <1>9

\* The goods that sell no less than one, its own included.
Leading(net, g) == {k \in Good : k = g \/ net[k] > net[g]}

\* A product that brings more is in no lower segment.
LEMMA SegmentsOrdered ==
    ASSUME Booked(papers), NEW rows, NEW S, Lists(rows, S), NEW g \in Good, NEW h \in Good,
           ProductRow(rows, g).net > ProductRow(rows, h).net, Segment(rows, h) = "A"
    PROVE  Segment(rows, g) = "A"
<1>1. PICK net : net = [k \in Good |-> ProductRow(rows, k).net]
  OBVIOUS
<1>2. PICK a, b : /\ a = [k \in Good |-> WentOf(Finals, S, k)]
                  /\ b = [k \in Good |-> CameOf(Finals, S, k)]
  OBVIOUS
<1>3. IsFiniteSet(Good)
  BY AdjustmentsAssumption
<1>4. ASSUME NEW k \in Good
      PROVE  a[k] \in Nat /\ b[k] \in Nat /\ net[k] = a[k] - b[k] /\ net[k] \in Int
  <2>1. {k} \in SUBSET Good
    OBVIOUS
  <2>2. Went(Finals, S, {k}) \in Nat /\ Came(Finals, S, {k}) \in Nat
    BY <2>1, ColumnsHold, WentType DEF Lists
  <2>3. ProductRow(rows, k).net = Went(Finals, S, {k}) - Came(Finals, S, {k})
    BY ProductSums
  <2> QED BY <1>1, <1>2, <2>2, <2>3 DEF WentOf, CameOf
<1>5. ASSUME NEW T \in SUBSET Good, NEW f, f = [k \in T |-> net[k]]
      PROVE  /\ SumSigned(f) = SumOver(a, T) - SumOver(b, T)
             /\ SumOver(a, T) \in Nat /\ SumOver(b, T) \in Nat
  <2>1. IsFiniteSet(T) /\ DOMAIN f = T
    BY <1>3, <1>5, FS_Subset
  <2>2. \A k \in T : a[k] \in Nat /\ b[k] \in Nat /\ f[k] = a[k] - b[k]
    BY <1>4, <1>5
  <2> QED BY <2>1, <2>2, SumOfDifferences
<1>6. PICK total : total = SumSigned(net)
  OBVIOUS
<1>7. PICK run : run = [k \in Good |-> SumSigned([l \in Leading(net, k) |-> net[l]])]
  OBVIOUS
<1>8. \A k \in Good : Segment(rows, k) = "A" <=> total <= 0 \/ 100 * run[k] <= 80 * total
  <2> SUFFICES ASSUME NEW k \in Good
               PROVE  Segment(rows, k) = "A" <=> total <= 0 \/ 100 * run[k] <= 80 * total
    OBVIOUS
  <2>1. run[k] = SumSigned([l \in {m \in Good : m = k \/ net[m] > net[k]} |-> net[l]])
    BY <1>7 DEF Leading
  <2>2. Segment(rows, k) = IF total <= 0 \/ 100 * run[k] <= 80 * total THEN "A"
                           ELSE IF 100 * run[k] <= 95 * total THEN "B" ELSE "C"
    BY <1>1, <1>6, <2>1 DEF Segment
  <2> QED BY <2>2
<1>9. PICK G, A, B \in SUBSET Good : G = Good /\ A = Leading(net, g) /\ B = Leading(net, h)
  BY DEF Leading
<1>10. A \in SUBSET B /\ B \in SUBSET G /\ IsFiniteSet(B) /\ IsFiniteSet(G)
  <2>1. A \in SUBSET B
    BY <1>1, <1>4, <1>9 DEF Leading
  <2> QED BY <1>3, <1>9, <2>1, FS_Subset
<1>11. /\ total = SumOver(a, G) - SumOver(b, G)
       /\ SumOver(a, G) \in Nat /\ SumOver(b, G) \in Nat
  <2>1. net = [k \in G |-> net[k]]
    BY <1>1, <1>9
  <2> QED BY <1>5, <1>6, <2>1
<1>12. /\ run[g] = SumOver(a, A) - SumOver(b, A)
       /\ SumOver(a, A) \in Nat /\ SumOver(b, A) \in Nat
  <2>1. PICK f : f = [k \in A |-> net[k]]
    OBVIOUS
  <2>2. run[g] = SumSigned(f)
    BY <1>7, <1>9, <2>1
  <2> QED BY <1>5, <2>1, <2>2
<1>13. /\ run[h] = SumOver(a, B) - SumOver(b, B)
       /\ SumOver(a, B) \in Nat /\ SumOver(b, B) \in Nat
  <2>1. PICK f : f = [k \in B |-> net[k]]
    OBVIOUS
  <2>2. run[h] = SumSigned(f)
    BY <1>7, <1>9, <2>1
  <2> QED BY <1>5, <2>1, <2>2
<1>14. total <= 0 \/ 100 * run[h] <= 80 * total
  BY <1>8
<1>15. CASE total <= 0
  BY <1>8, <1>15
<1>16. CASE total > 0 /\ net[h] >= 0
  <2>1. \A k \in B : a[k] \in Nat /\ b[k] \in Nat
    BY <1>4
  <2>2. \A k \in B \ A : b[k] <= a[k]
    <3> SUFFICES ASSUME NEW k \in B \ A PROVE b[k] <= a[k]
      OBVIOUS
    <3>1. net[k] >= 0
      BY <1>4, <1>9, <1>16 DEF Leading
    <3> QED BY <1>4, <3>1
  <2>3. SumOver(a, A) - SumOver(b, A) <= SumOver(a, B) - SumOver(b, B)
    BY <1>10, <2>1, <2>2, BalanceGrows
  <2>4. run[g] <= run[h] /\ run[g] \in Int /\ run[h] \in Int /\ total \in Int
    BY <1>11, <1>12, <1>13, <2>3
  <2>5. 100 * run[g] <= 80 * total
    BY <1>14, <1>16, <2>4
  <2> QED BY <1>8, <2>5
<1>17. CASE total > 0 /\ net[h] < 0
  <2>1. \A k \in G : b[k] \in Nat /\ a[k] \in Nat
    BY <1>4
  <2>2. \A k \in G \ B : a[k] <= b[k]
    <3> SUFFICES ASSUME NEW k \in G \ B PROVE a[k] <= b[k]
      OBVIOUS
    <3>1. ~(net[k] > net[h])
      BY <1>9 DEF Leading
    <3> QED BY <1>4, <1>17, <3>1
  <2>3. SumOver(b, B) - SumOver(a, B) <= SumOver(b, G) - SumOver(a, G)
    BY <1>10, <2>1, <2>2, BalanceGrows
  <2>4. total <= run[h] /\ run[h] \in Int /\ total \in Int
    BY <1>11, <1>13, <2>3
  <2> QED BY <1>14, <1>17, <2>4
<1>18. total \in Int /\ net[h] \in Int
  BY <1>4, <1>11
<1> QED BY <1>15, <1>16, <1>17, <1>18

\* One figure, added up in many ways.
LEMMA FiguresAgree ==
    ASSUME PapersInv
    PROVE  SumsAgree
<1>1. PICK rows : rows = Everything
  OBVIOUS
<1>2. Booked(papers) /\ Lists(rows, Undone) /\ DOMAIN papers \subseteq Ids
  BY <1>1, PapersFacts, FactsAre
<1>3. PICK summary, totals, back, net :
        /\ summary = Summary(rows) /\ totals = GeneralTotals(rows)
        /\ back = OrderReturns(rows) /\ net = summary.net
  OBVIOUS
<1>4. PICK suppliers, sellers :
        suppliers = {SupplierOf[g] : g \in Good} /\ sellers = {SellerOf[i] : i \in Ids}
  OBVIOUS
<1>5. /\ net = Went(Finals, Undone, Good) - Came(Finals, Undone, Good)
      /\ summary.gross = Went(Retails, Undone, Good) - Came(Retails, Undone, Good)
      /\ summary.units = Went(Pieces, Undone, Good) - Came(Pieces, Undone, Good)
      /\ summary.papers = Cardinality(Undone)
      /\ summary.returns = Cardinality(Undone \cap Backs)
  BY <1>2, <1>3, SummarySums
<1>6. /\ totals.sold = Went(Pieces, Undone, Good)
      /\ totals.returned = Came(Pieces, Undone, Good)
      /\ totals.netUnits = Went(Pieces, Undone, Good) - Came(Pieces, Undone, Good)
      /\ totals.returnedSum = Came(Finals, Undone, Good)
      /\ totals.net = Went(Finals, Undone, Good) - Came(Finals, Undone, Good)
  BY <1>2, <1>3, TotalsSums
<1>7. back.units = Came(Pieces, Undone, Good) /\ back.amount = Came(Finals, Undone, Good)
  BY <1>2, <1>3, ReturnSums
<1>8. SummaryFromFacts(Facts(0, LastMinute + Ahead)) =
          [summary EXCEPT !.papers = @ - Cardinality(Bare)]
  BY <1>1, <1>2, <1>3, FactsAgree
<1>9. SumSigned([g \in Good |-> ProductRow(rows, g).net]) = net
  BY <1>2, <1>5, ProductsAddUp
<1>10. /\ SumSigned([s \in suppliers |-> SupplierRow(rows, s).net]) = net
       /\ SumSigned([s \in suppliers |-> SupplierShare(rows, s).gross]) = summary.gross
       /\ SumSigned([s \in suppliers |-> SupplierShare(rows, s).returns]) = back.units
  BY <1>2, <1>4, <1>5, <1>7, SuppliersAddUp
<1>11. SumSigned([s \in sellers |-> SellerRow(rows, s).net]) = net
  BY <1>2, <1>4, <1>5, SellersAddUp
<1>12. /\ SumSigned([t \in MomentsOf(rows) |-> GeneralTable(rows)[t].net]) = net
       /\ SumSigned(SalesByDay(rows)) = net
  BY <1>2, <1>5, MomentsAddUp
<1>13. totals.net = net /\ totals.netUnits = summary.units
  BY <1>5, <1>6
<1>14. /\ CustomerRow(rows).amount - back.amount = net
       /\ CustomerRow(rows).count = summary.papers - summary.returns
  <2>1. /\ CustomerRow(rows).amount = Went(Finals, Undone, Good)
        /\ CustomerRow(rows).count = Cardinality(Undone \ Backs)
    BY <1>2, CustomerSums
  <2>2. Cardinality(Undone \ Backs) = Cardinality(Undone) - Cardinality(Undone \cap Backs)
    BY <1>2, FactsAre, FS_Difference
  <2> QED BY <1>5, <1>7, <2>1, <2>2
<1>15. back.amount = totals.returnedSum /\ back.units = totals.returned
  BY <1>6, <1>7
<1>16. SoldMetric(rows, "sold_qty") = totals.sold
  BY <1>2, <1>6, SoldSums
<1>17. Sum(Ranking(rows)) = totals.sold
  BY <1>2, <1>6, RankingAddsUp
<1>18. ASSUME NEW g \in Good, NEW h \in Good,
              ProductRow(rows, g).net > ProductRow(rows, h).net, Segment(rows, h) = "A"
       PROVE  Segment(rows, g) = "A"
  BY <1>2, <1>18, SegmentsOrdered
<1>19. ASSUME NEW top \in SUBSET Good
       PROVE  /\ SumSigned(TopAndOthers(rows, top).top) + TopAndOthers(rows, top).others = net
              /\ SumSigned(Performance(rows, top).top) + Performance(rows, top).others = net
              /\ AttributeRow(rows, top).revenue + AttributeRow(rows, Good \ top).revenue = net
  BY <1>2, <1>5, TopsAddUp
<1>20. PICK product : product = [g \in Good |-> ProductRow(rows, g)]
  OBVIOUS
<1>21. SumSigned([g \in Good |-> product[g].net]) = net
  <2>1. [g \in Good |-> product[g].net] = [g \in Good |-> ProductRow(rows, g).net]
    BY <1>20
  <2> QED BY <1>9, <2>1
<1>22. \A g, h \in Good :
          product[g].net > product[h].net /\ Segment(rows, h) = "A" => Segment(rows, g) = "A"
  BY <1>18, <1>20
<1> QED BY <1>1, <1>3, <1>4, <1>8, <1>10, <1>11, <1>12, <1>13, <1>14, <1>15, <1>16, <1>17,
           <1>19, <1>20, <1>21, <1>22 DEF SumsAgree

LEMMA BooksFollow ==
    ASSUME PapersInv
    PROVE  ReportsMatchBooks
BY ClientFollows, PagesAgree, ExchangesAreWhole, FiguresAgree, CustomersAreKnown
   DEF ReportsMatchBooks

-----------------------------------------------------------------------------
(* Payments, and papers with their reports, in full: any number of requests *)
(* for the receipt, and clerks who redate, receive and read all at once.    *)

\* Takings add up whatever payments, changes of payment and receipts cross
\* (payOrder, updatePaymentMethod, getOrCreateForSale).
THEOREM TillTakingsAddUp == PaymentsSpec => []TakingsAddUp
<1>1. PaymentsSpec => []PaymentsInv
  BY PaymentsBegin, PaymentsStep, PTL DEF PaymentsSpec
<1> QED BY <1>1, TakingsFollow, PTL

LEMMA PapersAndReports == ReportsSpec => [](PapersInv /\ ReportInv)
<1>1. ReportsInit => PapersInv /\ ReportInv
  BY PapersBegin, ReportBegins DEF ReportsInit
<1>2. PapersInv /\ ReportInv /\ [ReportsNext]_reportVars => (PapersInv /\ ReportInv)'
  BY ReportStep
<1> QED BY <1>1, <1>2, PTL DEF ReportsSpec

\* Dates stay in order, reports count once, and what they say is what the shelf and
\* the client's record say, while clerks return, exchange, cancel and redate papers
\* of any sale, goods are delivered and reports are read, in any order.
THEOREM ReportsTellTheTruth ==
    ReportsSpec => [](DatesInOrder /\ ReportCountsOnce /\ ReportsMatchStock /\ ReportsMatchBooks)
<1>1. PapersInv /\ ReportInv =>
          DatesInOrder /\ ReportCountsOnce /\ ReportsMatchStock /\ ReportsMatchBooks
  BY CountsFollow, StockFollows, BooksFollow DEF PapersInv
<1> QED BY <1>1, PapersAndReports, PTL

-----------------------------------------------------------------------------
(* The desk: the parts share no variable.                                  *)

SalesDeskInv ==
    /\ SaleInv /\ PaymentsInv /\ PapersInv /\ ReportInv
    /\ part = "dates" => report = NoReport

LEMMA SalesDeskBegins == SalesDeskInit => SalesDeskInv
<1> SUFFICES ASSUME SalesDeskInit PROVE SalesDeskInv
  OBVIOUS
<1>1. Init /\ PaymentsInit /\ AdjustmentsInit /\ report = NoReport
  BY DEF SalesDeskInit, ReportsInit
<1>2. ReportInv
  BY <1>1 DEF ReportInv, ReportHolds
<1> QED BY <1>1, <1>2, SaleBegins, PaymentsBegin, PapersBegin DEF SalesDeskInv

\* What each part leaves alone stays true.
LEMMA TillStands == SaleInv /\ UNCHANGED vars => SaleInv'
BY SaleStep

LEMMA PaymentsStand == PaymentsInv /\ UNCHANGED paymentVars => PaymentsInv'
BY PaymentsStep

LEMMA ReportsStand ==
    ASSUME PapersInv, ReportInv, UNCHANGED reportVars
    PROVE  PapersInv' /\ ReportInv'
BY ReportStep

LEMMA SalesDeskStep == SalesDeskInv /\ [SalesDeskNext]_salesDeskVars => SalesDeskInv'
<1> SUFFICES ASSUME SalesDeskInv, [SalesDeskNext]_salesDeskVars PROVE SalesDeskInv'
  OBVIOUS
<1>1. /\ SaleInv /\ PaymentsInv /\ PapersInv /\ ReportInv
      /\ part = "dates" => report = NoReport
  BY DEF SalesDeskInv
<1>2. CASE /\ part = "till" /\ Next
           /\ UNCHANGED <<part, paymentVars, reportVars>>
  <2>1. UNCHANGED part /\ UNCHANGED paymentVars /\ UNCHANGED reportVars
    BY <1>2
  <2>2. SaleInv'
    BY <1>1, <1>2, SaleStep
  <2> QED BY <1>1, <1>2, <2>1, <2>2, PaymentsStand, ReportsStand DEF SalesDeskInv
<1>3. CASE /\ part = "payment" /\ PaymentsNext
           /\ UNCHANGED <<part, vars, reportVars>>
  <2>1. UNCHANGED part /\ UNCHANGED vars /\ UNCHANGED reportVars
    BY <1>3
  <2>2. PaymentsInv'
    BY <1>1, <1>3, PaymentsStep
  <2> QED BY <1>1, <1>3, <2>1, <2>2, TillStands, ReportsStand DEF SalesDeskInv
<1>4. CASE /\ part = "dates" /\ AdjustmentsNext
           /\ UNCHANGED <<part, vars, paymentVars, report>>
  <2>1. UNCHANGED vars /\ UNCHANGED paymentVars /\ report' = NoReport
    BY <1>1, <1>4
  <2>2. PapersInv'
    BY <1>1, <1>4, PapersStep
  <2>3. ReportInv'
    BY <2>1 DEF ReportInv, ReportHolds
  <2> QED BY <1>1, <2>1, <2>2, <2>3, TillStands, PaymentsStand DEF SalesDeskInv
<1>5. CASE /\ part = "reports" /\ ReportsNext
           /\ UNCHANGED <<part, vars, paymentVars>>
  <2>1. UNCHANGED part /\ UNCHANGED vars /\ UNCHANGED paymentVars
    BY <1>5
  <2>2. PapersInv' /\ ReportInv'
    BY <1>1, <1>5, ReportStep
  <2> QED BY <1>1, <1>5, <2>1, <2>2, TillStands, PaymentsStand DEF SalesDeskInv
<1>6. CASE UNCHANGED salesDeskVars
  <2>1. UNCHANGED vars /\ UNCHANGED paymentVars /\ UNCHANGED reportVars
    BY <1>6 DEF salesDeskVars
  <2>2. part' = part /\ report' = report
    BY <1>6 DEF salesDeskVars, reportVars
  <2> QED BY <1>1, <2>1, <2>2, TillStands, PaymentsStand, ReportsStand DEF SalesDeskInv
<1> QED BY <1>2, <1>3, <1>4, <1>5, <1>6 DEF SalesDeskNext

\* What the parts of the desk rest on holds whichever of them a behaviour is about.
THEOREM SalesDeskInvariant == SalesDeskSpec => []SalesDeskInv
<1> QED BY SalesDeskBegins, SalesDeskStep, PTL DEF SalesDeskSpec

\* Every variable of the desk keeps its type.
THEOREM SalesDeskTypes == SalesDeskSpec => []SalesDeskTypeOK
<1>1. SalesDeskInv => SalesDeskTypeOK
  <2> SUFFICES ASSUME SalesDeskInv PROVE SalesDeskTypeOK
    OBVIOUS
  <2>1. TypeOK
    BY DEF SalesDeskInv, SaleInv
  <2>2. PaymentsTypeOK
    BY PaymentsInvTypes DEF SalesDeskInv
  <2>3. ReportsTypeOK
    BY DEF SalesDeskInv, PapersInv, ReportInv, ReportsTypeOK
  <2> QED BY <2>1, <2>2, <2>3 DEF SalesDeskTypeOK
<1> QED BY <1>1, SalesDeskInvariant, PTL

\* The till of the whole desk posts a sale at most once too.
THEOREM TillPostsAtMostOnce == SalesDeskSpec => []PostedAtMostOnce
<1>1. SalesDeskInv => PostedAtMostOnce
  BY DEF SalesDeskInv, SaleInv, TypeOK, PostedIsNoDraft, PostedAtMostOnce
<1> QED BY <1>1, SalesDeskInvariant, PTL

\* However a sale is paid, its payment changed and its receipt sent, what the statistics
\* say came in and what is owed are its price, and the receipt says the same; with the
\* exceptions TakingsAddUp names (pay and changePaymentMethod, sales.service.ts).
THEOREM TakingsAlwaysAddUp == SalesDeskSpec => []TakingsAddUp
<1>1. SalesDeskInv => TakingsAddUp
  BY TakingsFollow DEF SalesDeskInv
<1> QED BY <1>1, SalesDeskInvariant, PTL

\* However dates are changed and goods come back, no live return or exchange is dated
\* more than a minute before its sale, unless two changes of dates ran into each other
\* (updateSaleDate).
THEOREM DatesStayInOrder == SalesDeskSpec => []DatesInOrder
<1>1. SalesDeskInv => DatesInOrder
  BY DEF SalesDeskInv, PapersInv
<1> QED BY <1>1, SalesDeskInvariant, PTL

\* A report read page by page counts every paper of its period, and each of them
\* once, unless a paper was written since its first page (loadAllReportPages).
THEOREM ReportsCountOnce == SalesDeskSpec => []ReportCountsOnce
<1>1. SalesDeskInv => ReportCountsOnce
  BY CountsFollow DEF SalesDeskInv
<1> QED BY <1>1, SalesDeskInvariant, PTL

\* The stock a report gives for the start of its period is the stock there was, of
\* every good, and what documents and movements say of all time is what is left.
THEOREM StockReportsHold == SalesDeskSpec => []ReportsMatchStock
<1>1. SalesDeskInv => ReportsMatchStock
  BY StockFollows DEF SalesDeskInv
<1> QED BY <1>1, SalesDeskInvariant, PTL

\* The client's record, the pages of the client and every total of the reports, by
\* paper, line, product, supplier, seller, moment or attribute, are of one sum; an
\* exchange is undone as a whole; a customer who comes back is known.
THEOREM BookReportsHold == SalesDeskSpec => []ReportsMatchBooks
<1>1. SalesDeskInv => ReportsMatchBooks
  BY BooksFollow DEF SalesDeskInv
<1> QED BY <1>1, SalesDeskInvariant, PTL

=============================================================================
