------------------------------ MODULE Payments ------------------------------
(***************************************************************************)
(* How a sale is paid (src/sales/sales.service.ts): in money by one or     *)
(* several methods, from the client's loyalty balance, and on debt.  What  *)
(* covers what is checked before the transaction that takes the payment,   *)
(* so the sale may change in between; and the payment may be changed later *)
(* by a request that checks a debt and writes none, and knows no bonus.    *)
(* The statistics of the sales list then say how much came in by each      *)
(* method, and the receipt (src/receipts) keeps what it was when somebody  *)
(* first asked for it.                                                     *)
(*                                                                         *)
(* One sale of one client.  Amounts are in the least unit; a payment has   *)
(* at most one row for each method.                                        *)
(***************************************************************************)
EXTENDS Totals

CONSTANTS
    Method,         \* payment types of the company
    DefaultMethod,  \* the one for cash, of requests that name none
    Bonus,          \* LOYALTY_CASHBACK_PAYMENT_METHOD
    NoSplit,        \* extraPayments is null
    Cashier,        \* employees, one request in flight each
    BonusPercent,   \* loyalty program
    OpeningBalance, \* loyalty balance of the client
    Bills           \* bound: what the sale may cost

ASSUME PaymentsAssumption ==
    /\ DefaultMethod \in Method /\ Bonus \notin Method /\ IsFiniteSet(Method)
    /\ NoSplit \notin [Method \cup {Bonus} -> Nat]
    /\ BonusPercent \in 0 .. 100 /\ OpeningBalance \in Nat
    /\ Bills \subseteq Nat /\ IsFiniteSet(Bills) /\ Bills # {}

VARIABLES
    bill,      \* Sale: isDraft, payableTotal, paymentMethod, extraPayments, ...; and,
               \* as history, whether its payment was changed and what the split of
               \* that change leaves to a debt
    balance,   \* Client.balanceUzs
    counter,   \* the request each cashier has in flight
    receipt,   \* Receipt of the sale
    outrun,    \* history: the sale changed after its payment was checked
    early      \* history: the payment was changed while the sale was a draft

paymentVars == <<bill, balance, counter, receipt, outrun, early>>

Most == CHOOSE n \in Bills : \A k \in Bills : k <= n
Amounts == 0 .. Most
\* A due date or a comment asks for a debt without an amount, here of 0.
Debts == [asked : {TRUE}, amount : Amounts] \cup [asked : {FALSE}, amount : {0}]
AtCounter == [step |-> "idle"]
NoReceipt == [step |-> "none"]

PaymentsInit ==
    /\ bill = [paid |-> FALSE, payable |-> 0, method |-> DefaultMethod,
               split |-> NoSplit, debt |-> 0, bonusPaid |-> 0, bonusEarned |-> 0,
               changed |-> FALSE, missing |-> 0]
    /\ balance = OpeningBalance
    /\ counter = [c \in Cashier |-> AtCounter]
    /\ receipt = NoReceipt
    /\ outrun = FALSE /\ early = FALSE

-----------------------------------------------------------------------------
(* What a request says: the money by method, zero for a method it does not *)
(* name, the method it names first (the default when it names none), the   *)
(* debt and the part paid in bonus.                                        *)

Total(money) == SumOver(money, Method)
Named(money) == {m \in Method : money[m] > 0}

\* parseDebtPayload: the debt asked for, or all that is due.
DebtOf(debt, due) == IF debt.asked /\ debt.amount = 0 THEN due ELSE debt.amount

DebtAccepted(debt, due) == debt.asked => DebtOf(debt, due) \in 1 .. due

\* Mutant: with a debt the payments need not cover the rest.
CoversAtMost(money, debt, due) ==
    /\ DebtAccepted(debt, due)
    /\ Total(money) <= due
    /\ ~debt.asked /\ Named(money) # {} => Total(money) = due

\* validatePaymentAmounts: money and debt make up what is due; no money and no
\* debt is a payment of everything by one method.
Covers(money, debt, due) ==
    /\ DebtAccepted(debt, due)
    /\ Total(money) <= due
    /\ debt.asked => Total(money) + DebtOf(debt, due) = due
    /\ ~debt.asked /\ Named(money) # {} => Total(money) = due

\* The rows of a split, with the bonus among them.
Rows(money, bonus) == [m \in Method \cup {Bonus} |-> IF m = Bonus THEN bonus ELSE money[m]]

\* One payment of everything needs no split.
MoneySplit(money, debt) ==
    IF Cardinality(Named(money)) > 1 \/ (debt.asked /\ Named(money) # {})
    THEN Rows(money, 0) ELSE NoSplit

\* withCashbackPayment: with a bonus the split is always written out.
WithBonus(money, method, debt, due, bonus) ==
    LET split == MoneySplit(money, debt)
        all == [m \in Method |-> IF m = method /\ ~debt.asked THEN due ELSE 0]
    IN  IF bonus = 0 THEN [method |-> method, split |-> split]
        ELSE [method |-> IF due = 0 THEN Bonus ELSE method,
              split |-> IF split = NoSplit THEN Rows(all, bonus) ELSE Rows(money, bonus)]

-----------------------------------------------------------------------------
Turn(c, request) == counter' = [counter EXCEPT ![c] = request]

\* addItem, updateItem, removeItem and updateDiscount change what is to be paid.
EditBill(n) ==
    /\ ~bill.paid /\ n # bill.payable
    /\ bill' = [bill EXCEPT !.payable = n]
    /\ UNCHANGED <<balance, counter, receipt, outrun, early>>

\* parseCashbackPayment: no more than the price.
BonusAccepted(bonus) == bonus <= bill.payable

\* pay and payOrder up to their transaction.
CheckPayment(c, money, first, debt, bonus) ==
    LET due == bill.payable - bonus
    IN  /\ counter[c] = AtCounter
        /\ ~bill.paid
        /\ BonusAccepted(bonus)
        /\ Covers(money, debt, due)
        /\ Turn(c, [step |-> "pay", payable |-> bill.payable, bonus |-> bonus,
                    debt |-> DebtOf(debt, due),
                    rows |-> WithBonus(money, first, debt, due, bonus)])
        /\ UNCHANGED <<bill, balance, receipt, outrun, early>>

\* Mutant: the debit does not look at the balance.
CanDebitAny(bonus) == TRUE

\* debitCashbackPayment: the balance never goes below zero.
CanDebit(bonus) == bonus <= balance

\* creditSaleCashback: of what was not paid in bonus, rounded half up.
Earned(payable, bonus) == (2 * (payable - bonus) * BonusPercent + 100) \div 200

\* The transaction of pay and payOrder: the sale is claimed, the bonus debited,
\* the debt created, the cashback credited.  A split that is null leaves the
\* column as it was.
CommitPayment(c) ==
    LET r == counter[c]
        earned == IF bill.payable > r.bonus THEN Earned(bill.payable, r.bonus) ELSE 0
    IN  /\ r.step = "pay"
        /\ ~bill.paid
        /\ CanDebit(r.bonus)
        /\ bill' = [bill EXCEPT
              !.paid = TRUE, !.method = r.rows.method, !.debt = r.debt,
              !.split = IF r.rows.split = NoSplit THEN @ ELSE r.rows.split,
              !.bonusPaid = r.bonus, !.bonusEarned = earned]
        /\ balance' = balance - r.bonus + earned
        /\ outrun' = (r.payable # bill.payable)
        /\ Turn(c, AtCounter)
        /\ UNCHANGED <<receipt, early>>

\* updatePaymentMethod: checked against the whole price, whatever is on debt or
\* was paid in bonus, and for drafts as well.  A debt the request names is part
\* of what covers the price, as in a payment.
CheckChange(c, money, first, debt) ==
    /\ counter[c] = AtCounter
    /\ Covers(money, debt, bill.payable)
    /\ Turn(c, [step |-> "change", method |-> first, draft |-> ~bill.paid,
                promised |-> DebtOf(debt, bill.payable),
                split |-> IF Cardinality(Named(money)) > 1 THEN Rows(money, 0) ELSE NoSplit])
    /\ UNCHANGED <<bill, balance, receipt, outrun, early>>

\* The method and, if there are several, the rows; no debt is made or changed.
CommitChange(c) ==
    LET r == counter[c]
    IN  /\ r.step = "change"
        /\ bill' = [bill EXCEPT !.method = r.method, !.changed = TRUE,
                                !.split = IF r.split = NoSplit THEN @ ELSE r.split,
                                !.missing = IF r.split = NoSplit THEN @ ELSE r.promised]
        /\ early' = (early \/ r.draft)
        /\ Turn(c, AtCounter)
        /\ UNCHANGED <<balance, receipt, outrun>>

-----------------------------------------------------------------------------
\* buildSaleListStats: what the sale adds to a method.
Counted(m) ==
    IF bill.split # NoSplit THEN bill.split[m]
    ELSE IF bill.method = m THEN bill.payable ELSE 0

\* searchOrderStats: the same, in a row for each method.
MethodStats == [m \in Method \cup {Bonus} |-> Counted(m)]

\* buildSnapshot, of a paid sale or a draft: the balance before the sale is the
\* one the client has now, without what the sale moved.
Snapshot ==
    [paid |-> bill.paid, came |-> MethodStats, total |-> bill.payable, debt |-> bill.debt,
     after |-> balance, before |-> balance - bill.bonusEarned + bill.bonusPaid]

\* getOrCreateForSale up to the create.
AskReceipt(c) ==
    /\ counter[c] = AtCounter
    /\ receipt = NoReceipt
    /\ Turn(c, [step |-> "receipt", snapshot |-> Snapshot])
    /\ UNCHANGED <<bill, balance, receipt, outrun, early>>

\* A second create hits the unique saleId and takes the row there is.
CommitReceipt(c) ==
    /\ counter[c].step = "receipt"
    /\ receipt' = IF receipt = NoReceipt THEN counter[c].snapshot ELSE receipt
    /\ Turn(c, AtCounter)
    /\ UNCHANGED <<bill, balance, outrun, early>>

\* The claim fails, the balance is too low, or the request dies.
LeaveCounter(c) ==
    /\ counter[c] # AtCounter
    /\ Turn(c, AtCounter)
    /\ UNCHANGED <<bill, balance, receipt, outrun, early>>

PaymentsNext ==
    \/ \E n \in Bills : EditBill(n)
    \/ \E c \in Cashier :
          \/ \E money \in [Method -> Amounts], first \in Method :
                /\ money[first] > 0 \/ Named(money) = {}
                /\ \E debt \in Debts :
                      \/ \E bonus \in Amounts : CheckPayment(c, money, first, debt, bonus)
                      \/ CheckChange(c, money, first, debt)
          \/ CommitPayment(c)
          \/ CommitChange(c)
          \/ AskReceipt(c)
          \/ CommitReceipt(c)
          \/ LeaveCounter(c)

PaymentsSpec == PaymentsInit /\ [][PaymentsNext]_paymentVars

-----------------------------------------------------------------------------
Splits == {NoSplit} \cup [Method \cup {Bonus} -> Amounts]

PaymentsTypeOK ==
    /\ bill \in [paid : BOOLEAN, payable : Amounts, method : Method \cup {Bonus},
                 split : Splits, debt : Amounts, bonusPaid : Amounts,
                 bonusEarned : Nat, changed : BOOLEAN, missing : Amounts]
    /\ balance \in Nat
    /\ \A c \in Cashier : counter[c].step \in {"idle", "pay", "change", "receipt"}
    /\ receipt \in {NoReceipt} \cup
          [paid : BOOLEAN, came : [Method \cup {Bonus} -> Amounts], total : Amounts,
           debt : Amounts, after : Nat, before : Nat]
    /\ outrun \in BOOLEAN /\ early \in BOOLEAN

\* What the statistics say came in, and what the client owes, is the price of
\* the sale; the bonus they show is the one that was spent.  A sale wholly on
\* debt is counted as paid by its method too.  Where a change of the payment has
\* left part of the price to a debt that nobody wrote, that part, and no more, is
\* lacking.  The exceptions are a price that changed after its payment was checked,
\* and a payment that was changed on a sale with debt or bonus or while it was a
\* draft.  A receipt that was asked for once the sale was paid says the same, and
\* what the client had before it, unless the payment was changed.
TakingsAddUp ==
    LET came == SumOver(MethodStats, Method \cup {Bonus})
        known == bill.changed => ~early /\ bill.debt = 0 /\ bill.bonusPaid = 0
    IN  bill.paid /\ known /\ ~outrun =>
            /\ bill.split # NoSplit => came + bill.debt + bill.missing = bill.payable
            /\ bill.split = NoSplit => came = bill.payable /\ bill.debt \in {0, bill.payable}
            /\ Counted(Bonus) = bill.bonusPaid
            /\ receipt # NoReceipt /\ receipt.paid /\ ~bill.changed =>
                  /\ receipt.came = MethodStats
                  /\ receipt.total = bill.payable /\ receipt.debt = bill.debt
                  /\ receipt.before = OpeningBalance /\ receipt.after = balance

=============================================================================
