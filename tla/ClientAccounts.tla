--------------------------- MODULE ClientAccounts ---------------------------
(***************************************************************************)
(* What a client owes and owns: debts with their repayments (clients       *)
(* service), the debts that sales open and returns credit, and the loyalty *)
(* balance that sales fill and spend (sales service).  Every handler runs  *)
(* in a serializable transaction, so each is one action; requests arrive   *)
(* in any order and a repayment may be sent again with its key.            *)
(*                                                                         *)
(* Money is counted in the smallest unit.  An adjustment is a return       *)
(* (newTotal = 0) or an exchange, a return and a new sale in one group.    *)
(* The quantities behind the totals are the subject of SalesPos.           *)
(***************************************************************************)
EXTENDS Totals

CONSTANTS
    Client, Sale, Adjustment, Key,
    Nobody,          \* debtor of a debt that does not exist
    NoSale,          \* sale of a debt opened by hand
    MaxDebts,        \* bound: debts ever opened
    MaxTotal,        \* bound: total of a sale or an exchange
    Percents,        \* cashback percents the company may switch between
    InitialBalance,  \* loyalty balance clients start with
    KeyAmount        \* what the repayment request with a key asks to pay

ASSUME AccountsAssumption ==
    /\ Nobody \notin Client /\ NoSale \notin Sale
    /\ IsFiniteSet(Client) /\ IsFiniteSet(Sale) /\ IsFiniteSet(Adjustment)
    /\ MaxDebts \in Nat /\ MaxTotal \in Nat /\ InitialBalance \in Nat
    /\ Percents \subseteq Nat
    /\ KeyAmount \in [Key -> Nat \ {0}]

VARIABLES
    sale,        \* the paid sales and what they moved on the loyalty balance
    adjustment,  \* returns and exchanges
    debts,       \* how many debts were opened; their numbers are their age
    debtor, debtSale, amount, remaining, repaid, debtStatus,  \* ClientDebt
    repaidKeys,  \* idempotency keys of the debt's ClientDebtRepayment rows
    repaidPlain, \* sum of its repayments without a key
    debtUzs,     \* Client.debtUzs
    balance,     \* Client.balanceUzs
    issued       \* what the debts of a sale were opened for

debtVars == <<debts, debtor, debtSale, amount, remaining, repaid, debtStatus,
              repaidKeys, repaidPlain, debtUzs, issued>>
vars == <<sale, adjustment, balance, debtVars>>

Debt == 1 .. MaxDebts
Amounts == 1 .. MaxTotal

Init ==
    /\ sale = [s \in Sale |-> [state |-> "none", client |-> Nobody, total |-> 0,
                               earned |-> 0, spent |-> 0]]
    /\ adjustment = [x \in Adjustment |->
          [state |-> "none", sale |-> NoSale, total |-> 0, newTotal |-> 0,
           taken |-> 0, earned |-> 0, refunded |-> 0, credit |-> 0]]
    /\ debts = 0
    /\ debtor = [d \in Debt |-> Nobody]
    /\ debtSale = [d \in Debt |-> NoSale]
    /\ amount = [d \in Debt |-> 0]
    /\ remaining = [d \in Debt |-> 0]
    /\ repaid = [d \in Debt |-> 0]
    /\ debtStatus = [d \in Debt |-> "paid"]
    /\ repaidKeys = [d \in Debt |-> {}]
    /\ repaidPlain = [d \in Debt |-> 0]
    /\ debtUzs = [c \in Client |-> 0]
    /\ balance = [c \in Client |-> InitialBalance]
    /\ issued = [s \in Sale |-> 0]

-----------------------------------------------------------------------------
AtMost(a, b) == IF a < b THEN a ELSE b
AtLeast(a, b) == IF a > b THEN a ELSE b

\* Math.round(a * part / whole) in the smallest unit.
Share(a, part, whole) == (2 * a * part + whole) \div (2 * whole)

Live(s) == {x \in Adjustment : adjustment[x].state = "live" /\ adjustment[x].sale = s}
SumLive(s, column) == SumOver([x \in Adjustment |-> adjustment[x][column]], Live(s))

DebtsOf(s) == {d \in Debt : debtor[d] # Nobody /\ debtSale[d] = s}

StatusOf(rest, paidBack) ==
    IF rest = 0 THEN "paid" ELSE IF paidBack > 0 THEN "partial" ELSE "unpaid"

\* Mutant: the partly repaid debts are left out of the sum.
RefreshDebtTotalUnpaid(c) ==
    debtUzs' = [debtUzs EXCEPT ![c] =
       SumOver(remaining', {d \in Debt : debtor'[d] = c /\ debtStatus'[d] = "unpaid"})]

\* clientDebt.aggregate of remainingAmountUzs, written to Client.debtUzs.
RefreshDebtTotal(c) ==
    debtUzs' = [debtUzs EXCEPT ![c] =
                  SumOver(remaining', {d \in Debt : debtor'[d] = c})]

\* takeBackLoyaltyBalance: all of it, or what is left.
TakeBack(b, a) == b - AtMost(b, a)

\* undoSaleCashback: a positive net is taken back, a negative one is given.
Undo(b, net) == IF net > 0 THEN TakeBack(b, net) ELSE b - net

-----------------------------------------------------------------------------
\* A new debt of c, of sale s or of none.
OpenDebt(d, c, s, a) ==
    /\ d = debts + 1
    /\ debts' = d
    /\ debtor' = [debtor EXCEPT ![d] = c]
    /\ debtSale' = [debtSale EXCEPT ![d] = s]
    /\ amount' = [amount EXCEPT ![d] = a]
    /\ remaining' = [remaining EXCEPT ![d] = a]
    /\ repaid' = [repaid EXCEPT ![d] = 0]
    /\ debtStatus' = [debtStatus EXCEPT ![d] = "unpaid"]
    /\ RefreshDebtTotal(c)
    /\ issued' = IF s = NoSale THEN issued ELSE [issued EXCEPT ![s] = @ + a]
    /\ UNCHANGED <<repaidKeys, repaidPlain>>

\* ClientsService.createDebt; a sale, if named, is one of the client's.
CreateDebt(d, c, s, a) ==
    /\ s # NoSale => sale[s].client = c
    /\ OpenDebt(d, c, s, a)
    /\ UNCHANGED <<sale, adjustment, balance>>

\* The transaction of pay, as far as the client's accounts go: the part paid
\* with the balance, the part left as a debt, the cashback earned on the rest.
PaySale(s, c, total, spent, percent) ==
    /\ sale[s].state = "none"
    /\ spent <= total
    /\ spent <= balance[c]
    /\ LET earned == Share(total - spent, percent, 100)
       IN  /\ sale' = [sale EXCEPT ![s] = [state |-> "paid", client |-> c, total |-> total,
                                           earned |-> earned, spent |-> spent]]
           /\ balance' = [balance EXCEPT ![c] = @ - spent + earned]
    /\ \/ UNCHANGED debtVars
       \/ \E d \in Debt, a \in 1 .. total - spent : OpenDebt(d, c, s, a)
    /\ UNCHANGED adjustment

-----------------------------------------------------------------------------
\* Mutant: more than the rest can be repaid.
RepayableAny(d, a) == debtor[d] # Nobody

\* ClientsService.repayDebt, once the key has not been seen for this debt.
Repayable(d, a) == debtor[d] # Nobody /\ a <= remaining[d]

PayOff(d, a) ==
    /\ Repayable(d, a)
    /\ remaining' = [remaining EXCEPT ![d] = @ - a]
    /\ repaid' = [repaid EXCEPT ![d] = @ + a]
    /\ debtStatus' = [debtStatus EXCEPT ![d] = IF remaining[d] - a <= 0 THEN "paid"
                                                                       ELSE "partial"]
    /\ UNCHANGED <<sale, adjustment, balance, debts, debtor, debtSale, amount, issued>>
    /\ RefreshDebtTotal(debtor[d])

Replayed(d, k) == k \in repaidKeys[d]

Repay(d, k) ==
    /\ ~Replayed(d, k)
    /\ PayOff(d, KeyAmount[k])
    /\ repaidKeys' = [repaidKeys EXCEPT ![d] = @ \cup {k}]
    /\ repaidPlain' = repaidPlain

RepayWithoutKey(d, a) ==
    /\ PayOff(d, a)
    /\ repaidPlain' = [repaidPlain EXCEPT ![d] = @ + a]
    /\ repaidKeys' = repaidKeys

-----------------------------------------------------------------------------
\* applyReturnCreditToDebt: the oldest open debts of the sale first.
Applied(s, credit) ==
    [d \in Debt |->
        IF d \notin DebtsOf(s) THEN 0
        ELSE LET older == SumOver(remaining, {e \in DebtsOf(s) : e < d})
             IN  AtMost(remaining[d], AtLeast(0, credit - older))]

CreditedAmount(d, credited) ==
    IF credited = 0 THEN amount[d] ELSE AtLeast(repaid[d], amount[d] - credited)

CreditDebts(s, credit) ==
    LET applied == Applied(s, credit)
    IN  /\ remaining' = [d \in Debt |-> remaining[d] - applied[d]]
        /\ amount' = [d \in Debt |-> CreditedAmount(d, applied[d])]
        /\ debtStatus' = [d \in Debt |-> IF applied[d] = 0 THEN debtStatus[d]
                                         ELSE StatusOf(remaining'[d], repaid[d])]
        /\ UNCHANGED <<debts, debtor, debtSale, repaid, repaidKeys, repaidPlain, issued>>
        /\ RefreshDebtTotal(sale[s].client)

\* Mutant: what other returns have taken back is not counted.
CashbackTakenEachTime(s, total) ==
    AtMost(balance[sale[s].client], Share(sale[s].earned, total, sale[s].total))

\* reverseReturnCashback: the returned share of what the sale has earned, at
\* most what other returns have left of it and what the client still has.
CashbackTaken(s, total) ==
    LET left == sale[s].earned - SumLive(s, "taken")
        share == Share(sale[s].earned, total, sale[s].total)
    IN  AtMost(balance[sale[s].client], AtLeast(0, AtMost(left, share)))

\* refundCashbackPayment: the returned share of what was paid with bonuses.
BonusRefund(s, total) ==
    LET left == sale[s].spent - SumLive(s, "refunded")
    IN  AtLeast(0, AtMost(left, AtMost(total, Share(sale[s].spent, total, sale[s].total))))

\* processReturn (newTotal = 0, all the quantities of SalesPos permit) and
\* processExchange, which refunds no bonuses and credits only the difference.
Adjust(x, s, total, newTotal, percent) ==
    LET taken == CashbackTaken(s, total)
        refunded == IF newTotal = 0 THEN BonusRefund(s, total) ELSE 0
        earned == Share(newTotal, percent, 100)
        credit == AtLeast(0, total - refunded - newTotal)
    IN  /\ sale[s].state = "paid"
        /\ adjustment[x].state = "none"
        /\ total <= sale[s].total - SumLive(s, "total")
        /\ CreditDebts(s, credit)
        /\ adjustment' = [adjustment EXCEPT ![x] =
             [state |-> "live", sale |-> s, total |-> total, newTotal |-> newTotal,
              taken |-> taken, earned |-> earned, refunded |-> refunded,
              credit |-> SumOver(Applied(s, credit), Debt)]]
        /\ balance' = [balance EXCEPT ![sale[s].client] = @ - taken + refunded + earned]
        /\ UNCHANGED sale

\* Mutant: only debts that are still open get a credit back.
RevertedDebtsOpen(s) == {d \in DebtsOf(s) : debtStatus[d] # "paid"}

RevertedDebts(s) == DebtsOf(s)

Oldest(D) == CHOOSE d \in D : \A e \in D : d <= e

\* revertDebtCredit: the whole credit goes back to the oldest debt.
GiveCreditBack(s, credit) ==
    IF credit = 0 \/ RevertedDebts(s) = {}
      THEN UNCHANGED debtVars
      ELSE LET d == Oldest(RevertedDebts(s))
           IN  /\ amount' = [amount EXCEPT ![d] = @ + credit]
               /\ remaining' = [remaining EXCEPT ![d] = @ + credit]
               /\ debtStatus' = [debtStatus EXCEPT ![d] =
                                   IF repaid[d] > 0 THEN "partial" ELSE "unpaid"]
               /\ UNCHANGED <<debts, debtor, debtSale, repaid, repaidKeys,
                              repaidPlain, issued>>
               /\ RefreshDebtTotal(sale[s].client)

\* removeOrder of a return or of both documents of an exchange.
CancelAdjustment(x) ==
    LET s == adjustment[x].sale
        c == sale[s].client
        returned == Undo(balance[c], adjustment[x].refunded - adjustment[x].taken)
    IN  /\ adjustment[x].state = "live"
        /\ adjustment' = [adjustment EXCEPT ![x].state = "cancelled"]
        /\ balance' = [balance EXCEPT ![c] = Undo(returned, adjustment[x].earned)]
        /\ GiveCreditBack(s, adjustment[x].credit)
        /\ UNCHANGED sale

\* annulSaleDebts: a debt that was repaid in part blocks the cancel.
Annullable(s) == \A d \in DebtsOf(s) : repaid[d] = 0

Forgotten(s, column, blank) ==
    [d \in Debt |-> IF d \in DebtsOf(s) THEN blank ELSE column[d]]

\* removeOrder of a paid sale.
CancelSale(s) ==
    LET c == sale[s].client
    IN  /\ sale[s].state = "paid"
        /\ Live(s) = {}
        /\ Annullable(s)
        /\ sale' = [sale EXCEPT ![s].state = "cancelled"]
        /\ debtor' = Forgotten(s, debtor, Nobody)
        /\ amount' = Forgotten(s, amount, 0)
        /\ remaining' = Forgotten(s, remaining, 0)
        /\ repaid' = Forgotten(s, repaid, 0)
        /\ debtStatus' = Forgotten(s, debtStatus, "paid")
        /\ RefreshDebtTotal(c)
        /\ issued' = [issued EXCEPT ![s] = 0]
        /\ balance' = [balance EXCEPT ![c] = Undo(@, sale[s].earned - sale[s].spent)]
        /\ UNCHANGED <<adjustment, debts, debtSale, repaidKeys, repaidPlain>>

-----------------------------------------------------------------------------
(* What the pages of debts show of a set of them.                          *)

\* buildDebtWhere: the debts of a client, or of all, in one status.
DebtsShown(clients, states) ==
    {d \in Debt : debtor[d] \in clients /\ debtStatus[d] \in states}

\* buildDebtListResponse: the sums under the list.
DebtSummary(D) ==
    LET in(state) == {d \in D : debtStatus[d] = state}
    IN  [active |-> SumOver(remaining, D \ in("paid")),
         repaid |-> SumOver(repaid, D), total |-> SumOver(amount, D),
         all |-> Cardinality(D), unpaid |-> Cardinality(in("unpaid")),
         partial |-> Cardinality(in("partial")), paid |-> Cardinality(in("paid"))]

\* getHistory: the amounts of the client's debts, less their repayments.
HistoryBalance(c) ==
    LET own == {d \in Debt : debtor[d] = c}
    IN  SumOver(amount, own)
          - SumOver([d \in Debt |-> repaidPlain[d] + SumOver(KeyAmount, repaidKeys[d])], own)

-----------------------------------------------------------------------------
Next ==
    \/ \E c \in Client, s \in Sale, total \in Amounts, percent \in Percents :
          \E spent \in 0 .. total : PaySale(s, c, total, spent, percent)
    \/ \E d \in Debt, c \in Client, s \in Sale \cup {NoSale}, a \in Amounts :
          CreateDebt(d, c, s, a)
    \/ \E d \in Debt :
          \/ \E k \in Key : Repay(d, k)
          \/ \E a \in Amounts : RepayWithoutKey(d, a)
    \/ \E x \in Adjustment :
          \/ \E s \in Sale, total \in Amounts, newTotal \in 0 .. MaxTotal,
                percent \in Percents : Adjust(x, s, total, newTotal, percent)
          \/ CancelAdjustment(x)
    \/ \E s \in Sale : CancelSale(s)

Spec == Init /\ [][Next]_vars

-----------------------------------------------------------------------------
TypeOK ==
    /\ sale \in [Sale -> [state : {"none", "paid", "cancelled"},
                          client : Client \cup {Nobody}, total : Nat,
                          earned : Nat, spent : Nat]]
    /\ adjustment \in [Adjustment ->
          [state : {"none", "live", "cancelled"}, sale : Sale \cup {NoSale},
           total : Nat, newTotal : Nat, taken : Nat, earned : Nat,
           refunded : Nat, credit : Nat]]
    /\ debts \in 0 .. MaxDebts
    /\ debtor \in [Debt -> Client \cup {Nobody}]
    /\ debtSale \in [Debt -> Sale \cup {NoSale}]
    /\ amount \in [Debt -> Nat]
    /\ remaining \in [Debt -> Nat]
    /\ repaid \in [Debt -> Nat]
    /\ debtStatus \in [Debt -> {"unpaid", "partial", "paid"}]
    /\ repaidKeys \in [Debt -> SUBSET Key]
    /\ repaidPlain \in [Debt -> Nat]
    /\ debtUzs \in [Client -> Nat]
    /\ balance \in [Client -> Nat]
    /\ issued \in [Sale -> Nat]

DebtsAddUp ==
    /\ \A d \in Debt :
        /\ amount[d] = remaining[d] + repaid[d]
        /\ debtStatus[d] = StatusOf(remaining[d], repaid[d])
    /\ \A c \in Client :
        debtUzs[c] = SumOver(remaining, {d \in Debt : debtor[d] = c})
    /\ \A d \in Debt :
        repaid[d] = repaidPlain[d] + SumOver(KeyAmount, repaidKeys[d])

DebtPagesAgree ==
    LET states == {"unpaid", "partial", "paid"}
        everybody == DebtSummary(DebtsShown(Client, states))
    IN  /\ \A c \in Client :
              LET shown == DebtSummary(DebtsShown({c}, states))
              IN  /\ shown.active = debtUzs[c] /\ HistoryBalance(c) = debtUzs[c]
                  /\ shown.total = shown.active + shown.repaid
        /\ everybody.active = SumOver(debtUzs, Client)
        /\ everybody.all = everybody.unpaid + everybody.partial + everybody.paid
        /\ everybody.active = DebtSummary(DebtsShown(Client, states \ {"paid"})).total
                                 - DebtSummary(DebtsShown(Client, {"partial"})).repaid

\* A debt is what is left of it and what was repaid, its status says so, and
\* Client.debtUzs is the sum of the client's open debts, whichever of the five
\* handlers of two services wrote last; a repayment sent again with its key is
\* counted once.  The pages of debts tell the same: what they show as owed by a
\* client is what the client's record and history say, and the debts of each
\* status make up the debts of all.
DebtTotalsAgree == DebtsAddUp /\ DebtPagesAgree

\* "Cancelling a return gives back to the original sale's debt what the return
\* had credited to it": over any number of returns and cancels the debts of a
\* sale and the credits of its live returns add up to what was issued.
CreditsRoundTrip ==
    \A s \in Sale :
        SumOver(amount, DebtsOf(s)) + SumLive(s, "credit") = issued[s]

\* Loyalty: returns never take back more than the sale earned, nor refund more
\* than it spent; and the balance always covers what the live documents of the
\* client have moved on it, whatever was spent in between.
Given(s) == IF sale[s].state # "paid" THEN 0
            ELSE sale[s].earned + SumLive(s, "refunded") + SumLive(s, "earned")
Used(s)  == IF sale[s].state # "paid" THEN 0
            ELSE sale[s].spent + SumLive(s, "taken")

LoyaltyBacked ==
    /\ \A s \in Sale : /\ SumLive(s, "taken") <= sale[s].earned
                       /\ SumLive(s, "refunded") <= sale[s].spent
    /\ \A c \in Client :
          LET own == {s \in Sale : sale[s].client = c}
          IN  balance[c] + SumOver([s \in Sale |-> Used(s)], own)
                >= InitialBalance + SumOver([s \in Sale |-> Given(s)], own)

=============================================================================
