------------------------------- MODULE Orders -------------------------------
(***************************************************************************)
(* The second till (OrdersService): one order, its lines and payments, the *)
(* requests that edit it, park, resume, cancel and complete it.            *)
(*                                                                         *)
(* complete is one serializable transaction that claims the order by its   *)
(* status and version, so it is one step.  Every other handler checks the  *)
(* order in a statement of its own and then runs a READ COMMITTED          *)
(* transaction that does not look at the status again: it is a process.    *)
(* What it writes before its commit is in `clerk` and visible to itself    *)
(* only; a line it has written is locked, the order row is written last.   *)
(*                                                                         *)
(* Prices are 1, so a line's total is its quantity; 0 is no line and no    *)
(* payment.  A line deleted and created again is the same line.  `taken`,  *)
(* `debt`, `completions`, `overwrites`, `stale` and `editedAfter` are      *)
(* history: the units written off, the client debt made, the completions,  *)
(* the status writes that landed on a status they had not read, whether    *)
(* the stored total was computed from rows that have changed since, and    *)
(* whether a completed order was edited.                                   *)
(***************************************************************************)
EXTENDS Totals

CONSTANTS
    OrderProduct, OrderPayment, Clerk,
    OrderStock,      \* units of each product in the shop at the start
    MaxLine,         \* bound: quantity of a line
    MaxPaid,         \* bound: amount of a payment
    MaxOverwritten   \* bound: status writes over a status that was not read

ASSUME OrderAssumption ==
    /\ IsFiniteSet(OrderProduct) /\ OrderProduct # {}
    /\ IsFiniteSet(OrderPayment) /\ OrderPayment # {}
    /\ OrderStock \in Nat /\ MaxLine \in Nat /\ MaxPaid \in Nat
    /\ MaxOverwritten \in Nat

VARIABLES order, orderLine, orderPaid, orderStock, clerk,
          taken, debt, completions, overwrites, stale, editedAfter

rows == <<order, orderLine, orderPaid, orderStock>>
orderHistory == <<taken, debt, completions, overwrites, stale, editedAfter>>
orderVars == <<rows, clerk, orderHistory>>

OrderStatus == {"DRAFT", "PARKED", "COMPLETED", "CANCELLED"}
LineOps == {"addItem", "setItem"}
PaymentOps == {"addPayment", "removePayment"}
StatusOps == {"park", "resume", "cancel"}
OrderOps == LineOps \cup PaymentOps \cup StatusOps \cup {"discount", "customer"}
ClerkSteps == {"idle", "checked", "found", "wrote", "summed"}

Clerks == [step : ClerkSteps, op : OrderOps,
           product : OrderProduct, payment : OrderPayment,
           value : Nat,           \* the quantity, amount or discount to write
           existed : BOOLEAN,     \* the line was there when it was looked up
           sum : Nat,             \* the total or paid amount to store
           seen : OrderStatus,    \* the status as it was read
           overtaken : BOOLEAN]   \* someone committed after the rows were summed

AtRest == [step |-> "idle", op |-> "customer",
           product |-> CHOOSE p \in OrderProduct : TRUE,
           payment |-> CHOOSE y \in OrderPayment : TRUE,
           value |-> 0, existed |-> FALSE, sum |-> 0, seen |-> "DRAFT",
           overtaken |-> FALSE]

\* createDraft: a number, a shop, an empty order.
OrderInit ==
    /\ order = [status |-> "DRAFT", total |-> 0, discount |-> 0, paid |-> 0,
                customer |-> FALSE]
    /\ orderLine = [p \in OrderProduct |-> 0]
    /\ orderPaid = [y \in OrderPayment |-> 0]
    /\ orderStock = [p \in OrderProduct |-> OrderStock]
    /\ clerk = [r \in Clerk |-> AtRest]
    /\ taken = [p \in OrderProduct |-> 0]
    /\ debt = 0 /\ completions = 0 /\ overwrites = 0
    /\ stale = FALSE /\ editedAfter = FALSE

-----------------------------------------------------------------------------
StepOf(r, step, ops) == clerk[r].step = step /\ clerk[r].op \in ops

Become(r, new) ==
    /\ clerk' = [clerk EXCEPT ![r] = new]
    /\ UNCHANGED <<rows, orderHistory>>

\* The transaction throws, or another has taken its row: all rolled back.
GiveUp(r) == Become(r, AtRest)

\* r has committed: whoever has summed the rows holds a stale sum.
Commit(r) ==
    clerk' = [q \in Clerk |->
        IF q = r THEN AtRest
        ELSE [clerk[q] EXCEPT !.overtaken =
                @ \/ clerk[q].step = "summed"
                  \/ (clerk[q].step = "checked" /\ clerk[q].op = "discount")]]

Late == editedAfter' = (editedAfter \/ order.status = "COMPLETED")

(* addItem, updateItemQuantity (removeItem is a quantity of 0), addPayment,
   removePayment, applyDiscount, attachCustomer: findEditableOrderOrThrow. *)
CheckEditable(r, new) ==
    /\ clerk[r].step = "idle"
    /\ order.status = "DRAFT"
    /\ Become(r, [new EXCEPT !.step = "checked"])

AskLine(r, op, p, n) ==
    /\ op \in LineOps
    /\ op = "addItem" => n > 0
    /\ CheckEditable(r, [AtRest EXCEPT !.op = op, !.product = p, !.value = n])

AskPayment(r, op, y, n) ==
    /\ op \in PaymentOps
    /\ op = "addPayment" <=> n > 0
    /\ CheckEditable(r, [AtRest EXCEPT !.op = op, !.payment = y, !.value = n])

\* applyDiscount sums the lines it has read with the order, in the check.
AskDiscount(r, d) ==
    LET total == SumOver(orderLine, OrderProduct)
    IN  /\ d <= total
        /\ CheckEditable(r, [AtRest EXCEPT !.op = "discount", !.value = d,
                                           !.sum = total - d])

AskCustomer(r) == CheckEditable(r, [AtRest EXCEPT !.op = "customer"])

-----------------------------------------------------------------------------
\* The line as the transaction finds it: addItem adds to it.
FindLine(r) ==
    LET p == clerk[r].product
        new == IF clerk[r].op = "addItem" THEN orderLine[p] + clerk[r].value
                                          ELSE clerk[r].value
    IN  /\ StepOf(r, "checked", LineOps)
        /\ new <= MaxLine
        /\ IF clerk[r].op = "setItem" /\ orderLine[p] = 0
           THEN GiveUp(r)
           ELSE Become(r, [clerk[r] EXCEPT !.step = "found", !.value = new,
                                           !.existed = orderLine[p] > 0])

LineFree(p, r) ==
    \A q \in Clerk \ {r} : clerk[q].product = p
                             => ~StepOf(q, "wrote", LineOps) /\ ~StepOf(q, "summed", LineOps)

\* Updated or deleted by id, or created under the unique key (order, product).
WriteOrderLine(r) ==
    LET p == clerk[r].product
    IN  /\ StepOf(r, "found", LineOps)
        /\ LineFree(p, r)
        /\ IF clerk[r].existed = (orderLine[p] > 0)
           THEN Become(r, [clerk[r] EXCEPT !.step = "wrote"])
           ELSE GiveUp(r)

\* recalculateOrderTotals, its read: the lines with the transaction's own.
SumLines(r) ==
    LET mine == [orderLine EXCEPT ![clerk[r].product] = clerk[r].value]
        total == SumOver(mine, OrderProduct)
    IN  /\ StepOf(r, "wrote", LineOps)
        /\ IF order.discount > total
           THEN GiveUp(r)
           ELSE Become(r, [clerk[r] EXCEPT !.step = "summed",
                                           !.sum = total - order.discount])

\* recalculateOrderTotals, its write, and the commit.
CommitLine(r) ==
    /\ StepOf(r, "summed", LineOps)
    /\ orderLine' = [orderLine EXCEPT ![clerk[r].product] = clerk[r].value]
    /\ order' = [order EXCEPT !.total = clerk[r].sum]
    /\ stale' = clerk[r].overtaken
    /\ Late /\ Commit(r)
    /\ UNCHANGED <<orderPaid, orderStock, taken, debt, completions, overwrites>>

\* The payment row is created or deleted (its id is fresh, or it is found).
WritePayment(r) ==
    LET y == clerk[r].payment
    IN  /\ StepOf(r, "checked", PaymentOps)
        /\ \A q \in Clerk \ {r} : clerk[q].payment = y
               => ~StepOf(q, "wrote", PaymentOps) /\ ~StepOf(q, "summed", PaymentOps)
        /\ IF (clerk[r].op = "addPayment") = (orderPaid[y] = 0)
           THEN Become(r, [clerk[r] EXCEPT !.step = "wrote"])
           ELSE GiveUp(r)

\* recalculateOrderPaidAmount.
SumPaid(r) ==
    LET mine == [orderPaid EXCEPT ![clerk[r].payment] = clerk[r].value]
    IN  /\ StepOf(r, "wrote", PaymentOps)
        /\ Become(r, [clerk[r] EXCEPT !.step = "summed",
                                      !.sum = SumOver(mine, OrderPayment)])

CommitPayment(r) ==
    /\ StepOf(r, "summed", PaymentOps)
    /\ orderPaid' = [orderPaid EXCEPT ![clerk[r].payment] = clerk[r].value]
    /\ order' = [order EXCEPT !.paid = clerk[r].sum]
    /\ Late
    /\ clerk' = [clerk EXCEPT ![r] = AtRest]
    /\ UNCHANGED <<orderLine, orderStock, taken, debt, completions, overwrites, stale>>

CommitDiscount(r) ==
    /\ StepOf(r, "checked", {"discount"})
    /\ order' = [order EXCEPT !.discount = clerk[r].value, !.total = clerk[r].sum]
    /\ stale' = clerk[r].overtaken
    /\ Late /\ Commit(r)
    /\ UNCHANGED <<orderLine, orderPaid, orderStock, taken, debt, completions, overwrites>>

CommitCustomer(r) ==
    /\ StepOf(r, "checked", {"customer"})
    /\ order' = [order EXCEPT !.customer = TRUE]
    /\ Late
    /\ clerk' = [clerk EXCEPT ![r] = AtRest]
    /\ UNCHANGED <<orderLine, orderPaid, orderStock, taken, debt, completions,
                   overwrites, stale>>

-----------------------------------------------------------------------------
(* park, resume, cancel: read and checked in the transaction, written by id. *)
ReadableBy(op) == CASE op = "park" -> {"DRAFT"}
                    [] op = "resume" -> {"PARKED"}
                    [] op = "cancel" -> {"DRAFT", "PARKED"}

StatusAfter(op) == CASE op = "park" -> "PARKED"
                     [] op = "resume" -> "DRAFT"
                     [] op = "cancel" -> "CANCELLED"

ReadStatus(r, op) ==
    /\ op \in StatusOps
    /\ clerk[r].step = "idle"
    /\ order.status \in ReadableBy(op)
    /\ Become(r, [AtRest EXCEPT !.step = "checked", !.op = op, !.seen = order.status])

WriteStatus(r) ==
    /\ StepOf(r, "checked", StatusOps)
    /\ order.status # clerk[r].seen => overwrites < MaxOverwritten
    /\ order' = [order EXCEPT !.status = StatusAfter(clerk[r].op)]
    /\ overwrites' = IF order.status # clerk[r].seen THEN overwrites + 1
                                                      ELSE overwrites
    /\ clerk' = [clerk EXCEPT ![r] = AtRest]
    /\ UNCHANGED <<orderLine, orderPaid, orderStock, taken, debt, completions,
                   stale, editedAfter>>

\* Mutant: the goods are not looked up in the shop.
InShopUnchecked == TRUE

InShop == \A p \in OrderProduct : orderLine[p] <= orderStock[p]

(* complete: the claim, the payments against the total, the goods written
   off, the client debt for the rest. *)
CompleteFrom(statuses, paid, allowDebt) ==
    LET owed == IF order.total > paid THEN order.total - paid ELSE 0
    IN  /\ order.status \in statuses
        /\ \E p \in OrderProduct : orderLine[p] > 0
        /\ owed > 0 => order.customer /\ allowDebt
        /\ InShop
        /\ orderStock' = [p \in OrderProduct |-> orderStock[p] - orderLine[p]]
        /\ order' = [order EXCEPT !.status = "COMPLETED", !.paid = paid]
        /\ taken' = [p \in OrderProduct |-> taken[p] + orderLine[p]]
        /\ debt' = debt + owed
        /\ completions' = completions + 1
        /\ UNCHANGED <<orderLine, orderPaid, clerk, overwrites, stale, editedAfter>>

\* Mutant: the claim does not look at the status.
CompleteUnclaimed(allowDebt) ==
    CompleteFrom(OrderStatus, SumOver(orderPaid, OrderPayment), allowDebt)

\* Mutant: the discount is taken off a total that is already less it.
CompleteDiscountedTwice(allowDebt) ==
    CompleteFrom({"DRAFT"}, SumOver(orderPaid, OrderPayment) + order.discount, allowDebt)

Complete(allowDebt) ==
    CompleteFrom({"DRAFT"}, SumOver(orderPaid, OrderPayment), allowDebt)

OrderNext ==
    \/ \E r \in Clerk :
        \/ \E op \in LineOps, p \in OrderProduct, n \in 0 .. MaxLine : AskLine(r, op, p, n)
        \/ \E op \in PaymentOps, y \in OrderPayment, n \in 0 .. MaxPaid : AskPayment(r, op, y, n)
        \/ \E d \in 0 .. MaxLine : AskDiscount(r, d)
        \/ AskCustomer(r)
        \/ FindLine(r) \/ WriteOrderLine(r) \/ SumLines(r) \/ CommitLine(r)
        \/ WritePayment(r) \/ SumPaid(r) \/ CommitPayment(r)
        \/ CommitDiscount(r) \/ CommitCustomer(r)
        \/ \E op \in StatusOps : ReadStatus(r, op)
        \/ WriteStatus(r)
    \/ \E allowDebt \in BOOLEAN : Complete(allowDebt)

OrderSpec == OrderInit /\ [][OrderNext]_orderVars

-----------------------------------------------------------------------------
OrderTypeOK ==
    /\ order \in [status : OrderStatus, total : Nat, discount : Nat, paid : Nat,
                  customer : BOOLEAN]
    /\ orderLine \in [OrderProduct -> 0 .. MaxLine]
    /\ orderPaid \in [OrderPayment -> 0 .. MaxPaid]
    /\ orderStock \in [OrderProduct -> 0 .. OrderStock]
    /\ clerk \in [Clerk -> Clerks]
    /\ taken \in [OrderProduct -> Nat]
    /\ debt \in Nat /\ completions \in Nat /\ overwrites \in Nat
    /\ stale \in BOOLEAN /\ editedAfter \in BOOLEAN

(* An order is completed, and its goods written off, once; the only way to a
   second time is a park, resume or cancel that wrote over a status it had not
   read (modules/orders/orders.service.ts:649). *)
CompletedOnce == completions <= 1 + overwrites

(* The total of the order is that of its lines less the discount, except when
   the request that stored it had summed rows that changed before it
   committed; the next recalculation puts it right.  What a completed order
   wrote off is what its lines say, and its payments and the client's debt
   cover its total, unless it was edited on a check made before it was
   completed. *)
OrderAddsUp ==
    /\ ~stale => order.total + order.discount = SumOver(orderLine, OrderProduct)
    /\ order.status = "COMPLETED" /\ completions = 1 /\ ~editedAfter
        => /\ taken = orderLine
           /\ SumOver(orderPaid, OrderPayment) + debt >= order.total

=============================================================================
