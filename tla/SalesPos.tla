------------------------------ MODULE SalesPos ------------------------------
(***************************************************************************)
(* The till: a sale is opened, filled, parked, resumed, paid, returned and *)
(* cancelled (src/sales/sales.service.ts).  Payments, returns and cancels  *)
(* end in a serializable transaction that claims the sale by its state;    *)
(* every other handler checks a row it has read and then writes in         *)
(* autocommit statements, without checking again.  A request is a process  *)
(* whose steps are those statements.                                       *)
(*                                                                         *)
(* One shop and one cashier.  A sale has a quantity per item (0: no line), *)
(* a flat discount, and money in units of Price.  Kinds says which         *)
(* operations a run lets race.                                             *)
(***************************************************************************)
EXTENDS Totals

CONSTANTS
    Sale, Item, Return, Request,
    NoSale,         \* "no sale": getOrCreateOpenSale instead of a resume
    Price,          \* unit price of each item
    InitialStock,   \* stock of every item in the shop
    MaxQuantity,    \* bound: quantity of a line
    MaxDiscount,    \* bound: flat discount of a sale
    Kinds           \* operations in play

ASSUME SalesAssumption ==
    /\ NoSale \notin Sale /\ Sale # {} /\ Item # {} /\ Return # {}
    /\ IsFiniteSet(Item) /\ IsFiniteSet(Return)
    /\ Price \in [Item -> Nat]
    /\ InitialStock \in Nat /\ MaxQuantity \in Nat /\ MaxDiscount \in Nat
    /\ Kinds \subseteq {"open", "edit", "discount", "park", "resume", "pay",
                        "delete", "cancel", "return", "unreturn"}

VARIABLES
    status,      \* Sale.status; "none" before the row exists, "deleted" after
    isDraft,     \* Sale.isDraft
    lines,       \* SaleItem.quantity
    discount,    \* Sale.discountAmount
    payable,     \* Sale.payableTotal
    stock,       \* ProductVariantStock.quantity in the shop
    return,      \* the return documents: child sales with saleType 'return'
    request,     \* the requests in flight
    settled,     \* money, debt and loyalty the payment took
    taken,       \* units the payment wrote off
    restored,    \* units the cancel put back
    posted, reversed, disturbed

saleVars == <<status, isDraft, lines, discount, payable>>
history == <<settled, taken, restored, posted, reversed>>
vars == <<saleVars, stock, return, request, history, disturbed>>

Quantities == 0 .. MaxQuantity
Lines == [Item -> Quantities]
NoLines == [i \in Item |-> 0]

Status == {"none", "open", "draft", "parked", "paid", "partially_returned",
           "returned", "cancelled", "deleted"}

Steps == {"idle", "line", "discount", "recalc", "store", "pay", "park", "resume",
          "sweep", "purge", "demote", "find", "drop", "create", "delete",
          "cancel", "return", "unreturn", "orphan", "strike"}

Idle == [step |-> "idle", sale |-> NoSale, paying |-> FALSE,
         item |-> CHOOSE i \in Item : TRUE, quantity |-> 0, existed |-> FALSE,
         seen |-> NoLines, due |-> 0, keep |-> NoSale,
         target |-> CHOOSE x \in Return : TRUE, doomed |-> {}, demoted |-> {}]

NoReturn == [state |-> "none", sale |-> NoSale,
             item |-> CHOOSE i \in Item : TRUE, quantity |-> 0]

Init ==
    /\ status = [s \in Sale |-> "none"]
    /\ isDraft = [s \in Sale |-> FALSE]
    /\ lines = [s \in Sale |-> NoLines]
    /\ discount = [s \in Sale |-> 0]
    /\ payable = [s \in Sale |-> 0]
    /\ stock = [i \in Item |-> InitialStock]
    /\ return = [x \in Return |-> NoReturn]
    /\ request = [r \in Request |-> Idle]
    /\ settled = [s \in Sale |-> 0]
    /\ taken = [s \in Sale |-> NoLines]
    /\ restored = [s \in Sale |-> NoLines]
    /\ posted = [s \in Sale |-> 0]
    /\ reversed = [s \in Sale |-> 0]
    /\ disturbed = [s \in Sale |-> FALSE]

-----------------------------------------------------------------------------
Exists(s) == status[s] \notin {"none", "deleted"}

\* recalculateSale: the total of the lines less the discount, never negative.
Payable(l, d) ==
    LET total == SumOver([i \in Item |-> l[i] * Price[i]], Item)
    IN  IF total > d THEN total - d ELSE 0

Start(r, kind, new) ==
    /\ kind \in Kinds
    /\ request[r].step = "idle"
    /\ request' = [request EXCEPT ![r] = new]
    /\ UNCHANGED <<saleVars, stock, return, history, disturbed>>

Done(r) == request' = [request EXCEPT ![r] = Idle]

At(r, step) == request[r].step = step

\* A payment of s has already read the lines it is going to charge for.
PaymentInFlight(s) ==
    \E r \in Request : /\ request[r].sale = s /\ request[r].paying
                       /\ request[r].step \in {"store", "pay"}

\* Bookkeeping: an unchecked write changed a sale being paid or paid already.
Disturb(s, changes) ==
    disturbed' = [disturbed EXCEPT ![s] =
                    @ \/ (changes /\ (~isDraft[s] \/ PaymentInFlight(s)))]

-----------------------------------------------------------------------------
(* addItem, updateItem, removeItem, updateDiscount.                        *)

\* The check that the sale is a draft, and the line as it was read: addItem
\* adds to it, updateItem replaces it, removeItem deletes it.
BeginEdit(r, s, i, q) ==
    /\ isDraft[s]
    /\ Start(r, "edit", [Idle EXCEPT !.step = "line", !.sale = s, !.item = i,
                                     !.quantity = q, !.existed = lines[s][i] > 0])

\* The line is written by its id, or created.
WriteLine(r) ==
    LET s == request[r].sale
        i == request[r].item
        exists == lines[s][i] > 0
    IN  /\ At(r, "line")
        /\ Exists(s)
        /\ request[r].existed => exists
        /\ request[r].quantity = 0 => exists
        /\ lines' = [lines EXCEPT ![s][i] = request[r].quantity]
        /\ Disturb(s, lines' # lines)
        /\ request' = [request EXCEPT ![r] = [Idle EXCEPT !.step = "recalc", !.sale = s]]
        /\ UNCHANGED <<status, isDraft, discount, payable, stock, return, history>>

BeginDiscount(r, s, d) ==
    /\ isDraft[s]
    /\ Start(r, "discount", [Idle EXCEPT !.step = "discount", !.sale = s, !.due = d])

WriteDiscount(r) ==
    LET s == request[r].sale
    IN  /\ At(r, "discount")
        /\ Exists(s)
        /\ discount' = [discount EXCEPT ![s] = request[r].due]
        /\ Disturb(s, discount' # discount)
        /\ request' = [request EXCEPT ![r] = [Idle EXCEPT !.step = "recalc", !.sale = s]]
        /\ UNCHANGED <<status, isDraft, lines, payable, stock, return, history>>

\* Mutant: the discount is left out of the total that is charged.
TotalOfUndiscounted(s) == Payable(lines[s], 0)

TotalOf(s) == Payable(lines[s], discount[s])

\* recalculateSale reads the sale with its lines ...
ReadTotals(r) ==
    LET s == request[r].sale
    IN  /\ At(r, "recalc")
        /\ Exists(s)
        /\ request' = [request EXCEPT ![r] =
             [@ EXCEPT !.step = "store", !.due = TotalOf(s)]]
        /\ UNCHANGED <<saleVars, stock, return, history, disturbed>>

\* ... and stores the payable total; a payment goes on to its transaction.
StoreTotals(r) ==
    LET s == request[r].sale
    IN  /\ At(r, "store")
        /\ Exists(s)
        /\ payable' = [payable EXCEPT ![s] = request[r].due]
        /\ Disturb(s, payable' # payable /\ ~request[r].paying)
        /\ request' = [request EXCEPT ![r] =
             IF request[r].paying THEN [@ EXCEPT !.step = "pay"] ELSE Idle]
        /\ UNCHANGED <<status, isDraft, lines, discount, stock, return, history>>

-----------------------------------------------------------------------------
(* pay and payOrder.                                                       *)

BeginPay(r, s) ==
    /\ isDraft[s]
    /\ Start(r, "pay", [Idle EXCEPT !.step = "recalc", !.sale = s, !.paying = TRUE])

\* Mutant: the claim finds any sale.
PayClaimedAny(s) == Exists(s)

\* updateMany where {id, isDraft: true}.
PayClaimed(s) == isDraft[s]

\* writeOffSaleItemsFromStock: every decrement finds enough.
InStock(l) == \A i \in Item : stock[i] >= l[i]

\* The payments, the debt and the loyalty part were checked against `due`.
\* The transaction claims the draft and writes the lines it finds off stock.
Pay(r) ==
    LET s == request[r].sale
    IN  /\ At(r, "pay")
        /\ PayClaimed(s)
        /\ InStock(lines[s])
        /\ status' = [status EXCEPT ![s] = "paid"]
        /\ isDraft' = [isDraft EXCEPT ![s] = FALSE]
        /\ stock' = [i \in Item |-> stock[i] - lines[s][i]]
        /\ settled' = [settled EXCEPT ![s] = request[r].due]
        /\ taken' = [taken EXCEPT ![s] = lines[s]]
        /\ posted' = [posted EXCEPT ![s] = @ + 1]
        /\ Done(r)
        /\ UNCHANGED <<lines, discount, payable, return, restored, reversed, disturbed>>

-----------------------------------------------------------------------------
(* getOrCreateOpenSale, parkDraft, resumeParkedSale.                       *)

BeginOpen(r) == Start(r, "open", [Idle EXCEPT !.step = "sweep"])

BeginResume(r, s) ==
    /\ isDraft[s]
    /\ status[s] \in {"draft", "parked", "open"}
    /\ Start(r, "resume", [Idle EXCEPT !.step = "sweep", !.keep = s])

OpenSales == {s \in Sale : isDraft[s] /\ status[s] = "open"}

\* normalizeOpenSalesForContext reads the other open sales: the empty ones
\* are to be deleted, all but one of the rest to become drafts.
Sweep(r) ==
    LET open == OpenSales \ {request[r].keep}
        filled == {s \in open : lines[s] # NoLines}
    IN  /\ At(r, "sweep")
        /\ \E reusable \in SUBSET filled :
              /\ Cardinality(reusable) = IF filled = {} THEN 0 ELSE 1
              /\ request' = [request EXCEPT ![r] =
                   [@ EXCEPT !.step = "purge", !.doomed = open \ filled,
                             !.demoted = filled \ reusable]]
        /\ UNCHANGED <<saleVars, stock, return, history, disturbed>>

Purge(r) ==
    /\ At(r, "purge")
    /\ status' = [s \in Sale |-> IF s \in request[r].doomed THEN "deleted" ELSE status[s]]
    /\ isDraft' = [s \in Sale |-> isDraft[s] /\ s \notin request[r].doomed]
    /\ request' = [request EXCEPT ![r] = [@ EXCEPT !.step = "demote", !.doomed = {}]]
    /\ UNCHANGED <<lines, discount, payable, stock, return, history, disturbed>>

Demote(r) ==
    /\ At(r, "demote")
    /\ status' = [s \in Sale |->
         IF s \in request[r].demoted /\ Exists(s) THEN "draft" ELSE status[s]]
    /\ request' = [request EXCEPT ![r] =
         [@ EXCEPT !.step = IF request[r].keep = NoSale THEN "find" ELSE "resume",
                   !.demoted = {}]]
    /\ UNCHANGED <<isDraft, lines, discount, payable, stock, return, history, disturbed>>

\* The resumed sale is opened by its id, whatever it has become meanwhile.
Resume(r) ==
    /\ At(r, "resume")
    /\ Exists(request[r].keep)
    /\ status' = [status EXCEPT ![request[r].keep] = "open"]
    /\ Done(r)
    /\ UNCHANGED <<isDraft, lines, discount, payable, stock, return, history, disturbed>>

\* An open sale with lines is reused, an empty one is replaced.
FindOpen(r) ==
    /\ At(r, "find")
    /\ \/ OpenSales = {} /\ request' = [request EXCEPT ![r].step = "create"]
       \/ \E s \in OpenSales :
             request' = [request EXCEPT ![r] =
                IF lines[s] # NoLines THEN Idle
                                      ELSE [@ EXCEPT !.step = "drop", !.sale = s]]
    /\ UNCHANGED <<saleVars, stock, return, history, disturbed>>

CreateSale(r, s) ==
    /\ At(r, "create")
    /\ status[s] = "none"
    /\ status' = [status EXCEPT ![s] = "open"]
    /\ isDraft' = [isDraft EXCEPT ![s] = TRUE]
    /\ Done(r)
    /\ UNCHANGED <<lines, discount, payable, stock, return, history, disturbed>>

\* A draft with lines is kept as a draft or parked, an empty one deleted.
BeginPark(r, s, newDraft) ==
    /\ isDraft[s]
    /\ Start(r, "park", [Idle EXCEPT !.step = IF lines[s] = NoLines THEN "delete" ELSE "park",
                                     !.sale = s, !.existed = newDraft /\ lines[s] # NoLines])

Park(r, parked) ==
    LET s == request[r].sale
    IN  /\ At(r, "park")
        /\ Exists(s)
        /\ parked \in {"draft", "parked"}
        /\ status' = [status EXCEPT ![s] = parked]
        /\ request' = [request EXCEPT ![r] =
             IF request[r].existed THEN [Idle EXCEPT !.step = "sweep"] ELSE Idle]
        /\ UNCHANGED <<isDraft, lines, discount, payable, stock, return, history, disturbed>>

-----------------------------------------------------------------------------
(* removeDraft and removeOrder.                                            *)

LiveReturns(s) == {x \in Return : return[x].state = "live" /\ return[x].sale = s}

\* removeDraft reads the sale and checks only who may access it.
BeginRemove(r, s) ==
    /\ Exists(s)
    /\ Start(r, "delete", [Idle EXCEPT !.step = "delete", !.sale = s])

\* sale.delete by id; its lines go with it, its returns lose their parent.
\* getOrCreateOpenSale drops an empty open sale the same way, then creates.
Delete(r) ==
    LET s == request[r].sale
    IN  /\ request[r].step \in {"delete", "drop"}
        /\ Exists(s)
        /\ status' = [status EXCEPT ![s] = "deleted"]
        /\ isDraft' = [isDraft EXCEPT ![s] = FALSE]
        /\ request' = [request EXCEPT ![r] =
             IF At(r, "drop") THEN [Idle EXCEPT !.step = "create"] ELSE Idle]
        /\ UNCHANGED <<lines, discount, payable, stock, return, history, disturbed>>

\* removeOrder of an original sale: a draft is deleted, a document cancelled.
BeginCancel(r, s) ==
    /\ Exists(s)
    /\ status[s] # "cancelled"
    /\ LiveReturns(s) = {}
    /\ Start(r, "cancel", [Idle EXCEPT !.step = IF isDraft[s] THEN "delete" ELSE "cancel",
                                       !.sale = s, !.seen = lines[s]])

\* Mutant: the claim does not exclude a cancelled sale.
CancelClaimedAgain(s) == LiveReturns(s) = {} /\ ~isDraft[s]

CancelClaimed(s) == LiveReturns(s) = {} /\ ~isDraft[s] /\ status[s] # "cancelled"

\* The claim, and the stock of the lines read before the transaction.
Cancel(r) ==
    LET s == request[r].sale
    IN  /\ At(r, "cancel")
        /\ Exists(s)
        /\ CancelClaimed(s)
        /\ status' = [status EXCEPT ![s] = "cancelled"]
        /\ stock' = [i \in Item |-> stock[i] + request[r].seen[i]]
        /\ restored' = [restored EXCEPT ![s] = [i \in Item |-> @[i] + request[r].seen[i]]]
        /\ reversed' = [reversed EXCEPT ![s] = @ + 1]
        /\ Done(r)
        /\ UNCHANGED <<isDraft, lines, discount, payable, return, settled, taken,
                       posted, disturbed>>

-----------------------------------------------------------------------------
(* processReturn and the cancel of a return.                               *)

\* refreshBaseSaleStatus of a sale that still exists.
Refreshed(s, returns) ==
    LET live == {x \in Return : returns[x].state = "live" /\ returns[x].sale = s}
        back(i) == SumOver([x \in Return |-> returns[x].quantity],
                           {x \in live : returns[x].item = i})
        sold == {i \in Item : lines[s][i] > 0}
    IN  CASE live = {} /\ ~isDraft[s] -> "paid"
          [] \A i \in sold : back(i) = 0 -> status[s]
          [] OTHER -> IF \A i \in sold : back(i) >= lines[s][i]
                        THEN "returned" ELSE "partially_returned"

RefreshStatus(s) ==
    status' = IF Exists(s) THEN [status EXCEPT ![s] = Refreshed(s, return')] ELSE status

BeginReturn(r, s, i, q) ==
    /\ Exists(s)
    /\ ~isDraft[s]
    /\ status[s] # "cancelled"
    /\ Start(r, "return", [Idle EXCEPT !.step = "return", !.sale = s, !.item = i,
                                       !.quantity = q, !.seen = lines[s]])

\* Mutant: what other returns brought back is not counted.
ReturnableOnce(r) == request[r].seen[request[r].item] >= request[r].quantity

\* getReturnableQuantities: what was sold less what live returns brought back.
Returnable(r) ==
    LET s == request[r].sale
        i == request[r].item
        back == SumOver([x \in Return |-> return[x].quantity],
                        {x \in LiveReturns(s) : return[x].item = i})
    IN  request[r].seen[i] >= back + request[r].quantity

ReturnClaimed(s) == Exists(s) /\ status[s] # "cancelled"

\* The sale's row is locked and its status read again before the return.
MakeReturn(r, x) ==
    LET s == request[r].sale
        i == request[r].item
        q == request[r].quantity
    IN  /\ At(r, "return")
        /\ ReturnClaimed(s)
        /\ return[x].state = "none"
        /\ Returnable(r)
        /\ return' = [return EXCEPT ![x] =
             [state |-> "live", sale |-> s, item |-> i, quantity |-> q]]
        /\ stock' = [stock EXCEPT ![i] = @ + q]
        /\ RefreshStatus(s)
        /\ Done(r)
        /\ UNCHANGED <<isDraft, lines, discount, payable, history, disturbed>>

\* removeOrder of a return.  A return whose sale has been deleted has no parent
\* left and is cancelled as if it were a sale.
BeginCancelReturn(r, x) ==
    /\ return[x].state = "live"
    /\ Start(r, "unreturn",
             [Idle EXCEPT !.step = IF Exists(return[x].sale) THEN "unreturn" ELSE "orphan",
                          !.target = x])

CancelReturn(r) ==
    LET x == request[r].target
        i == return[x].item
    IN  /\ At(r, "unreturn")
        /\ return[x].state = "live"
        /\ stock[i] >= return[x].quantity
        /\ return' = [return EXCEPT ![x].state = "cancelled"]
        /\ stock' = [stock EXCEPT ![i] = @ - return[x].quantity]
        /\ RefreshStatus(return[x].sale)
        /\ Done(r)
        /\ UNCHANGED <<isDraft, lines, discount, payable, history, disturbed>>

\* restoreSaleStock of an orphaned return: its goods are added once more.
CancelOrphan(r) ==
    LET x == request[r].target
    IN  /\ At(r, "orphan")
        /\ return[x].state = "live"
        /\ return' = [return EXCEPT ![x].state = "cancelled"]
        /\ stock' = [stock EXCEPT ![return[x].item] = @ + return[x].quantity]
        /\ Done(r)
        /\ UNCHANGED <<saleVars, history, disturbed>>

\* removeDraft looks neither at the type of the sale nor at its status: a return
\* document is deleted by its id like any sale.  Its goods stay on the shelf, and
\* nothing counts what it brought back any more.
BeginRemoveReturn(r, x) ==
    /\ return[x].state \in {"live", "cancelled"}
    /\ Start(r, "delete", [Idle EXCEPT !.step = "strike", !.target = x])

DeleteReturn(r) ==
    LET x == request[r].target
    IN  /\ At(r, "strike")
        /\ return[x].state \in {"live", "cancelled"}
        /\ return' = [return EXCEPT ![x] = [NoReturn EXCEPT !.state = "deleted"]]
        /\ Done(r)
        /\ UNCHANGED <<saleVars, stock, history, disturbed>>

\* A failed check, a lost claim, missing stock, a vanished row, an error: the
\* request ends, and its transaction, if it has begun one, rolls back.
Reject(r) ==
    /\ request[r].step # "idle"
    /\ Done(r)
    /\ UNCHANGED <<saleVars, stock, return, history, disturbed>>

-----------------------------------------------------------------------------
BeginStep(r) ==
    \/ BeginOpen(r)
    \/ \E s \in Sale :
          \/ \E i \in Item, q \in Quantities : BeginEdit(r, s, i, q)
          \/ \E d \in 0 .. MaxDiscount : BeginDiscount(r, s, d)
          \/ BeginPay(r, s)
          \/ BeginResume(r, s)
          \/ \E newDraft \in BOOLEAN : BeginPark(r, s, newDraft)
          \/ BeginRemove(r, s)
          \/ BeginCancel(r, s)
          \/ \E i \in Item, q \in Quantities \ {0} : BeginReturn(r, s, i, q)
    \/ \E x \in Return : BeginCancelReturn(r, x) \/ BeginRemoveReturn(r, x)

DraftStep(r) ==
    \/ WriteLine(r) \/ WriteDiscount(r) \/ ReadTotals(r) \/ StoreTotals(r)
    \/ Sweep(r) \/ Purge(r) \/ Demote(r) \/ Resume(r) \/ FindOpen(r)
    \/ \E s \in Sale : CreateSale(r, s)
    \/ \E parked \in {"draft", "parked"} : Park(r, parked)
    \/ Delete(r)
    \/ Reject(r)

PostingStep(r) ==
    \/ Pay(r)
    \/ Cancel(r)
    \/ \E x \in Return : MakeReturn(r, x)
    \/ CancelReturn(r)
    \/ CancelOrphan(r)
    \/ DeleteReturn(r)

Next == \E r \in Request : BeginStep(r) \/ DraftStep(r) \/ PostingStep(r)

Spec == Init /\ [][Next]_vars

-----------------------------------------------------------------------------
Units == [Item -> Nat]

ReturnDocument ==
    [state : {"none", "live", "cancelled", "deleted"}, sale : Sale \cup {NoSale},
     item : Item, quantity : Quantities]

RequestState ==
    [step : Steps, sale : Sale \cup {NoSale}, paying : BOOLEAN, item : Item,
     quantity : Quantities, existed : BOOLEAN, seen : Lines, due : Nat,
     keep : Sale \cup {NoSale}, target : Return,
     doomed : SUBSET Sale, demoted : SUBSET Sale]

TypeOK ==
    /\ status \in [Sale -> Status]
    /\ isDraft \in [Sale -> BOOLEAN]
    /\ lines \in [Sale -> Lines]
    /\ discount \in [Sale -> Nat]
    /\ payable \in [Sale -> Nat]
    /\ stock \in Units
    /\ return \in [Return -> ReturnDocument]
    /\ request \in [Request -> RequestState]
    /\ settled \in [Sale -> Nat]
    /\ taken \in [Sale -> Units]
    /\ restored \in [Sale -> Units]
    /\ posted \in [Sale -> Nat]
    /\ reversed \in [Sale -> Nat]
    /\ disturbed \in [Sale -> BOOLEAN]

\* However many tills press "pay", and whatever is parked, resumed or deleted
\* meanwhile, the stock of a sale is written off at most once.
PostedAtMostOnce == \A s \in Sale : posted[s] <= 1

\* The returns a sale has on file, made in a race or after one was cancelled, never
\* come to more of an item than the payment took off the shelf, and a cancelled
\* sale has none: a return that races the cancel is seen by it or sees it.  A
\* return deleted by its id (removeDraft) is on file no longer: its goods have come
\* back, and getReturnableQuantities lets the customer bring them once more.
ReturnsWithinSale ==
    \A s \in Sale, i \in Item :
        LET back == SumOver([x \in Return |-> return[x].quantity],
                            {x \in LiveReturns(s) : return[x].item = i})
        IN  /\ posted[s] > 0 /\ ~disturbed[s] => back <= taken[s][i]
            /\ status[s] = "cancelled" => LiveReturns(s) = {}

\* A cancelled sale has put back exactly what its payment took.
CancelRestoresWhatWasTaken ==
    \A s \in Sale :
        status[s] = "cancelled" /\ ~disturbed[s] => restored[s] = taken[s]

\* The money, debt and loyalty a payment took are what the sale shows and what its
\* lines came to, for every sale no unchecked write touched during its payment or
\* after it.
SettledUnlessDisturbed ==
    \A s \in Sale :
        posted[s] > 0 /\ ~disturbed[s] =>
            /\ settled[s] = payable[s]
            /\ settled[s] = Payable(taken[s], discount[s])

\* "A second cancel would restore stock ... again" (removeOrder).
ReversedAtMostOnce == \A s \in Sale : reversed[s] <= 1

\* "A paid document is never cancelled silently": its row is never deleted.
PostedIsKept == \A s \in Sale : posted[s] > 0 => status[s] # "deleted"

\* A sale implements the stock document as long as no cancelled sale is opened,
\* parked or swept by its id (DocumentsSpec).
PhaseOf(s) ==
    CASE status[s] = "deleted" -> "closed"
      [] status[s] = "none" \/ (Exists(s) /\ isDraft[s]) -> "open"
      [] status[s] = "cancelled" -> "reversed"
      [] OTHER -> "posted"

Document == INSTANCE StockDocument WITH
    Doc <- Sale, phase <- [s \in Sale |-> PhaseOf(s)]

IsStockDocument == Document!Spec

=============================================================================
