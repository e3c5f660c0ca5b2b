-------------------------- MODULE SupplierInvoices --------------------------
(***************************************************************************)
(* One invoice of a supplier (SupplierInvoiceService), from its first line *)
(* to the stock it brings and back.                                        *)
(*                                                                         *)
(* commit, rollback and the second half of recognize are serializable      *)
(* transactions and cancel is one conditional update: one step each.  All  *)
(* other handlers check the status on a row they have read and write by id *)
(* in a later transaction: they are processes of the `desk`.               *)
(*                                                                         *)
(* One product, one shop: a line is matched or not, and its allocation is  *)
(* a quantity.  A line's id is used once.  History: `sold` units,          *)
(* `reopened` (status writes that landed on a closed invoice) and          *)
(* `lateLines` (lines written after the commit).                          *)
(***************************************************************************)
EXTENDS Totals

CONSTANTS
    InvoiceLine, Desk,
    MaxUnits,        \* bound: quantity of a line
    MaxReopened      \* bound: status writes over a closed invoice

ASSUME InvoiceAssumption ==
    /\ IsFiniteSet(InvoiceLine)
    /\ MaxUnits \in Nat \ {0} /\ MaxReopened \in Nat

VARIABLES
    invoice,             \* SupplierInvoice: status, totalQuantity
    line,                \* SupplierInvoiceItem with its InvoiceAllocation
    purchased, returned, \* sums of its PURCHASE and ADJUSTMENT movements
    desk,                \* requests between their read and their write
    sold, reopened, lateLines

invoiceRows == <<invoice, line, purchased, returned>>
invoiceHistory == <<sold, reopened, lateLines>>
invoiceVars == <<invoiceRows, desk, invoiceHistory>>

Editable == {"DRAFT", "PROCESSING", "REVIEW", "READY"}
InvoiceStatus == Editable \cup {"COMMITTED", "CANCELLED", "ROLLED_BACK"}
StatusRequests == {"saveFiles", "addItems", "markReady"}
LineRequests == {"updateItem", "deleteItem", "autoMatch", "matchItem",
                 "mergeItems", "allocate"}

InvoiceLines == [state : {"unused", "there", "deleted"}, quantity : 0 .. MaxUnits,
                 matched : BOOLEAN, allocated : 0 .. MaxUnits]
NewLine(n) == [state |-> "there", quantity |-> n, matched |-> FALSE, allocated |-> 0]
NoLine == [NewLine(0) EXCEPT !.state = "unused"]

DeskRequests == [op : StatusRequests \cup LineRequests \cup {"idle", "recognize"},
                 lines : SUBSET InvoiceLine,   \* the lines it is about
                 quantity : 0 .. MaxUnits]     \* the sum mergeItems has read
NoRequest == [op |-> "idle", lines |-> {}, quantity |-> 0]

There == {l \in InvoiceLine : line[l].state = "there"}
Quantities == [l \in InvoiceLine |-> IF l \in There THEN line[l].quantity ELSE 0]
InvoiceStock == purchased - returned - sold

\* create: a draft without lines; a duplicate number is only a warning.
InvoiceInit ==
    /\ invoice = [status |-> "DRAFT", total |-> 0]
    /\ line = [l \in InvoiceLine |-> NoLine]
    /\ purchased = 0 /\ returned = 0
    /\ desk = [d \in Desk |-> NoRequest]
    /\ sold = 0 /\ reopened = 0 /\ lateLines = FALSE

-----------------------------------------------------------------------------
\* get, assertEditable: d has read the invoice and its lines.
ReadInvoice(d, statuses, op, lines, n) ==
    /\ desk[d].op = "idle"
    /\ invoice.status \in Editable
    /\ desk' = [desk EXCEPT ![d] = [op |-> op, lines |-> lines, quantity |-> n]]
    /\ UNCHANGED <<invoiceRows, invoiceHistory>>

AskFiles(d) == ReadInvoice(d, Editable, "saveFiles", {}, 0)
AskItems(d) == ReadInvoice(d, Editable, "addItems", {}, 0)
AskRecognition(d) == ReadInvoice(d, Editable, "recognize", {}, 0)

AskLineEdit(d, op, l) ==
    /\ op \in {"updateItem", "deleteItem", "matchItem"}
    /\ l \in There
    /\ ReadInvoice(d, Editable, op, {l}, 0)

AskAutoMatch(d) == There # {} /\ ReadInvoice(d, Editable, "autoMatch", There, 0)
AskAllocate(d) == There # {} /\ ReadInvoice(d, Editable, "allocate", There, 0)

\* mergeItems: matched to one product, nothing allocated yet; the sum is taken here.
AskMerge(d, l, k) ==
    /\ l # k /\ {l, k} \subseteq There
    /\ \A x \in {l, k} : line[x].matched /\ line[x].allocated = 0
    /\ line[l].quantity + line[k].quantity <= MaxUnits
    /\ ReadInvoice(d, Editable \ {"PROCESSING"}, "mergeItems", {l, k},
                   line[l].quantity + line[k].quantity)

\* markReady: every line matched and fully allocated.
AskReady(d) ==
    /\ There # {}
    /\ \A l \in There : line[l].matched /\ line[l].allocated = line[l].quantity
    /\ ReadInvoice(d, Editable, "markReady", {}, 0)

-----------------------------------------------------------------------------
Done(d) == desk' = [desk EXCEPT ![d] = NoRequest]

\* The transaction of d fails.
Fail(d) == Done(d) /\ UNCHANGED <<invoiceRows, invoiceHistory>>

\* d writes the status by id, whatever it is by now.
WriteInvoiceStatus(d, status) ==
    LET closed == invoice.status \notin Editable
    IN  /\ closed => reopened < MaxReopened
        /\ invoice' = [invoice EXCEPT !.status = status]
        /\ reopened' = IF closed THEN reopened + 1 ELSE reopened
        /\ Done(d)

SaveFiles(d) ==
    /\ desk[d].op = "saveFiles"
    /\ WriteInvoiceStatus(d, "PROCESSING")
    /\ UNCHANGED <<line, purchased, returned, sold, lateLines>>

MarkReady(d) ==
    /\ desk[d].op = "markReady"
    /\ WriteInvoiceStatus(d, "READY")
    /\ UNCHANGED <<line, purchased, returned, sold, lateLines>>

LateLines == lateLines' = (lateLines \/ invoice.status = "COMMITTED")

\* insertItems and the status of addItems.
AddItems(d, l, n) ==
    /\ desk[d].op = "addItems"
    /\ line[l].state = "unused"
    /\ line' = [line EXCEPT ![l] = NewLine(n)]
    /\ WriteInvoiceStatus(d, "REVIEW")
    /\ LateLines
    /\ UNCHANGED <<purchased, returned, sold>>

\* A row is written by id: it throws when a row it needs is gone.
WriteLines(d, new) ==
    /\ line' = new
    /\ LateLines
    /\ Done(d)
    /\ UNCHANGED <<invoice, purchased, returned, sold, reopened>>

UpdateItem(d, n) ==
    /\ desk[d].op = "updateItem"
    /\ \E l \in desk[d].lines :
        IF l \in There THEN WriteLines(d, [line EXCEPT ![l].quantity = n]) ELSE Fail(d)

DeleteItem(d) ==
    /\ desk[d].op = "deleteItem"
    /\ \E l \in desk[d].lines :
        IF l \in There
        THEN WriteLines(d, [line EXCEPT ![l] = [NoLine EXCEPT !.state = "deleted"]])
        ELSE Fail(d)

MatchItem(d) ==
    /\ desk[d].op = "matchItem"
    /\ \E l \in desk[d].lines :
        IF l \in There THEN WriteLines(d, [line EXCEPT ![l].matched = TRUE]) ELSE Fail(d)

\* autoMatch: one update after another, in no transaction; a suggestion unlinks.
AutoMatch(d) ==
    /\ desk[d].op = "autoMatch"
    /\ \E l \in desk[d].lines :
        IF l \in There
        THEN /\ line' = [line EXCEPT ![l].matched = FALSE]
             /\ LateLines
             /\ desk' = [desk EXCEPT ![d] =
                   IF desk[d].lines = {l} THEN NoRequest
                   ELSE [desk[d] EXCEPT !.lines = desk[d].lines \ {l}]]
             /\ UNCHANGED <<invoice, purchased, returned, sold, reopened>>
        ELSE Fail(d)

MergeItems(d) ==
    /\ desk[d].op = "mergeItems"
    /\ \E l \in desk[d].lines :
        IF l \in There
        THEN WriteLines(d, [k \in InvoiceLine |->
                IF k = l THEN [line[k] EXCEPT !.quantity = desk[d].quantity]
                ELSE IF k \in desk[d].lines THEN [NoLine EXCEPT !.state = "deleted"]
                ELSE line[k]])
        ELSE Fail(d)

\* allocate: the allocations of the lines it has read are replaced.
Allocate(d) ==
    LET read == desk[d].lines
    IN  /\ desk[d].op = "allocate"
        /\ \/ \E new \in [read \cap There -> 0 .. MaxUnits] :
                WriteLines(d, [l \in InvoiceLine |->
                    IF l \in read \cap There THEN [line[l] EXCEPT !.allocated = new[l]]
                                             ELSE line[l]])
           \/ ~(read \subseteq There) /\ Fail(d)   \* an allocation of a deleted line

-----------------------------------------------------------------------------
(* recognize, after the text recognition: the status is looked at again and
   all lines are replaced by the recognised ones. *)
Recognize(d, l, n) ==
    /\ desk[d].op = "recognize"
    /\ line[l].state = "unused"
    /\ IF invoice.status \in Editable
       THEN /\ invoice' = [invoice EXCEPT !.status = "REVIEW"]
            /\ line' = [k \in InvoiceLine |->
                    IF k = l THEN NewLine(n)
                    ELSE IF k \in There THEN [NoLine EXCEPT !.state = "deleted"]
                    ELSE line[k]]
            /\ Done(d)
            /\ UNCHANGED <<purchased, returned, invoiceHistory>>
       ELSE Fail(d)

\* commit looks at every line once more.
Receivable == \A l \in There : line[l].matched /\ line[l].allocated = line[l].quantity

\* commit: every allocation goes into the stock, with its movement.
CommitInvoice ==
    LET incoming == SumOver([l \in InvoiceLine |->
                        IF l \in There THEN line[l].allocated ELSE 0], InvoiceLine)
    IN  /\ invoice.status = "READY"
        /\ Receivable
        /\ purchased' = purchased + incoming
        /\ invoice' = [status |-> "COMMITTED",
                       total |-> SumOver(Quantities, InvoiceLine)]
        /\ UNCHANGED <<line, returned, desk, sold, reopened, lateLines>>

CancelInvoice ==
    /\ invoice.status \in Editable
    /\ invoice' = [invoice EXCEPT !.status = "CANCELLED"]
    /\ UNCHANGED <<line, purchased, returned, desk, invoiceHistory>>

Unsold(units) == units <= InvoiceStock

\* rollback: all PURCHASE movements of the invoice, unless the goods are gone.
RollbackInvoice ==
    /\ invoice.status = "COMMITTED"
    /\ purchased > 0
    /\ Unsold(purchased)
    /\ returned' = returned + purchased
    /\ invoice' = [invoice EXCEPT !.status = "ROLLED_BACK"]
    /\ UNCHANGED <<line, purchased, desk, invoiceHistory>>

\* The shop sells one of the goods.
SellReceived ==
    /\ InvoiceStock > 0
    /\ sold' = sold + 1
    /\ UNCHANGED <<invoiceRows, desk, reopened, lateLines>>

InvoiceNext ==
    \/ \E d \in Desk :
        \/ AskFiles(d) \/ AskItems(d) \/ AskRecognition(d)
        \/ \E op \in LineRequests, l \in InvoiceLine : AskLineEdit(d, op, l)
        \/ AskAutoMatch(d) \/ AskAllocate(d) \/ AskReady(d)
        \/ \E l, k \in InvoiceLine : AskMerge(d, l, k)
        \/ SaveFiles(d) \/ MarkReady(d)
        \/ \E l \in InvoiceLine, n \in 1 .. MaxUnits : AddItems(d, l, n) \/ Recognize(d, l, n)
        \/ \E n \in 1 .. MaxUnits : UpdateItem(d, n)
        \/ DeleteItem(d) \/ MatchItem(d) \/ AutoMatch(d) \/ MergeItems(d) \/ Allocate(d)
    \/ CommitInvoice \/ CancelInvoice \/ RollbackInvoice \/ SellReceived

InvoiceSpec == InvoiceInit /\ [][InvoiceNext]_invoiceVars

-----------------------------------------------------------------------------
InvoiceTypeOK ==
    /\ invoice \in [status : InvoiceStatus, total : Nat]
    /\ line \in [InvoiceLine -> InvoiceLines]
    /\ desk \in [Desk -> DeskRequests]
    /\ {purchased, returned, sold, reopened, InvoiceStock} \subseteq Nat
    /\ lateLines \in BOOLEAN

(* A committed invoice has brought in exactly what its lines say, and all of it
   has a shop, unless a line was written after the commit by a request that had
   checked the status before it.  A rolled back one has taken back exactly what
   came in, also when its lines have been edited since, and no goods that are
   sold. *)
ReceiptsFollowStatus ==
    reopened = 0 =>
        CASE invoice.status = "ROLLED_BACK" -> returned = purchased /\ sold = 0
          [] invoice.status = "COMMITTED" ->
                /\ returned = 0
                /\ ~lateLines =>
                    /\ invoice.total = purchased
                    /\ invoice.total = SumOver(Quantities, InvoiceLine)
                    /\ \A l \in There : line[l].allocated = line[l].quantity
          [] OTHER -> returned = 0

=============================================================================
