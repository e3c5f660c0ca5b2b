----------------------------- MODULE Movements ------------------------------
(***************************************************************************)
(* The journal of the movements of one product over the shops (StockMove-  *)
(* ment) and what the product page makes of it (ProductsService).          *)
(*                                                                         *)
(* A sale and the two ends of a transfer write their row in the trans-     *)
(* action that moves the stock.  An edit of the product does not: its      *)
(* transaction reads the shops, moves them and commits; then a receipt is  *)
(* written for what was added (a committed supplier invoice) and one row   *)
(* for every shop where the stock seems to have changed, one by one, and   *)
(* the handler may fail anywhere in between.                               *)
(*                                                                         *)
(* The goods in the shops at the beginning are InitialUnits of each.       *)
(* History: `unexplained`, the shops whose journal an edit has spoilt.     *)
(***************************************************************************)
EXTENDS Totals, Sequences

CONSTANTS
    Branch, Manager,
    InitialUnits,
    MaxOnHand,       \* bound: units in a shop
    MaxRows,         \* bound: rows of the journal
    MaxReceipts      \* bound: units received before the last edit begins

ASSUME MovementAssumption ==
    /\ IsFiniteSet(Branch) /\ IsFiniteSet(Manager)
    /\ {InitialUnits, MaxOnHand, MaxRows, MaxReceipts} \subseteq Nat
    /\ InitialUnits <= MaxOnHand

VARIABLES
    onHand,          \* ProductStock.quantity
    onRoad,          \* units of sent transfers, by shop of arrival
    journal,         \* StockMovement, the oldest first
    receipts,        \* units of the committed MANUAL invoices
    manager,         \* edits of the product under way
    unexplained

movementHistory == <<unexplained>>
movementVars == <<onHand, onRoad, journal, receipts, manager, movementHistory>>

Amounts == 0 .. MaxOnHand
MovementTypes == {"SALE", "TRANSFER", "PURCHASE", "ADJUSTMENT"}
MovementRows == [branch : Branch, type : MovementTypes, before : Amounts, after : Amounts]

\* The quantities a form sends for some of the shops: differences to what the
\* form was opened with, or counts from older clients.
Forms == UNION {[kind : {"delta"}, units : [S -> {-1, 1}]]
                  \cup [kind : {"set"}, units : [S -> {0, MaxOnHand}]] : S \in SUBSET Branch}

Edits == [step : {"idle", "read", "receipt", "rows"}, form : Forms,
          before : [Branch -> Amounts], after : [Branch -> Amounts], left : SUBSET Branch]

Zero == [b \in Branch |-> 0]
NoEdit == [step |-> "idle", form |-> [kind |-> "set", units |-> [b \in {} |-> 0]],
           before |-> Zero, after |-> Zero, left |-> {}]

MovementInit ==
    /\ onHand = [b \in Branch |-> InitialUnits]
    /\ onRoad = Zero
    /\ journal = <<>> /\ receipts = 0
    /\ manager = [m \in Manager |-> NoEdit]
    /\ unexplained = {}

-----------------------------------------------------------------------------
\* createStockMovementRecord
RowWritten(b, type, before, after) ==
    /\ Len(journal) < MaxRows
    /\ journal' = Append(journal,
           [branch |-> b, type |-> type, before |-> before, after |-> after])

\* The row is written with the stock it moves.
Move(b, type, d) ==
    /\ onHand[b] + d \in Amounts
    /\ onHand' = [onHand EXCEPT ![b] = @ + d]
    /\ RowWritten(b, type, onHand[b], onHand[b] + d)
    /\ UNCHANGED <<receipts, manager, movementHistory>>

SellOne(b) == Move(b, "SALE", -1) /\ UNCHANGED onRoad

\* sendTransfer and receiveTransferItem, both with a positive quantity
SendOne(b, to) ==
    b # to /\ Move(b, "TRANSFER", -1) /\ onRoad' = [onRoad EXCEPT ![to] = @ + 1]

ReceiveOne(b) ==
    onRoad[b] > 0 /\ Move(b, "TRANSFER", 1) /\ onRoad' = [onRoad EXCEPT ![b] = @ - 1]

-----------------------------------------------------------------------------
\* applySimpleProductStockEdits reads every shop of the product first.
ReadStocks(m, form) ==
    /\ manager[m].step = "idle"
    /\ receipts <= MaxReceipts
    /\ manager' = [manager EXCEPT ![m] =
           [NoEdit EXCEPT !.step = "read", !.form = form, !.before = onHand]]
    /\ UNCHANGED <<onHand, onRoad, journal, receipts, movementHistory>>

Named(form) == DOMAIN form.units

Target(form, b) == IF form.kind = "delta" THEN onHand[b] + form.units[b] ELSE form.units[b]

\* Mutant: only the shops whose stock grew are recorded.
SeemChangedUp(before, after) == {b \in Branch : before[b] < after[b]}

\* changedBranchCodes
SeemChanged(before, after) == {b \in Branch : before[b] # after[b]}

\* The edits of the shops commit.  A shop the form does not name counts as
\* emptied in the comparison; what was sold since the shops were read is not
\* seen in it.
ApplyEdit(m) ==
    LET form == manager[m].form
        before == manager[m].before
        after == [b \in Branch |-> IF b \in Named(form) THEN Target(form, b) ELSE 0]
        changed == SeemChanged(before, after)
        grown == \E b \in changed : after[b] > before[b]
    IN  /\ manager[m].step = "read"
        /\ \A b \in Named(form) : after[b] \in Amounts
        /\ onHand' = [b \in Branch |-> IF b \in Named(form) THEN after[b] ELSE onHand[b]]
        /\ manager' = [manager EXCEPT ![m] =
               IF changed = {} THEN NoEdit
               ELSE [@ EXCEPT !.step = IF grown THEN "receipt" ELSE "rows",
                              !.after = after, !.left = changed]]
        /\ unexplained' = unexplained
               \cup {b \in Named(form) : onHand[b] # before[b]}
               \cup {b \in Branch \ Named(form) : before[b] # 0}
        /\ UNCHANGED <<onRoad, journal, receipts>>

\* A delta would make the stock negative: the transaction rolls back.
RefuseEdit(m) ==
    /\ manager[m].step = "read"
    /\ manager' = [manager EXCEPT ![m] = NoEdit]
    /\ UNCHANGED <<onHand, onRoad, journal, receipts, movementHistory>>

\* logManualStockAdjustments: first the receipt,
Growth(edit) == [b \in Branch |->
    IF b \in edit.left /\ edit.after[b] > edit.before[b]
    THEN edit.after[b] - edit.before[b] ELSE 0]

WriteReceipt(m) ==
    /\ manager[m].step = "receipt"
    /\ receipts' = receipts + SumOver(Growth(manager[m]), Branch)
    /\ manager' = [manager EXCEPT ![m].step = "rows"]
    /\ UNCHANGED <<onHand, onRoad, journal, movementHistory>>

\* then the rows, in the order of the shops, which nothing fixes.
WriteMovement(m, b) ==
    LET edit == manager[m]
    IN  /\ edit.step = "rows" /\ b \in edit.left
        /\ RowWritten(b, IF edit.after[b] > edit.before[b] THEN "PURCHASE" ELSE "ADJUSTMENT",
                    edit.before[b], edit.after[b])
        /\ manager' = [manager EXCEPT ![m] =
               IF edit.left = {b} THEN NoEdit ELSE [edit EXCEPT !.left = edit.left \ {b}]]
        /\ UNCHANGED <<onHand, onRoad, receipts, movementHistory>>

\* A write throws or the server stops: the stock stays, the rest is not written.
LogFails(m) ==
    /\ manager[m].step \in {"receipt", "rows"}
    /\ unexplained' = unexplained \cup manager[m].left
    /\ manager' = [manager EXCEPT ![m] = NoEdit]
    /\ UNCHANGED <<onHand, onRoad, journal, receipts>>

MovementNext ==
    \/ \E b \in Branch :
        \/ SellOne(b) \/ ReceiveOne(b)
        \/ \E to \in Branch : SendOne(b, to)
    \/ \E m \in Manager :
        \/ \E form \in Forms : ReadStocks(m, form)
        \/ ApplyEdit(m) \/ RefuseEdit(m)
        \/ WriteReceipt(m) \/ LogFails(m)
        \/ \E b \in Branch : WriteMovement(m, b)

MovementSpec == MovementInit /\ [][MovementNext]_movementVars

-----------------------------------------------------------------------------
(* The product page. *)
Distance(row) == IF row.after > row.before THEN row.after - row.before
                 ELSE row.before - row.after

\* buildProductMovementWhere: a shop that is asked for must be an allowed one.
Visible(allowed, wanted) == IF wanted = {} THEN allowed ELSE allowed \cap wanted

Shown(branches, types) ==
    {n \in DOMAIN journal : journal[n].branch \in branches /\ journal[n].type \in types}

\* One column of the statistics: the quantities of the rows that are shown.
Volume(rows) == SumOver([n \in DOMAIN journal |-> Distance(journal[n])], rows)

Sold(branches) == Volume(Shown(branches, {"SALE"}))
Imported(branches) == Volume(Shown(branches, {"PURCHASE"}))

\* The rows of the list that tell up and down apart
Upward(rows) == {n \in rows : journal[n].after > journal[n].before}

Net(rows) == Volume(Upward(rows)) - Volume(rows \ Upward(rows))

\* What the edits under way have still to write
Unwritten(b) ==
    LET edits == {m \in Manager : b \in manager[m].left}
    IN  SumOver([m \in Manager |-> manager[m].after[b]], edits)
          - SumOver([m \in Manager |-> manager[m].before[b]], edits)

MovementTypeOK ==
    /\ onHand \in [Branch -> Amounts] /\ onRoad \in [Branch -> Nat]
    /\ \A n \in DOMAIN journal : journal[n] \in MovementRows
    /\ receipts \in Nat /\ manager \in [Manager -> Edits]
    /\ unexplained \subseteq Branch

(* The journal explains the stock of a shop: what there was, what the page shows
   as imported and sold, and the transfers and adjustments of the list give what
   there is, once the edits under way have written their rows.  The exceptions
   are the shops an edit did not name, or sold in while it ran, or failed before
   it had written their row.  No import is shown without a receipt. *)
JournalExplainsStock ==
    /\ \A b \in Branch \ unexplained :
        onHand[b] = InitialUnits + Imported({b}) - Sold({b})
                      + Net(Shown(Visible(Branch, {b}), {"TRANSFER", "ADJUSTMENT"}))
                      + Unwritten(b)
    /\ Imported(Branch) <= receipts

=============================================================================
