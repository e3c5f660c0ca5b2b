--------------------------- MODULE PurchaseOrders ---------------------------
(***************************************************************************)
(* One order to a supplier (PurchaseOrdersService).  update and receive    *)
(* are serializable transactions, receive with the order row locked; send, *)
(* cancel and close are one conditional update each: every handler is one  *)
(* step.  A goods row is a product variant; prices are left out.           *)
(*                                                                         *)
(* History: `posted` are the units of the PURCHASE movements, `closed`     *)
(* says the order was ended by hand.                                       *)
(***************************************************************************)
EXTENDS Naturals

CONSTANTS
    Goods,
    MaxOrdered       \* bound: ordered quantity of one row

ASSUME PurchaseAssumption == MaxOrdered \in Nat

VARIABLES
    purchase,            \* PurchaseOrder.status
    ordered, received,   \* PurchaseOrderItem: quantity, receivedQuantity
    posted, closed

purchaseVars == <<purchase, ordered, received, posted, closed>>

PurchaseStatus == {"DRAFT", "SENT", "PARTIAL", "RECEIVED", "CANCELLED"}
OpenToDelivery == {"SENT", "PARTIAL"}

\* Mutant: an order is cancellable until all of it has arrived.
CancellableUntilReceived == {"DRAFT", "SENT", "PARTIAL"}

Cancellable == {"DRAFT", "SENT"}

\* parseItems: at least one row, each with a quantity.
OrderedRows == {q \in [Goods -> 0 .. MaxOrdered] : \E g \in Goods : q[g] > 0}

\* create
PurchaseInit ==
    /\ purchase = "DRAFT"
    /\ ordered \in OrderedRows
    /\ received = [g \in Goods |-> 0]
    /\ posted = [g \in Goods |-> 0]
    /\ closed = FALSE

\* update: the rows are replaced.
UpdatePurchase(rows) ==
    /\ purchase = "DRAFT"
    /\ ordered' = rows
    /\ received' = [g \in Goods |-> 0]
    /\ UNCHANGED <<purchase, posted, closed>>

Moves(statuses, to) ==
    /\ purchase \in statuses
    /\ purchase' = to
    /\ UNCHANGED <<ordered, received, posted>>

SendPurchase == Moves({"DRAFT"}, "SENT") /\ UNCHANGED closed
CancelPurchase == Moves(Cancellable, "CANCELLED") /\ UNCHANGED closed
ClosePurchase == Moves({"PARTIAL"}, "RECEIVED") /\ closed' = TRUE

Fits(delivery) == \A g \in Goods : received[g] + delivery[g] <= ordered[g]

AllArrived == \A g \in Goods : received'[g] >= ordered'[g]

\* receive: the delivered rows, all that remains when none are named.
Receive(delivery) ==
    /\ purchase \in OpenToDelivery
    /\ Fits(delivery)
    /\ posted' = [g \in Goods |-> posted[g] + delivery[g]]
    /\ received' = [g \in Goods |-> received[g] + delivery[g]]
    /\ ordered' = ordered
    /\ purchase' = IF AllArrived THEN "RECEIVED" ELSE "PARTIAL"
    /\ UNCHANGED closed

PurchaseNext ==
    \/ \E rows \in OrderedRows : UpdatePurchase(rows) \/ Receive(rows)
    \/ SendPurchase \/ CancelPurchase \/ ClosePurchase

PurchaseSpec == PurchaseInit /\ [][PurchaseNext]_purchaseVars

-----------------------------------------------------------------------------
PurchaseTypeOK ==
    /\ purchase \in PurchaseStatus
    /\ ordered \in OrderedRows
    /\ received \in [Goods -> 0 .. MaxOrdered]
    /\ posted \in [Goods -> Nat] /\ closed \in BOOLEAN

(* The status says how much has come: nothing before the order is sent and
   nothing when it is cancelled, a part, or all of it unless it was closed by
   hand; and the stock got what the rows say, never more than was ordered
   (purchase-orders.service.ts:405). *)
StatusTellsReceipts ==
    LET some == \E g \in Goods : received[g] > 0
        all == \A g \in Goods : received[g] = ordered[g]
    IN  /\ posted = received
        /\ \A g \in Goods : received[g] <= ordered[g]
        /\ purchase \in {"DRAFT", "SENT", "CANCELLED"} => ~some
        /\ purchase = "PARTIAL" => some /\ ~all
        /\ purchase = "RECEIVED" => some /\ (closed \/ all)

=============================================================================
