---------------------------- MODULE StockLedger -----------------------------
(***************************************************************************)
(* The stock ledger: ProductVariantStock is the only table services write; *)
(* its trigger carries every change to ProductStock and to                 *)
(* Product.quantity (src/common/stock-ledger.ts, the variant_stock_ledger  *)
(* migration).                                                             *)
(*                                                                         *)
(* Transactions run by runSerializableTransaction are one step: PostgreSQL *)
(* makes them equivalent to a serial order and they are retried.  The      *)
(* catalogue form (updateCatalogProduct) runs outside of it: it reads the  *)
(* product, rewrites the product row, and edits the shop quantities in a   *)
(* READ COMMITTED transaction, so it is a process with one step per        *)
(* statement.  Its uncommitted writes are `pending`, and the rows it has   *)
(* written are in `locks`: nobody else writes them until it ends.          *)
(*                                                                         *)
(* A missing stock row is a quantity of 0 (updateMany finds no row with    *)
(* quantity >= n > 0, upsert creates it), except that a missing row cannot *)
(* be locked.                                                              *)
(***************************************************************************)
EXTENDS Totals

CONSTANTS
    Product, Variant, Shop,
    Editor,          \* requests saving the catalogue form
    ProductOf,       \* the product of each variant
    DefaultVariant,  \* the variant a simple product keeps its stock on
    Threshold,       \* CrmTelegramSettings low-stock threshold, 0 = disabled
    MaxQuantity,     \* bound: stock a shop row may be raised to
    MaxTotal         \* bound: product totals a catalogue edit starts from

ASSUME LedgerAssumption ==
    /\ Product # {} /\ Shop # {}
    /\ IsFiniteSet(Variant) /\ IsFiniteSet(Shop)
    /\ ProductOf \in [Variant -> Product]
    /\ DefaultVariant \in [Product -> Variant]
    /\ \A p \in Product : ProductOf[DefaultVariant[p]] = p
    /\ Threshold \in Nat
    /\ MaxQuantity \in Nat
    /\ MaxTotal \in Nat

VARIABLES
    variantStock,    \* ProductVariantStock.quantity
    shopStock,       \* ProductStock.quantity
    productQuantity, \* Product.quantity
    lowStockFlag,    \* ProductStock.lowStockNotifiedAt is set
    editor,          \* the catalogue requests
    services         \* history: products a form has made a service or a kit

tables == <<variantStock, shopStock, productQuantity, lowStockFlag, services>>
vars == <<tables, editor>>

-----------------------------------------------------------------------------
(* Rows a transaction can hold locked.                                     *)

VariantRow(v, s) == <<"variant", v, s>>
ShopRow(p, s)    == <<"shop", p, s>>
ProductRow(p)    == <<"product", p>>

Row == {VariantRow(v, s) : v \in Variant, s \in Shop}
         \cup {ShopRow(p, s) : p \in Product, s \in Shop}
         \cup {ProductRow(p) : p \in Product}

\* Mutants: a trigger that takes the variant's id for the product's; a trigger
\* that leaves the product row alone.
LedgerRowsSwapped(v, s) ==
    {VariantRow(v, s), ShopRow(v, s), ProductRow(ProductOf[v])}
LedgerRowsNoTotal(v, s) == {VariantRow(v, s), ShopRow(ProductOf[v], s)}

\* The rows a change of variant v in shop s writes, trigger included.
LedgerRows(v, s) ==
    {VariantRow(v, s), ShopRow(ProductOf[v], s), ProductRow(ProductOf[v])}

FreeFor(e, rows) == \A f \in Editor \ {e} : editor[f].locks \cap rows = {}
Free(rows)       == \A f \in Editor : editor[f].locks \cap rows = {}

EditStages ==
    {"idle", "row", "move", "cas", "prices", "sync", "write", "commit", "clear"}

Edit == [stage   : EditStages,
         product : Product,
         todo    : SUBSET Shop,   \* shops of the payload not yet processed
         shop    : Shop,          \* the shop being processed
         read    : Int,           \* quantity read, to be compared or rewritten
         pending : [Shop -> Int], \* uncommitted change of the default variant
         locks   : SUBSET Row]

NoChange == [s \in Shop |-> 0]

Init ==
    /\ variantStock = [v \in Variant |-> [s \in Shop |-> 0]]
    /\ shopStock = [p \in Product |-> [s \in Shop |-> 0]]
    /\ productQuantity = [p \in Product |-> 0]
    /\ lowStockFlag = [p \in Product |-> [s \in Shop |-> FALSE]]
    /\ services = {}
    /\ editor = [e \in Editor |->
                   [stage |-> "idle", product |-> CHOOSE p \in Product : TRUE,
                    todo |-> {}, shop |-> CHOOSE s \in Shop : TRUE, read |-> 0,
                    pending |-> NoChange, locks |-> {}]]

-----------------------------------------------------------------------------
(* Serializable transactions on the ledger.                                *)

\* stock_on_variant_stock_change: the shop row and the product row follow.
TriggeredTotal(v, d) ==
    productQuantity' = [productQuantity EXCEPT ![ProductOf[v]] = @ + d]

\* Mutant: a trigger that fires on UPDATE and not on the INSERT of a first row.
ChangeVariantStockOnUpdate(v, s, d) ==
    /\ Free(LedgerRows(v, s))
    /\ variantStock' = [variantStock EXCEPT ![v][s] = @ + d]
    /\ shopStock' = IF variantStock[v][s] = 0 THEN shopStock
                    ELSE [shopStock EXCEPT ![ProductOf[v]][s] = @ + d]

ChangeVariantStock(v, s, d) ==
    /\ Free(LedgerRows(v, s))
    /\ variantStock' = [variantStock EXCEPT ![v][s] = @ + d]
    /\ shopStock' = [shopStock EXCEPT ![ProductOf[v]][s] = @ + d]

\* Services that also rewrite Product.quantity with the sum of its shops.
RecountedTotal(v) ==
    productQuantity' = [productQuantity EXCEPT
                          ![ProductOf[v]] = SumOver(shopStock'[ProductOf[v]], Shop)]

\* moveVariantStock with a negative delta: the conditional decrement.
HasStock(v, s, q) == variantStock[v][s] >= q

\* Bound: stock is raised to MaxQuantity.
RoomFor(v, s, d) ==
    /\ variantStock[v][s] + d <= MaxQuantity
    /\ shopStock[ProductOf[v]][s] + d <= MaxQuantity

\* moveVariantStock with a positive delta: purchase order, return, cancelled sale.
Receive(v, s, q) ==
    /\ RoomFor(v, s, q)
    /\ ChangeVariantStock(v, s, q)
    /\ TriggeredTotal(v, q)
    /\ UNCHANGED <<lowStockFlag, editor, services>>

\* moveVariantStock with a negative delta: a cancelled return.
TakeOut(v, s, q) ==
    /\ HasStock(v, s, q)
    /\ ChangeVariantStock(v, s, -q)
    /\ TriggeredTotal(v, -q)
    /\ UNCHANGED <<lowStockFlag, editor, services>>

\* postSaleStockDecrease: the flag is set by the sale that crosses the
\* threshold downwards and services by a sale that leaves the shop above it.
SalePosting(v, s, q) ==
    /\ HasStock(v, s, q)
    /\ ChangeVariantStock(v, s, -q)
    /\ LET p == ProductOf[v]
           before == shopStock[p][s]
           after == before - q
       IN  lowStockFlag' = [lowStockFlag EXCEPT ![p][s] =
             IF Threshold > 0 /\ before >= Threshold /\ after < Threshold
               THEN TRUE
               ELSE @ /\ ~(Threshold > 0 /\ after >= Threshold)]
    /\ UNCHANGED <<editor, services>>

PostSale(v, s, q) == SalePosting(v, s, q) /\ TriggeredTotal(v, -q)

\* OrdersService.complete posts the same way and recounts the product.
CompleteOrder(v, s, q) == SalePosting(v, s, q) /\ RecountedTotal(v)

\* One counted item of an approved inventory, or one line of a transfer that is
\* sent (d < 0), accepted or cancelled (d > 0).
MoveAndRecount(v, s, d) ==
    /\ d < 0 => HasStock(v, s, -d)
    /\ RoomFor(v, s, d)
    /\ ChangeVariantStock(v, s, d)
    /\ RecountedTotal(v)
    /\ UNCHANGED <<lowStockFlag, editor, services>>

-----------------------------------------------------------------------------
(* updateCatalogProduct of a simple product, statement by statement.       *)

\* Reads the product (its quantity included); `payload` are the shops whose
\* quantities the form sends, none when only other fields are edited.  Bound: no form
\* begins on a product that has become a service.
BeginEdit(e, p, payload) ==
    /\ editor[e].stage = "idle"
    /\ productQuantity[p] \in 0 .. MaxTotal /\ p \notin services
    /\ editor' = [editor EXCEPT ![e] =
                    [@ EXCEPT !.stage = "row", !.product = p, !.todo = payload,
                              !.read = productQuantity[p]]]
    /\ UNCHANGED tables

\* prisma.product.update writes the quantity it has read back to the row.
WriteProductFields(e) ==
    LET p == editor[e].product
    IN  /\ editor[e].stage = "row"
        /\ Free({ProductRow(p)})
        /\ productQuantity' = [productQuantity EXCEPT ![p] = editor[e].read]
        /\ editor' = [editor EXCEPT ![e] =
                        [@ EXCEPT !.read = 0,
                                  !.stage = IF editor[e].todo = {} THEN "idle" ELSE "move"]]
        /\ UNCHANGED <<variantStock, shopStock, lowStockFlag, services>>

\* The form makes the product a service or a kit, which have no stock: the total is 0,
\* and if quantities are `sent` the statement also deletes the shop rows.
WriteServiceFields(e, sent) ==
    LET p == editor[e].product
    IN  /\ editor[e].stage = "row"
        /\ editor[e].todo # {} => sent
        /\ Free({ProductRow(p)})
        /\ sent => Free({ShopRow(p, s) : s \in Shop})
        /\ productQuantity' = [productQuantity EXCEPT ![p] = 0]
        /\ shopStock' = IF sent THEN [shopStock EXCEPT ![p] = NoChange] ELSE shopStock
        /\ lowStockFlag' = IF sent THEN [lowStockFlag EXCEPT ![p] = [s \in Shop |-> FALSE]]
                           ELSE lowStockFlag
        /\ services' = services \cup {p}
        /\ editor' = [editor EXCEPT ![e] =
                        [@ EXCEPT !.read = 0, !.todo = {},
                                  !.stage = IF sent THEN "clear" ELSE "idle"]]
        /\ UNCHANGED variantStock

VariantsOf(p) == {v \in Variant : ProductOf[v] = p}
StockIn(p, s) == SumOver([v \in Variant |-> variantStock[v][s]], VariantsOf(p))

\* productVariantStock.deleteMany, a statement of its own.  The trigger takes what is
\* deleted from the total, and from the shop rows that somebody has created since.
ClearVariants(e) ==
    LET p == editor[e].product
    IN  /\ editor[e].stage = "clear"
        /\ \A v \in VariantsOf(p), s \in Shop :
              variantStock[v][s] # 0 => Free(LedgerRows(v, s))
        /\ variantStock' = [v \in Variant |->
              IF v \in VariantsOf(p) THEN NoChange ELSE variantStock[v]]
        /\ \E there \in SUBSET Shop :
              /\ \A s \in Shop \ there : shopStock[p][s] = 0
              /\ shopStock' = [shopStock EXCEPT ![p] =
                   [s \in Shop |-> IF s \in there THEN @[s] - StockIn(p, s) ELSE @[s]]]
        /\ productQuantity' = [productQuantity EXCEPT ![p] =
              @ - SumOver([s \in Shop |-> StockIn(p, s)], Shop)]
        /\ editor' = [editor EXCEPT ![e].stage = "idle"]
        /\ UNCHANGED <<lowStockFlag, services>>

\* A statement of e adds d to its variant in shop s and locks the rows; a
\* statement that changes nothing locks nothing.
Pending(e, s, d) == [editor[e].pending EXCEPT ![s] = @ + d]
Locks(e, d, rows) == editor[e].locks \cup (IF d = 0 THEN {} ELSE rows)

Quantity(e, s) ==
    variantStock[DefaultVariant[editor[e].product]][s] + editor[e].pending[s]

\* applySimpleProductStockEdits, moveVariantStock by quantity - originalQuantity.
EditByDelta(e, s, d) ==
    LET rows == LedgerRows(DefaultVariant[editor[e].product], s)
    IN  /\ editor[e].stage = "move"
        /\ s \in editor[e].todo
        /\ d # 0 => FreeFor(e, rows)
        /\ Quantity(e, s) + d \in 0 .. MaxQuantity
        /\ editor' = [editor EXCEPT ![e] =
                        [@ EXCEPT !.stage = "prices", !.shop = s,
                                  !.pending = Pending(e, s, d),
                                  !.locks = Locks(e, d, rows)]]
        /\ UNCHANGED tables

\* setVariantStock, first statement: the current quantity is read.
ReadForSet(e, s) ==
    /\ editor[e].stage = "move"
    /\ s \in editor[e].todo
    /\ editor' = [editor EXCEPT ![e] =
                    [@ EXCEPT !.stage = "cas", !.shop = s, !.read = Quantity(e, s)]]
    /\ UNCHANGED tables

\* Mutant: set without the comparison.
StillAsReadBlind(e, s) == TRUE

\* The condition of the update: the quantity is still the one read.
StillAsRead(e, s) == Quantity(e, s) = editor[e].read

\* setVariantStock, second statement: compare and set, or nothing to write.
CompareAndSet(e, q) ==
    LET s == editor[e].shop
        d == q - editor[e].read
        rows == LedgerRows(DefaultVariant[editor[e].product], s)
    IN  /\ editor[e].stage = "cas"
        /\ d # 0 => FreeFor(e, rows) /\ StillAsRead(e, s)
        /\ editor' = [editor EXCEPT ![e] =
                        [@ EXCEPT !.stage = "prices", !.read = 0,
                                  !.pending = Pending(e, s, d),
                                  !.locks = Locks(e, d, rows)]]
        /\ UNCHANGED tables

\* The per-shop prices: both rows are updated, those that exist are locked.
WritePrices(e) ==
    LET s == editor[e].shop
        p == editor[e].product
        v == DefaultVariant[p]
        rest == editor[e].todo \ {s}
    IN  /\ editor[e].stage = "prices"
        /\ FreeFor(e, {VariantRow(v, s), ShopRow(p, s)})
        /\ \E missing \in SUBSET {VariantRow(v, s), ShopRow(p, s)} :
              /\ variantStock[v][s] # 0 => missing = {}
              /\ shopStock[p][s] # 0 => ShopRow(p, s) \notin missing
              /\ editor' = [editor EXCEPT ![e] =
                   [@ EXCEPT !.stage = IF rest = {} THEN "sync" ELSE "move",
                             !.todo = rest,
                             !.locks = editor[e].locks
                                   \cup ({VariantRow(v, s), ShopRow(p, s)} \ missing)]]
        /\ UNCHANGED tables

\* syncProductTotalQuantity reads every shop row, its own writes included ...
SumShops(e) ==
    LET p == editor[e].product
    IN  /\ editor[e].stage = "sync"
        /\ editor' = [editor EXCEPT ![e] =
             [@ EXCEPT !.stage = "write",
                       !.read = SumOver([s \in Shop |->
                                  shopStock[p][s] + editor[e].pending[s]], Shop)]]
        /\ UNCHANGED tables

\* ... and then writes the sum to the product row.
WriteTotal(e) ==
    LET row == ProductRow(editor[e].product)
    IN  /\ editor[e].stage = "write"
        /\ FreeFor(e, {row})
        /\ editor' = [editor EXCEPT ![e] =
             [@ EXCEPT !.stage = "commit", !.locks = editor[e].locks \cup {row}]]
        /\ UNCHANGED tables

Ended(e) == [editor EXCEPT ![e] =
               [@ EXCEPT !.stage = "idle", !.todo = {}, !.pending = NoChange,
                         !.locks = {}, !.read = 0]]

CommitEdit(e) ==
    LET p == editor[e].product
        v == DefaultVariant[p]
    IN  /\ editor[e].stage = "commit"
        /\ variantStock' = [variantStock EXCEPT ![v] =
                              [s \in Shop |-> @[s] + editor[e].pending[s]]]
        /\ shopStock' = [shopStock EXCEPT ![p] =
                           [s \in Shop |-> @[s] + editor[e].pending[s]]]
        /\ productQuantity' = [productQuantity EXCEPT ![p] = editor[e].read]
        /\ editor' = Ended(e)
        /\ UNCHANGED <<lowStockFlag, services>>

\* A rejected edit, a failed compare-and-set, a deadlock victim or a lost
\* connection: the transaction rolls back.  The product row stays as written.
AbortEdit(e) ==
    /\ editor[e].stage \in EditStages \ {"idle", "row"}
    /\ editor' = Ended(e)
    /\ UNCHANGED tables

-----------------------------------------------------------------------------
Quantities == 1 .. MaxQuantity

Transaction ==
    \E v \in Variant, s \in Shop, q \in Quantities :
        \/ Receive(v, s, q)
        \/ TakeOut(v, s, q)
        \/ PostSale(v, s, q)
        \/ CompleteOrder(v, s, q)
        \/ MoveAndRecount(v, s, q)
        \/ MoveAndRecount(v, s, -q)

CatalogueStep(e) ==
    \/ \E p \in Product, payload \in SUBSET Shop : BeginEdit(e, p, payload)
    \/ WriteProductFields(e)
    \/ \E sent \in BOOLEAN : WriteServiceFields(e, sent)
    \/ ClearVariants(e)
    \/ \E s \in Shop : \/ \E d \in -MaxQuantity .. MaxQuantity : EditByDelta(e, s, d)
                       \/ ReadForSet(e, s)
    \/ \E q \in 0 .. MaxQuantity : CompareAndSet(e, q)
    \/ WritePrices(e)
    \/ SumShops(e)
    \/ WriteTotal(e)
    \/ CommitEdit(e)
    \/ AbortEdit(e)

Next == Transaction \/ \E e \in Editor : CatalogueStep(e)

Spec == Init /\ [][Next]_vars

-----------------------------------------------------------------------------
TypeOK ==
    /\ variantStock \in [Variant -> [Shop -> Int]]
    /\ shopStock \in [Product -> [Shop -> Int]]
    /\ productQuantity \in [Product -> Int]
    /\ lowStockFlag \in [Product -> [Shop -> BOOLEAN]]
    /\ editor \in [Editor -> Edit]
    /\ services \subseteq Product

\* No interleaving of sales, receipts, counts and catalogue edits takes a
\* variant below zero ("a take never goes below zero", stock-ledger.ts).
NeverNegative ==
    \A v \in Variant, s \in Shop : variantStock[v][s] >= 0

\* The shop row is the sum of its variants' rows, whoever moved them last, as long as
\* the product has stock.  The form that makes it a service deletes the shop rows and
\* the variants' rows in two statements, and a move in between creates a shop row that
\* starts from nothing (products.service.ts:5223, 5239).
ShopFollowsVariants ==
    \A p \in Product \ services, s \in Shop : shopStock[p][s] = StockIn(p, s)

\* Product.quantity is the sum of the shop rows.  It holds of the tills,
\* warehouse and orders alone; the catalogue form breaks it, also for a product that
\* has stock.
ProductFollowsShops ==
    \A p \in Product \ services : productQuantity[p] = SumOver(shopStock[p], Shop)

\* An edit that moved stock holds the product row from that move on, so the
\* sum it writes is exact when it commits: every other stock change of the
\* product has waited, in any shop.
MovedEditCommitsExactTotal ==
    [][\A e \in Editor :
         editor[e].pending # NoChange /\ CommitEdit(e) =>
           productQuantity'[editor[e].product]
             = SumOver(shopStock'[editor[e].product], Shop)]_vars

=============================================================================
