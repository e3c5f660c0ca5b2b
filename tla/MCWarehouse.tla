---------------------------- MODULE MCWarehouse ----------------------------
(***************************************************************************)
(* The documents of the warehouse, which share no table but the stock:     *)
(* counts, the counts of imports, supplier invoices, purchase orders and   *)
(* the journal of movements; and the shops of an employee, which every one *)
(* of their requests works out.  Each run of the system is about one of    *)
(* them, chosen at the start; the others stay.                             *)
(***************************************************************************)
EXTENDS Inventory, Stocktaking, SupplierInvoices, Movements, PurchaseOrders,
        Employees, TLC

CONSTANTS c1, c2, l1, l2, g1, g2, a1, a2, b1

VARIABLE part

documentVars == <<invoiceVars, movementVars, purchaseVars>>
warehouseVars == <<part, inventoryVars, stocktakingVars, documentVars, employeeVars>>

WarehouseInit ==
    /\ part \in {"count", "stocktaking", "invoice", "journal", "purchase", "employee"}
    /\ InventoryInit /\ StocktakingInit /\ InvoiceInit /\ MovementInit
    /\ PurchaseInit /\ EmployeeInit
    /\ part # "count" => \A i \in Item : book[i] = 0 /\ shelf[i] = 0
    /\ part # "purchase" => \A g \in Goods : ordered[g] = 1
    /\ user.company = CompanyOf[a1] /\ (part # "employee" => user.access = {} /\ user.admin)

WarehouseNext ==
    \/ part = "count" /\ InventoryNext
       /\ UNCHANGED <<part, stocktakingVars, documentVars, employeeVars>>
    \/ part = "stocktaking" /\ StocktakingNext
       /\ UNCHANGED <<part, inventoryVars, documentVars, employeeVars>>
    \/ part = "invoice" /\ InvoiceNext
       /\ UNCHANGED <<part, inventoryVars, stocktakingVars, movementVars,
                      purchaseVars, employeeVars>>
    \/ part = "journal" /\ MovementNext
       /\ UNCHANGED <<part, inventoryVars, stocktakingVars, invoiceVars,
                      purchaseVars, employeeVars>>
    \/ part = "purchase" /\ PurchaseNext
       /\ UNCHANGED <<part, inventoryVars, stocktakingVars, invoiceVars,
                      movementVars, employeeVars>>
    \/ part = "employee" /\ EmployeeNext
       /\ UNCHANGED <<part, inventoryVars, stocktakingVars, documentVars>>

WarehouseSpec == WarehouseInit /\ [][WarehouseNext]_warehouseVars

\* Sessions, scanners, the objects of counts, lines, rows and administrators are
\* interchangeable (invariants only).  A behaviour is about one part, so the pairs of
\* different parts are swapped at once.
Swap(S, all) == [x \in S |-> IF all THEN CHOOSE y \in S : y # x ELSE x]
WarehouseSymmetry ==
    {Swap(Count, all) @@ Swap(Scanner, all) @@ Swap(Object, objects)
        @@ Swap(InvoiceLine, all) @@ Swap(Goods, all) @@ Swap(Administrator, all) :
        all \in BOOLEAN, objects \in BOOLEAN}

WarehouseTypeOK ==
    CASE part = "count" -> InventoryTypeOK
      [] part = "stocktaking" -> StocktakingTypeOK
      [] part = "invoice" -> InvoiceTypeOK
      [] part = "journal" -> MovementTypeOK
      [] part = "purchase" -> PurchaseTypeOK
      [] part = "employee" -> EmployeeTypeOK

(* What was counted is what the books and the screens say: after an approval
   the books of a count, and what clerks scanned of an import. *)
CountsAreKept ==
    CASE part = "count" -> ApprovedMatchesShelf
      [] part = "stocktaking" -> CountShowsScans
      [] OTHER -> TRUE

(* What came in is what the papers say: a committed invoice has brought in its
   lines, and the journal of movements explains the stock. *)
PapersMatchStock ==
    CASE part = "invoice" -> ReceiptsFollowStatus
      [] part = "journal" -> JournalExplainsStock
      [] OTHER -> TRUE

\* The file promises one unit of each item.
ModelExpected == [i \in ImportItem |-> 1]

\* A company with two shops and one with a single shop.
ModelCompanyOf == [s \in Shop |-> IF s = b1 THEN "B" ELSE "A"]

=============================================================================
