-------------------------- MODULE WarehouseProofs ---------------------------
(***************************************************************************)
(* The documents of the warehouse and the shops of an employee, for any    *)
(* number of items, lines, shops, clerks, requests and managers: one       *)
(* inductive invariant per component, then the composition, whose steps    *)
(* are steps of one component.                                             *)
(***************************************************************************)
EXTENDS MCWarehouse, TotalsTheorems, SequenceTheorems

-----------------------------------------------------------------------------
(* The status of an order to a supplier.  StatusTellsReceipts is inductive on its
   own, on top of the types. *)
PurchaseInv == PurchaseTypeOK /\ StatusTellsReceipts

\* A new order: nothing has come.
LEMMA PurchaseBegins == PurchaseInit => PurchaseInv
<1> SUFFICES ASSUME PurchaseInit PROVE PurchaseInv
  OBVIOUS
<1>1. 0 \in 0 .. MaxOrdered /\ 0 \in Nat
  BY PurchaseAssumption
<1>2. /\ received \in [Goods -> 0 .. MaxOrdered]
      /\ posted \in [Goods -> Nat]
      /\ \A g \in Goods : received[g] = 0
      /\ posted = received
  BY <1>1 DEF PurchaseInit
<1>3. PurchaseTypeOK
  BY <1>2 DEF PurchaseInit, PurchaseTypeOK, PurchaseStatus
<1>4. \A g \in Goods : ordered[g] \in Nat
  <2>1. ordered \in [Goods -> 0 .. MaxOrdered]
    BY DEF PurchaseInit, OrderedRows
  <2>2. 0 .. MaxOrdered \subseteq Nat
    BY PurchaseAssumption
  <2> QED BY <2>1, <2>2
<1>5. StatusTellsReceipts
  BY <1>2, <1>4 DEF PurchaseInit, StatusTellsReceipts
<1> QED BY <1>3, <1>5 DEF PurchaseInv

\* Every handler keeps the types; what a delivery may add is bounded by Fits.
LEMMA PurchaseTypesKept ==
    PurchaseInv /\ [PurchaseNext]_purchaseVars => PurchaseTypeOK'
<1> SUFFICES ASSUME PurchaseInv, [PurchaseNext]_purchaseVars PROVE PurchaseTypeOK'
  OBVIOUS
<1> USE PurchaseAssumption
<1>1. PurchaseTypeOK
  BY DEF PurchaseInv
<1>2. ASSUME NEW new \in OrderedRows, UpdatePurchase(new) PROVE PurchaseTypeOK'
  BY <1>1, <1>2 DEF UpdatePurchase, PurchaseTypeOK
<1>3. ASSUME NEW delivery \in OrderedRows, Receive(delivery) PROVE PurchaseTypeOK'
  <2>1. delivery \in [Goods -> 0 .. MaxOrdered] /\ ordered \in [Goods -> 0 .. MaxOrdered]
    BY <1>1 DEF OrderedRows, PurchaseTypeOK
  <2>2. \A g \in Goods : received[g] + delivery[g] \in 0 .. MaxOrdered
    <3> TAKE g \in Goods
    <3>1. /\ received[g] \in 0 .. MaxOrdered
          /\ delivery[g] \in 0 .. MaxOrdered
          /\ ordered[g] \in 0 .. MaxOrdered
      BY <1>1, <2>1 DEF PurchaseTypeOK
    <3>2. received[g] + delivery[g] <= ordered[g]
      BY <1>3 DEF Receive, Fits
    <3> QED BY <3>1, <3>2
  <2>3. received' \in [Goods -> 0 .. MaxOrdered]
    BY <1>3, <2>2 DEF Receive
  <2>4. \A g \in Goods : posted[g] + delivery[g] \in Nat
    BY <1>1, <2>1 DEF PurchaseTypeOK
  <2>5. posted' \in [Goods -> Nat]
    BY <1>3, <2>4 DEF Receive
  <2>6. purchase' \in PurchaseStatus /\ ordered' = ordered /\ closed' = closed
    BY <1>3 DEF Receive, PurchaseStatus
  <2> QED BY <1>1, <2>3, <2>5, <2>6 DEF PurchaseTypeOK
<1>4. ASSUME SendPurchase \/ CancelPurchase \/ ClosePurchase PROVE PurchaseTypeOK'
  BY <1>1, <1>4 DEF SendPurchase, CancelPurchase, ClosePurchase, Moves, PurchaseTypeOK,
                    PurchaseStatus
<1>5. CASE UNCHANGED purchaseVars
  BY <1>1, <1>5 DEF purchaseVars, PurchaseTypeOK
<1> QED BY <1>2, <1>3, <1>4, <1>5 DEF PurchaseNext

\* A delivery: at least one row comes, none beyond what was ordered.
LEMMA DeliveryKeepsStatus ==
    ASSUME PurchaseInv, PurchaseTypeOK', NEW delivery \in OrderedRows, Receive(delivery)
    PROVE  StatusTellsReceipts'
<1>1. PurchaseTypeOK /\ StatusTellsReceipts
  BY DEF PurchaseInv
<1>2. PICK g \in Goods : delivery[g] > 0
  BY DEF OrderedRows
<1>3. delivery \in [Goods -> 0 .. MaxOrdered] /\ ordered \in [Goods -> 0 .. MaxOrdered]
  BY <1>1 DEF OrderedRows, PurchaseTypeOK
<1>4. \A h \in Goods : received'[h] = received[h] + delivery[h]
                       /\ posted'[h] = posted[h] + delivery[h]
                       /\ received'[h] <= ordered'[h]
  BY DEF Receive, Fits
<1>5. \A h \in Goods : /\ received[h] \in Nat /\ delivery[h] \in Nat /\ ordered'[h] \in Nat
                       /\ received'[h] \in Nat
  BY <1>1, <1>3, PurchaseAssumption DEF PurchaseTypeOK, Receive
<1>6. posted' = received'
  BY <1>1 DEF Receive, StatusTellsReceipts
<1>7. received'[g] > 0
  BY <1>2, <1>4, <1>5
<1>8. AllArrived <=> \A h \in Goods : received'[h] = ordered'[h]
  BY <1>4, <1>5 DEF AllArrived
<1>9. purchase' = IF AllArrived THEN "RECEIVED" ELSE "PARTIAL"
  BY DEF Receive
<1> QED BY <1>4, <1>6, <1>7, <1>8, <1>9 DEF StatusTellsReceipts

\* What every handler leaves of an order tells what has come.
LEMMA PurchaseStatusKept ==
    PurchaseInv /\ PurchaseTypeOK' /\ [PurchaseNext]_purchaseVars => StatusTellsReceipts'
<1> SUFFICES ASSUME PurchaseInv, PurchaseTypeOK', [PurchaseNext]_purchaseVars
             PROVE  StatusTellsReceipts'
  OBVIOUS
<1>1. PurchaseTypeOK /\ StatusTellsReceipts
  BY DEF PurchaseInv
<1>2. ASSUME NEW new \in OrderedRows, UpdatePurchase(new) PROVE StatusTellsReceipts'
  <2>1. \A g \in Goods : received[g] \in Nat /\ ~(received[g] > 0)
    BY <1>1, <1>2, PurchaseAssumption
       DEF UpdatePurchase, PurchaseTypeOK, StatusTellsReceipts
  <2>2. received \in [Goods -> 0 .. MaxOrdered] /\ posted = received
    BY <1>1 DEF PurchaseTypeOK, StatusTellsReceipts
  <2>3. received = [g \in Goods |-> 0]
    <3>1. \A g \in Goods : received[g] = 0
      BY <2>1
    <3> QED BY <2>2, <3>1
  <2>4. /\ received' = [g \in Goods |-> 0] /\ posted' = [g \in Goods |-> 0]
        /\ purchase' = "DRAFT"
    BY <1>2, <2>2, <2>3 DEF UpdatePurchase
  <2>5. \A g \in Goods : ordered'[g] \in Nat
    BY PurchaseAssumption DEF PurchaseTypeOK, OrderedRows
  <2> QED BY <2>4, <2>5 DEF StatusTellsReceipts
<1>3. ASSUME NEW delivery \in OrderedRows, Receive(delivery) PROVE StatusTellsReceipts'
  BY <1>3, DeliveryKeepsStatus
<1>4. CASE SendPurchase
  BY <1>1, <1>4 DEF SendPurchase, Moves, StatusTellsReceipts
<1>5. CASE CancelPurchase
  BY <1>1, <1>5 DEF CancelPurchase, Moves, Cancellable, StatusTellsReceipts
<1>6. CASE ClosePurchase
  BY <1>1, <1>6 DEF ClosePurchase, Moves, StatusTellsReceipts
<1>7. CASE UNCHANGED purchaseVars
  BY <1>1, <1>7 DEF purchaseVars, StatusTellsReceipts
<1> QED BY <1>2, <1>3, <1>4, <1>5, <1>6, <1>7 DEF PurchaseNext

\* However an order is edited, sent, received in parts, closed or cancelled, its
\* status tells what has come, the stock got what the rows say, and no row got
\* more than was ordered.
THEOREM PurchaseStatusTells == PurchaseSpec => []StatusTellsReceipts
<1>1. PurchaseInit => PurchaseInv
  BY PurchaseBegins
<1>2. PurchaseInv /\ [PurchaseNext]_purchaseVars => PurchaseInv'
  BY PurchaseTypesKept, PurchaseStatusKept DEF PurchaseInv
<1>3. PurchaseInv => StatusTellsReceipts
  BY DEF PurchaseInv
<1> QED BY <1>1, <1>2, <1>3, PTL DEF PurchaseSpec

-----------------------------------------------------------------------------
(* The count of a shop.  That an approved count matches the shelf needs what the
   requests hold: the count a request has read is in the state it has seen, the
   differences are to the stock the count was based on, and one count at a time
   is made of an item. *)
\* A draft has no positions and no movements yet.
DraftsAreEmpty ==
    \A c \in Count : session[c].status = "DRAFT" =>
        \A i \in Item : moved[c][i] = 0 /\ position[c][i].state = "none"

MovedFromStock == \A c \in Count, i \in Item : book[i] - moved[c][i] \in Stock

StaffHold ==
    \A r \in Staff : staff[r].step # "idle" =>
        LET c == staff[r].count
            i == staff[r].item
        IN  /\ session[c].status # "DRAFT"
            /\ staff[r].step \in {"recount", "approveItem"} => position[c][i].state # "none"
            /\ staff[r].step = "add" /\ staff[r].based => book[i] = staff[r].snapshot + moved[c][i]

BasedHold ==
    \A c \in Count, i \in Item : position[c][i].state # "none" /\ position[c][i].based =>
        book[i] = position[c][i].snapshot + moved[c][i]

CountedAlone ==
    ~overwritten => \A c, d \in Count, i \in Item :
        c # d /\ {session[c].status, session[d].status} \subseteq Active
            /\ position[c][i].state # "none" /\ position[d][i].state # "none" => ~position[c][i].based

DeltaHolds ==
    ~overwritten => \A c \in Count, i \in Item :
        session[c].status \in Active /\ position[c][i].state # "none" /\ position[c][i].counted
            /\ position[c][i].based /\ position[c][i].honest => position[c][i].delta = shelf[i] - book[i]

InventoryInv ==
    /\ InventoryTypeOK /\ DraftsAreEmpty /\ MovedFromStock /\ StaffHold /\ BasedHold
    /\ CountedAlone /\ DeltaHolds /\ ApprovedMatchesShelf

LEMMA CountTypes ==
    ASSUME InventoryTypeOK
    PROVE  /\ \A c \in Count : /\ session[c].status \in SessionStatus
                               /\ session[c].full \in BOOLEAN /\ session[c].scope \in SUBSET Item
           /\ \A c \in Count, i \in Item :
                  /\ position[c][i] \in Positions
                  /\ position[c][i].snapshot \in Nat /\ position[c][i].snapshot <= MaxStock
                  /\ position[c][i].delta \in Int
                  /\ moved[c][i] \in Int /\ -MaxStock <= moved[c][i] /\ moved[c][i] <= MaxStock
           /\ \A i \in Item : /\ book[i] \in Nat /\ book[i] <= MaxStock
                              /\ shelf[i] \in Nat /\ shelf[i] <= MaxStock
           /\ \A r \in Staff : /\ staff[r] \in StaffRequests
                               /\ staff[r].count \in Count /\ staff[r].item \in Item
                               /\ staff[r].left \in SUBSET Item
                               /\ staff[r].snapshot \in Nat /\ staff[r].snapshot <= MaxStock
<1>0. MaxStock \in Nat
  BY InventoryAssumption
<1>1. \A c \in Count : session[c].status \in SessionStatus
                       /\ session[c].full \in BOOLEAN /\ session[c].scope \in SUBSET Item
  BY DEF InventoryTypeOK
<1>2. \A c \in Count, i \in Item : position[c][i] \in Positions
                                   /\ moved[c][i] \in -MaxStock .. MaxStock
  BY DEF InventoryTypeOK
<1>3. \A c \in Count, i \in Item : position[c][i].snapshot \in Stock
                                   /\ position[c][i].delta \in Differences
  BY <1>2 DEF Positions
<1>4. \A i \in Item : book[i] \in Stock /\ shelf[i] \in Stock
  BY DEF InventoryTypeOK
<1>5. \A r \in Staff : /\ staff[r] \in StaffRequests
                       /\ staff[r].count \in Count /\ staff[r].item \in Item
                       /\ staff[r].left \in SUBSET Item /\ staff[r].snapshot \in Stock
  BY DEF InventoryTypeOK, StaffRequests
<1> QED BY <1>0, <1>1, <1>2, <1>3, <1>4, <1>5 DEF Stock, Differences

LEMMA FreshTypes ==
    /\ NoPosition \in Positions /\ NoPosition.state = "none"
    /\ Free \in StaffRequests /\ Free.step = "idle"
    /\ 0 \in Stock /\ 0 \in Differences
<1>1. 0 \in Stock /\ 0 \in Differences
  BY InventoryAssumption DEF Stock, Differences
<1>2. (CHOOSE c \in Count : TRUE) \in Count /\ (CHOOSE i \in Item : TRUE) \in Item
  BY InventoryAssumption
<1> QED BY <1>1, <1>2 DEF NoPosition, Positions, Free, StaffRequests, StaffSteps, SessionStatus

LEMMA InventoryBegins == InventoryInit => InventoryInv
<1> SUFFICES ASSUME InventoryInit PROVE InventoryInv
  OBVIOUS
<1>1. 0 \in -MaxStock .. MaxStock
  BY InventoryAssumption
<1>2. InventoryTypeOK
  <2>1. session \in [Count -> [status : SessionStatus, full : BOOLEAN, scope : SUBSET Item]]
    BY DEF InventoryInit, SessionStatus
  <2>2. position \in [Count -> [Item -> Positions]] /\ staff \in [Staff -> StaffRequests]
    BY FreshTypes DEF InventoryInit
  <2>3. moved \in [Count -> [Item -> -MaxStock .. MaxStock]]
    BY <1>1 DEF InventoryInit
  <2> QED BY <2>1, <2>2, <2>3 DEF InventoryInit, InventoryTypeOK
<1>3. /\ \A c \in Count : session[c].status = "DRAFT"
      /\ \A c \in Count, i \in Item : position[c][i].state = "none" /\ moved[c][i] = 0
      /\ \A r \in Staff : staff[r].step = "idle"
      /\ repaired = {}
  BY FreshTypes DEF InventoryInit
<1>4. DraftsAreEmpty /\ StaffHold /\ BasedHold /\ CountedAlone /\ DeltaHolds /\ ApprovedMatchesShelf
  BY <1>3 DEF DraftsAreEmpty, StaffHold, BasedHold, CountedAlone, DeltaHolds, ApprovedMatchesShelf
<1>5. MovedFromStock
  <2> SUFFICES ASSUME NEW c \in Count, NEW i \in Item PROVE book[i] - moved[c][i] \in Stock
    BY DEF MovedFromStock
  <2>1. book[i] \in Int /\ book[i] \in Stock /\ moved[c][i] = 0
    BY <1>2, <1>3, CountTypes DEF InventoryTypeOK
  <2> QED BY <2>1
<1> QED BY <1>2, <1>4, <1>5 DEF InventoryInv

\* A request of the staff reads.
LEMMA AskKeeps ==
    ASSUME InventoryInv, NEW r \in Staff, NEW new \in StaffRequests, Ask(r, new),
           new.step # "idle" =>
               LET c == new.count
                   i == new.item
               IN  /\ session[c].status # "DRAFT"
                   /\ new.step \in {"recount", "approveItem"} => position[c][i].state # "none"
                   /\ new.step = "add" /\ new.based => book[i] = new.snapshot + moved[c][i]
    PROVE  InventoryInv'
<1>1. /\ staff' = [staff EXCEPT ![r] = new]
      /\ UNCHANGED <<session, position, moved, book, shelf, repaired, overwritten>>
  BY DEF Ask, countRows, goods, countHistory
<1>2. staff \in [Staff -> StaffRequests]
  BY DEF InventoryInv, InventoryTypeOK
<1>3. InventoryTypeOK'
  BY <1>1, <1>2 DEF InventoryInv, InventoryTypeOK
<1>4. StaffHold'
  <2> SUFFICES ASSUME NEW q \in Staff, staff'[q].step # "idle"
               PROVE  LET c == staff'[q].count
                          i == staff'[q].item
                      IN  /\ session[c].status # "DRAFT"
                          /\ staff'[q].step \in {"recount", "approveItem"} =>
                                 position[c][i].state # "none"
                          /\ staff'[q].step = "add" /\ staff'[q].based =>
                                 book[i] = staff'[q].snapshot + moved[c][i]
    BY <1>1 DEF StaffHold
  <2>1. CASE q = r
    <3>1. staff'[q] = new
      BY <1>1, <1>2, <2>1
    <3> QED BY <3>1
  <2>2. CASE q # r
    <3>1. staff'[q] = staff[q]
      BY <1>1, <1>2, <2>2
    <3> QED BY <3>1 DEF InventoryInv, StaffHold
  <2> QED BY <2>1, <2>2
<1>5. /\ DraftsAreEmpty' /\ MovedFromStock' /\ BasedHold' /\ CountedAlone' /\ DeltaHolds'
      /\ ApprovedMatchesShelf'
  BY <1>1 DEF InventoryInv, DraftsAreEmpty, MovedFromStock, BasedHold, CountedAlone, DeltaHolds,
              ApprovedMatchesShelf
<1> QED BY <1>3, <1>4, <1>5 DEF InventoryInv

\* Only the header of a draft is written, or a count is cancelled.
LEMMA HeaderKeeps ==
    ASSUME InventoryInv, NEW c \in Count,
           session' \in [Count -> [status : SessionStatus, full : BOOLEAN, scope : SUBSET Item]],
           \A d \in Count : \/ session'[d].status = session[d].status
                            \/ session'[d].status = "CANCELED",
           UNCHANGED <<position, moved, goods, staff, countHistory>>
    PROVE  InventoryInv'
<1>1. UNCHANGED <<position, moved, book, shelf, staff, repaired, overwritten>>
  BY DEF goods, countHistory
<1>2. InventoryTypeOK'
  BY <1>1 DEF InventoryInv, InventoryTypeOK
<1>3. \A d \in Count : /\ session'[d].status = "DRAFT" => session[d].status = "DRAFT"
                       /\ session'[d].status \in Active => session[d].status \in Active
                       /\ session[d].status # "DRAFT" => session'[d].status # "DRAFT"
  BY DEF Active
<1>4. \A r \in Staff : staff[r].count \in Count
  BY CountTypes DEF InventoryInv
<1>5. StaffHold'
  BY <1>1, <1>3, <1>4 DEF InventoryInv, StaffHold
<1>6. DraftsAreEmpty' /\ MovedFromStock' /\ BasedHold' /\ ApprovedMatchesShelf'
  BY <1>1, <1>3 DEF InventoryInv, DraftsAreEmpty, MovedFromStock, BasedHold, ApprovedMatchesShelf
<1>7. CountedAlone' /\ DeltaHolds'
  BY <1>1, <1>3 DEF InventoryInv, CountedAlone, DeltaHolds
<1> QED BY <1>2, <1>5, <1>6, <1>7 DEF InventoryInv

\* A draft is edited or made anew.
LEMMA DraftKeeps ==
    ASSUME InventoryInv, NEW c \in Count, NEW full \in BOOLEAN, NEW scope \in SUBSET Item,
           EditDraft(c, full, scope)
    PROVE  InventoryInv'
<1>1. session \in [Count -> [status : SessionStatus, full : BOOLEAN, scope : SUBSET Item]]
  BY DEF InventoryInv, InventoryTypeOK
<1>2. session' = [session EXCEPT ![c].full = full, ![c].scope = IF full THEN Item ELSE scope]
  BY DEF EditDraft
<1>3. session' \in [Count -> [status : SessionStatus, full : BOOLEAN, scope : SUBSET Item]]
  BY <1>1, <1>2
<1>4. \A d \in Count : session'[d].status = session[d].status
  BY <1>1, <1>2
<1> QED BY <1>3, <1>4, HeaderKeeps DEF EditDraft

\* Cancelling only closes the count.
LEMMA CancelKeeps ==
    ASSUME InventoryInv, NEW c \in Count, CancelCount(c)
    PROVE  InventoryInv'
<1>1. session \in [Count -> [status : SessionStatus, full : BOOLEAN, scope : SUBSET Item]]
  BY DEF InventoryInv, InventoryTypeOK
<1>2. session' = [session EXCEPT ![c].status = "CANCELED"]
  BY DEF CancelCount
<1>3. session' \in [Count -> [status : SessionStatus, full : BOOLEAN, scope : SUBSET Item]]
  BY <1>1, <1>2 DEF SessionStatus
<1>4. \A d \in Count : session'[d].status \in {session[d].status, "CANCELED"}
  BY <1>1, <1>2
<1> QED BY <1>3, <1>4, HeaderKeeps DEF CancelCount

\* The books and the movements of every running count change by the same amounts.
LEMMA MovedTogether ==
    ASSUME InventoryInv, NEW by \in [Item -> Int],
           book' \in [Item -> Stock], \A i \in Item : book'[i] = book[i] + by[i],
           moved' = [c \in Count |-> IF session[c].status = "DRAFT" THEN moved[c]
                                     ELSE [i \in Item |-> moved[c][i] + by[i]]]
    PROVE  /\ moved' \in [Count -> [Item -> -MaxStock .. MaxStock]]
           /\ \A c \in Count, i \in Item :
                  /\ book'[i] - moved'[c][i] \in Stock
                  /\ session[c].status # "DRAFT" => moved'[c][i] = moved[c][i] + by[i]
                  /\ session[c].status = "DRAFT" => moved'[c][i] = moved[c][i]
<1>1. moved \in [Count -> [Item -> -MaxStock .. MaxStock]] /\ MaxStock \in Nat
  BY InventoryAssumption DEF InventoryInv, InventoryTypeOK
<1>2. \A c \in Count, i \in Item :
          moved'[c][i] = IF session[c].status = "DRAFT" THEN moved[c][i] ELSE moved[c][i] + by[i]
  BY <1>1
<1>3. \A c \in Count, i \in Item : book'[i] - moved'[c][i] \in Stock
  <2> SUFFICES ASSUME NEW c \in Count, NEW i \in Item PROVE book'[i] - moved'[c][i] \in Stock
    OBVIOUS
  <2>1. /\ book[i] \in Int /\ moved[c][i] \in Int /\ by[i] \in Int /\ book'[i] = book[i] + by[i]
        /\ book'[i] \in Stock /\ book'[i] \in Int
    BY CountTypes DEF InventoryInv, Stock
  <2>2. CASE session[c].status = "DRAFT"
    <3>1. moved'[c][i] = 0
      BY <1>2, <2>2 DEF InventoryInv, DraftsAreEmpty
    <3> QED BY <2>1, <3>1
  <2>3. CASE session[c].status # "DRAFT"
    <3>1. moved'[c][i] = moved[c][i] + by[i]
      BY <1>2, <2>3
    <3>2. book[i] - moved[c][i] \in Stock
      BY DEF InventoryInv, MovedFromStock
    <3>3. book'[i] - moved'[c][i] = book[i] - moved[c][i]
      BY <2>1, <3>1
    <3> QED BY <3>2, <3>3
  <2> QED BY <2>2, <2>3
<1>4. \A c \in Count, i \in Item : moved'[c][i] \in -MaxStock .. MaxStock
  <2> SUFFICES ASSUME NEW c \in Count, NEW i \in Item PROVE moved'[c][i] \in -MaxStock .. MaxStock
    OBVIOUS
  <2>1. book'[i] \in 0 .. MaxStock /\ book'[i] - moved'[c][i] \in 0 .. MaxStock
    BY <1>3 DEF Stock
  <2>2. moved'[c][i] \in Int
    <3>1. moved[c][i] \in Int /\ by[i] \in Int
      BY CountTypes DEF InventoryInv
    <3> QED BY <1>2, <3>1
  <2> QED BY <1>1, <2>1, <2>2
<1>5. moved' \in [Count -> [Item -> -MaxStock .. MaxStock]]
  <2>1. \A c \in Count : moved'[c] \in [Item -> -MaxStock .. MaxStock]
    BY <1>1, <1>4
  <2> QED BY <2>1
<1> QED BY <1>2, <1>3, <1>5

\* Goods come and go on the shelf and in the books.
LEMMA TradeKeeps ==
    ASSUME InventoryInv, NEW i \in Item, NEW n \in {-1, 1}, Trade(i, n)
    PROVE  InventoryInv'
<1> DEFINE by == [x \in Item |-> IF x = i THEN n ELSE 0]
<1>1. /\ book \in [Item -> Stock] /\ shelf \in [Item -> Stock]
      /\ moved \in [Count -> [Item -> -MaxStock .. MaxStock]]
      /\ \A x \in Item : book[x] \in Int /\ shelf[x] \in Int
  BY CountTypes DEF InventoryInv, InventoryTypeOK
<1>2. /\ book[i] + n \in Stock /\ shelf[i] + n \in Stock
      /\ book' = [book EXCEPT ![i] = @ + n] /\ shelf' = [shelf EXCEPT ![i] = @ + n]
      /\ moved' = [c \in Count |-> IF session[c].status = "DRAFT" THEN moved[c]
                                   ELSE [moved[c] EXCEPT ![i] = @ + n]]
      /\ UNCHANGED <<session, position, staff, repaired, overwritten>>
  BY DEF Trade, countHistory
<1>3. by \in [Item -> Int] /\ \A x \in Item : by[x] \in Int
  OBVIOUS
<1>4. /\ book' \in [Item -> Stock] /\ shelf' \in [Item -> Stock]
      /\ \A x \in Item : book'[x] = book[x] + by[x] /\ shelf'[x] = shelf[x] + by[x]
  <2>1. book' \in [Item -> Stock] /\ shelf' \in [Item -> Stock]
    BY <1>1, <1>2
  <2>2. \A x \in Item : book'[x] = book[x] + by[x]
    BY <1>1, <1>2
  <2>3. \A x \in Item : shelf'[x] = shelf[x] + by[x]
    BY <1>1, <1>2
  <2> QED BY <2>1, <2>2, <2>3
<1>5. \A c \in Count : [moved[c] EXCEPT ![i] = @ + n] = [x \in Item |-> moved[c][x] + by[x]]
  <2> SUFFICES ASSUME NEW c \in Count
               PROVE  [moved[c] EXCEPT ![i] = @ + n] = [x \in Item |-> moved[c][x] + by[x]]
    OBVIOUS
  <2>1. moved[c] \in [Item -> -MaxStock .. MaxStock] /\ \A x \in Item : moved[c][x] \in Int
    BY <1>1, CountTypes DEF InventoryInv
  <2> QED BY <2>1
<1>6. moved' = [c \in Count |-> IF session[c].status = "DRAFT" THEN moved[c]
                                ELSE [x \in Item |-> moved[c][x] + by[x]]]
  <2> HIDE DEF by
  <2> QED BY <1>2, <1>5
<1> HIDE DEF by
<1>7. /\ moved' \in [Count -> [Item -> -MaxStock .. MaxStock]]
      /\ \A c \in Count, x \in Item :
             /\ book'[x] - moved'[c][x] \in Stock
             /\ session[c].status # "DRAFT" => moved'[c][x] = moved[c][x] + by[x]
             /\ session[c].status = "DRAFT" => moved'[c][x] = moved[c][x]
  BY <1>3, <1>4, <1>6, MovedTogether
<1>8. InventoryTypeOK'
  BY <1>2, <1>4, <1>7 DEF InventoryInv, InventoryTypeOK
<1>9. DraftsAreEmpty' /\ MovedFromStock' /\ CountedAlone'
  BY <1>2, <1>7 DEF InventoryInv, DraftsAreEmpty, MovedFromStock, CountedAlone
<1>10. BasedHold'
  <2> SUFFICES ASSUME NEW c \in Count, NEW x \in Item,
                      position[c][x].state # "none", position[c][x].based
               PROVE  book'[x] = position[c][x].snapshot + moved'[c][x]
    BY <1>2 DEF BasedHold
  <2>1. book[x] = position[c][x].snapshot + moved[c][x] /\ session[c].status # "DRAFT"
    BY DEF InventoryInv, BasedHold, DraftsAreEmpty
  <2>2. moved'[c][x] = moved[c][x] + by[x] /\ book'[x] = book[x] + by[x]
    BY <1>4, <1>7, <2>1
  <2>3. position[c][x].snapshot \in Int /\ moved[c][x] \in Int /\ by[x] \in Int
    BY <1>3, CountTypes DEF InventoryInv
  <2> QED BY <2>1, <2>2, <2>3
<1>11. StaffHold'
  <2> SUFFICES ASSUME NEW r \in Staff, staff[r].step # "idle"
               PROVE  LET c == staff[r].count
                          x == staff[r].item
                      IN  /\ session[c].status # "DRAFT"
                          /\ staff[r].step \in {"recount", "approveItem"} =>
                                 position[c][x].state # "none"
                          /\ staff[r].step = "add" /\ staff[r].based =>
                                 book'[x] = staff[r].snapshot + moved'[c][x]
    BY <1>2 DEF StaffHold
  <2> DEFINE c == staff[r].count
             x == staff[r].item
  <2>1. c \in Count /\ x \in Item /\ staff[r].snapshot \in Int
    BY CountTypes DEF InventoryInv
  <2>2. /\ session[c].status # "DRAFT"
        /\ staff[r].step \in {"recount", "approveItem"} => position[c][x].state # "none"
        /\ staff[r].step = "add" /\ staff[r].based => book[x] = staff[r].snapshot + moved[c][x]
    BY DEF InventoryInv, StaffHold
  <2>3. moved'[c][x] = moved[c][x] + by[x] /\ book'[x] = book[x] + by[x]
    BY <1>4, <1>7, <2>1, <2>2
  <2>4. moved[c][x] \in Int /\ by[x] \in Int
    BY <1>3, <2>1, CountTypes DEF InventoryInv
  <2>5. book[x] = staff[r].snapshot + moved[c][x] => book'[x] = staff[r].snapshot + moved'[c][x]
    <3> HIDE DEF c, x
    <3> QED BY <2>1, <2>3, <2>4
  <2> QED BY <2>2, <2>5
<1>12. \A x \in Item : /\ shelf'[x] - book'[x] = shelf[x] - book[x]
                       /\ book[x] = shelf[x] => book'[x] = shelf'[x]
  BY <1>1, <1>3, <1>4
<1>13. DeltaHolds' /\ ApprovedMatchesShelf'
  <2>1. repaired \subseteq Item
    BY DEF InventoryInv, InventoryTypeOK
  <2> QED BY <1>2, <1>12, <2>1 DEF InventoryInv, DeltaHolds, ApprovedMatchesShelf
<1> QED BY <1>8, <1>9, <1>10, <1>11, <1>13 DEF InventoryInv

\* Starting a count fixes what the books held.
LEMMA StartKeeps ==
    ASSUME InventoryInv, NEW c \in Count, Start(c)
    PROVE  InventoryInv'
<1> DEFINE rows == {i \in session[c].scope : book[i] > 0 \/ ~session[c].full}
           row(i) == IF i \in rows THEN [NoPosition EXCEPT !.state = "open", !.snapshot = book[i]]
                     ELSE NoPosition
<1>1. /\ session[c].status = "DRAFT" /\ ~\E d \in Count : Overlaps(c, d)
      /\ session' = [session EXCEPT ![c].status = "COUNTING"]
      /\ position' = [position EXCEPT ![c] = [i \in Item |-> row(i)]]
      /\ UNCHANGED <<moved, book, shelf, staff, repaired, overwritten>>
  BY DEF Start, goods, countHistory
<1>2. /\ session \in [Count -> [status : SessionStatus, full : BOOLEAN, scope : SUBSET Item]]
      /\ position \in [Count -> [Item -> Positions]] /\ book \in [Item -> Stock]
      /\ session[c].scope \in SUBSET Item
  BY DEF InventoryInv, InventoryTypeOK
<1>3. \A i \in Item : /\ row(i) \in Positions
                      /\ row(i).state = IF i \in rows THEN "open" ELSE "none"
                      /\ row(i).counted = FALSE
                      /\ i \in rows => row(i).snapshot = book[i]
  BY <1>2, FreshTypes DEF NoPosition, Positions
<1> HIDE DEF row
<1>4. /\ session' \in [Count -> [status : SessionStatus, full : BOOLEAN, scope : SUBSET Item]]
      /\ session'[c].status = "COUNTING"
      /\ \A d \in Count : d # c => session'[d].status = session[d].status
  BY <1>1, <1>2 DEF SessionStatus
<1>5. /\ position' \in [Count -> [Item -> Positions]]
      /\ \A i \in Item : position'[c][i] = row(i)
      /\ \A d \in Count, i \in Item : d # c => position'[d][i] = position[d][i]
  BY <1>1, <1>2, <1>3
<1>6. InventoryTypeOK'
  BY <1>1, <1>4, <1>5 DEF InventoryInv, InventoryTypeOK
<1>7. \A d \in Count : session'[d].status = "DRAFT" => d # c /\ session[d].status = "DRAFT"
  BY <1>4
<1>8. DraftsAreEmpty' /\ MovedFromStock' /\ ApprovedMatchesShelf'
  BY <1>1, <1>5, <1>7 DEF InventoryInv, DraftsAreEmpty, MovedFromStock, ApprovedMatchesShelf
<1>9. StaffHold'
  <2> SUFFICES ASSUME NEW r \in Staff, staff[r].step # "idle"
               PROVE  LET d == staff[r].count
                          x == staff[r].item
                      IN  /\ session'[d].status # "DRAFT"
                          /\ staff[r].step \in {"recount", "approveItem"} =>
                                 position'[d][x].state # "none"
                          /\ staff[r].step = "add" /\ staff[r].based =>
                                 book[x] = staff[r].snapshot + moved[d][x]
    BY <1>1 DEF StaffHold
  <2> DEFINE d == staff[r].count
             x == staff[r].item
  <2>1. d \in Count /\ x \in Item
    BY CountTypes DEF InventoryInv
  <2>2. /\ session[d].status # "DRAFT"
        /\ staff[r].step \in {"recount", "approveItem"} => position[d][x].state # "none"
        /\ staff[r].step = "add" /\ staff[r].based => book[x] = staff[r].snapshot + moved[d][x]
    BY DEF InventoryInv, StaffHold
  <2>3. d # c
    BY <1>1, <2>2
  <2> HIDE DEF d, x
  <2>4. session'[d].status # "DRAFT" /\ position'[d][x] = position[d][x]
    BY <1>4, <1>5, <2>1, <2>2, <2>3
  <2> QED BY <2>2, <2>4 DEF d, x
<1>10. BasedHold'
  <2> SUFFICES ASSUME NEW d \in Count, NEW i \in Item,
                      position'[d][i].state # "none", position'[d][i].based
               PROVE  book[i] = position'[d][i].snapshot + moved[d][i]
    BY <1>1 DEF BasedHold
  <2>1. CASE d = c
    <3>1. position'[d][i].snapshot = book[i]
      BY <1>3, <1>5, <2>1
    <3>2. moved[d][i] = 0
      BY <1>1, <2>1 DEF InventoryInv, DraftsAreEmpty
    <3>3. book[i] \in Int
      BY CountTypes DEF InventoryInv
    <3> QED BY <3>1, <3>2, <3>3
  <2>2. CASE d # c
    BY <1>5, <2>2 DEF InventoryInv, BasedHold
  <2> QED BY <2>1, <2>2
\* Nobody else counts an item of its scope.
<1>11. \A d \in Count, i \in Item : d # c /\ session[d].status \in Active
           /\ position[d][i].state # "none" => position'[c][i].state = "none"
  <2> SUFFICES ASSUME NEW d \in Count, NEW i \in Item, d # c, session[d].status \in Active,
                      position[d][i].state # "none"
               PROVE  i \notin rows
    BY <1>3, <1>5
  <2>1. i \notin session[c].scope
    BY <1>1 DEF Overlaps
  <2> QED BY <2>1
<1> HIDE DEF rows
<1>12. CountedAlone'
  <2> SUFFICES ASSUME ~overwritten, NEW a \in Count, NEW b \in Count, NEW i \in Item,
                      a # b, session'[a].status \in Active, session'[b].status \in Active,
                      position'[a][i].state # "none", position'[b][i].state # "none"
               PROVE  ~position'[a][i].based
    BY <1>1 DEF CountedAlone
  <2>1. a # c /\ b # c
    BY <1>4, <1>5, <1>11
  <2>2. /\ {session[a].status, session[b].status} \subseteq Active
        /\ position'[a][i] = position[a][i] /\ position'[b][i] = position[b][i]
    BY <1>4, <1>5, <2>1
  <2> QED BY <2>2 DEF InventoryInv, CountedAlone
<1>13. DeltaHolds'
  <2> SUFFICES ASSUME ~overwritten, NEW d \in Count, NEW i \in Item,
                      session'[d].status \in Active, position'[d][i].state # "none",
                      position'[d][i].counted, position'[d][i].based, position'[d][i].honest
               PROVE  position'[d][i].delta = shelf[i] - book[i]
    BY <1>1 DEF DeltaHolds
  <2>1. d # c
    BY <1>3, <1>5
  <2> QED BY <1>4, <1>5, <2>1 DEF InventoryInv, DeltaHolds
<1> QED BY <1>6, <1>8, <1>9, <1>10, <1>12, <1>13 DEF InventoryInv

\* A position is counted, by a request or a scan.
LEMMA RecordedKeeps ==
    ASSUME InventoryInv, NEW c \in Count, NEW i \in Item, NEW found \in Stock,
           Recorded(c, i, found), UNCHANGED <<session, moved, goods, countHistory>>,
           staff' \in [Staff -> StaffRequests],
           \A r \in Staff : staff'[r] = staff[r] \/ staff'[r].step = "idle"
               \/ (staff'[r].step = "zero" /\ staff[r].step = "zero"
                      /\ staff'[r].count = staff[r].count)
    PROVE  InventoryInv'
<1>1. /\ position[c][i].state # "none" /\ session[c].status \in Countable
      /\ position' = [position EXCEPT ![c][i] = AfterCount(c, i, found)]
      /\ UNCHANGED <<session, moved, book, shelf, repaired, overwritten>>
  BY DEF Recorded, goods, countHistory
<1>2. /\ position \in [Count -> [Item -> Positions]] /\ position[c][i] \in Positions
      /\ MaxStock \in Nat
  BY InventoryAssumption DEF InventoryInv, InventoryTypeOK
<1>3. /\ position[c][i].snapshot \in Nat /\ position[c][i].snapshot <= MaxStock
      /\ moved[c][i] \in Int /\ -MaxStock <= moved[c][i] /\ moved[c][i] <= MaxStock
      /\ found \in Nat /\ found <= MaxStock
      /\ shelf[i] \in Int /\ book[i] \in Int
  BY CountTypes, <1>2 DEF InventoryInv, Stock
<1> DEFINE delta == found - (position[c][i].snapshot + moved[c][i])
           new == AfterCount(c, i, found)
<1>4. delta \in Differences /\ delta \in Int
  BY <1>2, <1>3 DEF Differences
<1>5. /\ new \in Positions /\ new.state = "counted" /\ new.delta = delta
      /\ new.based = position[c][i].based /\ new.snapshot = position[c][i].snapshot
      /\ new.honest = (found = shelf[i])
  <2> DEFINE honest == found = shelf[i]
  <2>1. new = [position[c][i] EXCEPT !.state = "counted", !.counted = TRUE, !.delta = delta,
                                     !.honest = honest]
    BY DEF AfterCount
  <2>2. honest \in BOOLEAN
    OBVIOUS
  <2> HIDE DEF delta, honest, new
  <2>3. /\ new \in Positions /\ new.state = "counted" /\ new.delta = delta
        /\ new.based = position[c][i].based /\ new.snapshot = position[c][i].snapshot
        /\ new.honest = honest
    BY <1>2, <1>4, <2>1, <2>2 DEF Positions
  <2> QED BY <2>3 DEF honest
<1> HIDE DEF new
<1>6. /\ position' \in [Count -> [Item -> Positions]] /\ position'[c][i] = new
      /\ \A d \in Count, x \in Item : (d # c \/ x # i) => position'[d][x] = position[d][x]
  <2>1. position' = [position EXCEPT ![c] = [position[c] EXCEPT ![i] = new]]
    BY <1>1 DEF new
  <2>2. position[c] \in [Item -> Positions]
    BY <1>2
  <2> QED BY <1>2, <1>5, <2>1, <2>2
<1>7. \A d \in Count, x \in Item : /\ position'[d][x].state = "none" <=> position[d][x].state = "none"
                                   /\ position'[d][x].based = position[d][x].based
                                   /\ position'[d][x].snapshot = position[d][x].snapshot
  BY <1>1, <1>5, <1>6
<1>8. InventoryTypeOK'
  BY <1>1, <1>6 DEF InventoryInv, InventoryTypeOK
<1>9. DraftsAreEmpty' /\ MovedFromStock' /\ ApprovedMatchesShelf'
  BY <1>1, <1>7 DEF InventoryInv, DraftsAreEmpty, MovedFromStock, ApprovedMatchesShelf
<1>10. StaffHold'
  <2> SUFFICES ASSUME NEW r \in Staff, staff'[r].step # "idle"
               PROVE  LET d == staff'[r].count
                          x == staff'[r].item
                      IN  /\ session[d].status # "DRAFT"
                          /\ staff'[r].step \in {"recount", "approveItem"} =>
                                 position'[d][x].state # "none"
                          /\ staff'[r].step = "add" /\ staff'[r].based =>
                                 book[x] = staff'[r].snapshot + moved[d][x]
    BY <1>1 DEF StaffHold
  <2>1. staff[r].count \in Count /\ staff[r].item \in Item
    BY CountTypes DEF InventoryInv
  <2>2. CASE staff'[r] = staff[r]
    <3> DEFINE d == staff[r].count
               x == staff[r].item
    <3>1. /\ session[d].status # "DRAFT"
          /\ staff[r].step \in {"recount", "approveItem"} => position[d][x].state # "none"
          /\ staff[r].step = "add" /\ staff[r].based => book[x] = staff[r].snapshot + moved[d][x]
      BY <2>2 DEF InventoryInv, StaffHold
    <3>2. position'[d][x].state = "none" <=> position[d][x].state = "none"
      BY <1>7, <2>1
    <3> QED BY <2>2, <3>1, <3>2
  <2>3. CASE staff'[r].step = "zero" /\ staff[r].step = "zero" /\ staff'[r].count = staff[r].count
    BY <2>1, <2>3 DEF InventoryInv, StaffHold
  <2> QED BY <2>2, <2>3
<1>11. BasedHold' /\ CountedAlone'
  <2>1. BasedHold'
    BY <1>1, <1>7 DEF InventoryInv, BasedHold
  <2>2. CountedAlone'
    BY <1>1, <1>7 DEF InventoryInv, CountedAlone
  <2> QED BY <2>1, <2>2
<1>12. DeltaHolds'
  <2> SUFFICES ASSUME ~overwritten, NEW d \in Count, NEW x \in Item,
                      session[d].status \in Active, position'[d][x].state # "none",
                      position'[d][x].counted, position'[d][x].based, position'[d][x].honest
               PROVE  position'[d][x].delta = shelf[x] - book[x]
    BY <1>1 DEF DeltaHolds
  <2>1. CASE d = c /\ x = i
    <3>1. found = shelf[i] /\ position[c][i].based
      BY <1>5, <1>6, <2>1
    <3>2. book[i] = position[c][i].snapshot + moved[c][i]
      BY <1>1, <3>1 DEF InventoryInv, BasedHold
    <3>3. position'[d][x].delta = found - (position[c][i].snapshot + moved[c][i])
      BY <1>5, <1>6, <2>1
    <3>4. position'[d][x].delta = shelf[i] - book[i]
      BY <3>1, <3>2, <3>3
    <3> QED BY <2>1, <3>4
  <2>2. CASE d # c \/ x # i
    <3>1. position'[d][x] = position[d][x]
      BY <1>6, <2>2
    <3> QED BY <3>1 DEF InventoryInv, DeltaHolds
  <2> QED BY <2>1, <2>2
<1> QED BY <1>8, <1>9, <1>10, <1>11, <1>12 DEF InventoryInv

\* A request of the staff ends.
LEMMA FreedKeeps ==
    ASSUME InventoryInv, NEW r \in Staff, staff' = [staff EXCEPT ![r] = Free],
           UNCHANGED <<session, position, moved, book, shelf, repaired, overwritten>>
    PROVE  InventoryInv'
<1>1. UNCHANGED <<session, position, moved, book, shelf, repaired, overwritten>>
  OBVIOUS
<1>2. staff \in [Staff -> StaffRequests]
  BY DEF InventoryInv, InventoryTypeOK
<1>3. /\ staff' \in [Staff -> StaffRequests]
      /\ \A q \in Staff : staff'[q].step # "idle" => staff'[q] = staff[q]
  BY <1>2, FreshTypes
<1>4. InventoryTypeOK'
  BY <1>1, <1>3 DEF InventoryInv, InventoryTypeOK
<1>5. StaffHold'
  BY <1>1, <1>3 DEF InventoryInv, StaffHold
<1>6. /\ DraftsAreEmpty' /\ MovedFromStock' /\ BasedHold' /\ CountedAlone' /\ DeltaHolds'
      /\ ApprovedMatchesShelf'
  BY <1>1 DEF InventoryInv, DraftsAreEmpty, MovedFromStock, BasedHold, CountedAlone, DeltaHolds,
              ApprovedMatchesShelf
<1> QED BY <1>4, <1>5, <1>6 DEF InventoryInv

\* A quantity is counted, recounted or taken as zero.
LEMMA CountingKeeps ==
    ASSUME InventoryInv,
           \/ \E c \in Count, i \in Item : CountItem(c, i)
           \/ \E r \in Staff : CountAsZero(r)
    PROVE  InventoryInv'
<1>1. staff \in [Staff -> StaffRequests] /\ \A i \in Item : shelf[i] \in Stock
  BY DEF InventoryInv, InventoryTypeOK
<1>2. ASSUME NEW c \in Count, NEW i \in Item, CountItem(c, i) PROVE InventoryInv'
  BY <1>1, <1>2, RecordedKeeps DEF CountItem
<1>3. ASSUME NEW r \in Staff, CountAsZero(r) PROVE InventoryInv'
  <2> DEFINE c == staff[r].count
  <2>1. /\ c \in Count /\ staff[r] \in StaffRequests /\ staff[r].left \in SUBSET Item
    BY CountTypes DEF InventoryInv
  <2>2. PICK i \in staff[r].left :
            IF session[c].status \in Countable
            THEN /\ Recorded(c, i, 0)
                 /\ staff' = [staff EXCEPT ![r] =
                        IF staff[r].left = {i} THEN Free
                        ELSE [staff[r] EXCEPT !.left = staff[r].left \ {i}]]
            ELSE staff' = [staff EXCEPT ![r] = Free] /\ UNCHANGED position
    BY <1>3 DEF CountAsZero
  <2>3. staff[r].step = "zero" /\ UNCHANGED <<session, moved, goods, countHistory>>
    BY <1>3 DEF CountAsZero
  <2>4. CASE session[c].status \in Countable
    <3> DEFINE new == IF staff[r].left = {i} THEN Free
                      ELSE [staff[r] EXCEPT !.left = staff[r].left \ {i}]
    <3>1. new \in StaffRequests
      BY <2>1, FreshTypes DEF StaffRequests
    <3>2. new.step = "idle" \/ (new.step = "zero" /\ new.count = c)
      BY <2>1, <2>3, FreshTypes DEF StaffRequests
    <3>3. staff' = [staff EXCEPT ![r] = new] /\ Recorded(c, i, 0)
      BY <2>2, <2>4
    <3> HIDE DEF new
    <3>4. /\ staff' \in [Staff -> StaffRequests] /\ staff'[r] = new
          /\ \A q \in Staff : q # r => staff'[q] = staff[q]
      BY <1>1, <3>1, <3>3
    <3>5. \A q \in Staff : staff'[q] = staff[q] \/ staff'[q].step = "idle"
              \/ (staff'[q].step = "zero" /\ staff[q].step = "zero"
                     /\ staff'[q].count = staff[q].count)
      BY <2>3, <3>2, <3>4
    <3> QED BY <2>1, <2>3, <3>3, <3>4, <3>5, FreshTypes, RecordedKeeps
  <2>5. CASE session[c].status \notin Countable
    <3>2. /\ staff' = [staff EXCEPT ![r] = Free]
          /\ UNCHANGED <<session, position, moved, book, shelf, repaired, overwritten>>
      BY <2>2, <2>3, <2>5 DEF goods, countHistory
    <3> QED BY <3>2, FreedKeeps
  <2> QED BY <2>4, <2>5
<1> QED BY <1>2, <1>3

\* A request writes a status over whatever the session has by now.
LEMMA WrittenKeeps ==
    ASSUME InventoryInv, NEW r \in Staff, Submit(r) \/ RequestRecount(r)
    PROVE  InventoryInv'
<1> DEFINE c == staff[r].count
           i == staff[r].item
<1>1. /\ staff \in [Staff -> StaffRequests] /\ c \in Count /\ i \in Item
      /\ session \in [Count -> [status : SessionStatus, full : BOOLEAN, scope : SUBSET Item]]
      /\ position \in [Count -> [Item -> Positions]] /\ position[c][i] \in Positions
      /\ overwritten \in BOOLEAN
  BY CountTypes DEF InventoryInv, InventoryTypeOK
<1>2. PICK status \in {"REVIEW", "RECOUNT_REQUIRED"} : StatusWritten(r, status)
  BY DEF Submit, RequestRecount
<1>3. /\ staff' = [staff EXCEPT ![r] = Free] /\ staff[r].step \in {"submit", "recount"}
      /\ UNCHANGED <<moved, book, shelf, repaired>>
  BY DEF Submit, RequestRecount, goods
<1>4. /\ session' = [session EXCEPT ![c].status = status]
      /\ overwritten' = (overwritten \/ session[c].status \notin Active)
  BY <1>2 DEF StatusWritten
<1>5. /\ session[c].status # "DRAFT"
      /\ staff[r].step = "recount" => position[c][i].state # "none"
  BY <1>3 DEF InventoryInv, StaffHold
<1> DEFINE again == [position[c][i] EXCEPT !.state = "recount", !.counted = FALSE, !.delta = 0]
<1>6. again \in Positions /\ again.based = position[c][i].based
      /\ again.snapshot = position[c][i].snapshot /\ again.counted = FALSE
      /\ again.state = "recount"
  BY <1>1, FreshTypes DEF Positions
<1>7. position' = position
      \/ (position[c][i].state # "none" /\ position' = [position EXCEPT ![c][i] = again])
  BY <1>5 DEF Submit, RequestRecount
<1> HIDE DEF again, c, i
<1>8. /\ position' \in [Count -> [Item -> Positions]]
      /\ \A d \in Count, x \in Item :
             /\ position'[d][x].state = "none" <=> position[d][x].state = "none"
             /\ position'[d][x].based = position[d][x].based
             /\ position'[d][x].snapshot = position[d][x].snapshot
             /\ position'[d][x] = position[d][x] \/ position'[d][x].counted = FALSE
  <2>1. CASE position' = position
    BY <1>1, <2>1
  <2>2. CASE position[c][i].state # "none" /\ position' = [position EXCEPT ![c][i] = again]
    <3>1. position' = [position EXCEPT ![c] = [position[c] EXCEPT ![i] = again]]
      BY <2>2
    <3>2. position[c] \in [Item -> Positions]
      BY <1>1
    <3>3. /\ position' \in [Count -> [Item -> Positions]] /\ position'[c][i] = again
          /\ \A d \in Count, x \in Item : (d # c \/ x # i) => position'[d][x] = position[d][x]
      BY <1>1, <1>6, <3>1, <3>2
    <3> QED BY <1>6, <2>2, <3>3
  <2> QED BY <1>7, <2>1, <2>2
<1>9. /\ session' \in [Count -> [status : SessionStatus, full : BOOLEAN, scope : SUBSET Item]]
      /\ session'[c].status = status
      /\ \A d \in Count : d # c => session'[d].status = session[d].status
  BY <1>1, <1>4 DEF SessionStatus
<1>10. InventoryTypeOK'
  <2>1. overwritten' \in BOOLEAN
    BY <1>4
  <2>2. staff' \in [Staff -> StaffRequests]
    BY <1>1, <1>3, FreshTypes
  <2> QED BY <1>3, <1>8, <1>9, <2>1, <2>2 DEF InventoryInv, InventoryTypeOK
<1>11. \A d \in Count : session[d].status = "DRAFT" <=> session'[d].status = "DRAFT"
  BY <1>5, <1>9 DEF c
<1>12. DraftsAreEmpty' /\ MovedFromStock' /\ BasedHold'
  <2>1. DraftsAreEmpty' /\ MovedFromStock'
    BY <1>3, <1>8, <1>11 DEF InventoryInv, DraftsAreEmpty, MovedFromStock
  <2>2. BasedHold'
    BY <1>3, <1>8 DEF InventoryInv, BasedHold
  <2> QED BY <2>1, <2>2
<1>13. StaffHold'
  <2> SUFFICES ASSUME NEW q \in Staff, staff'[q].step # "idle"
               PROVE  LET d == staff'[q].count
                          x == staff'[q].item
                      IN  /\ session'[d].status # "DRAFT"
                          /\ staff'[q].step \in {"recount", "approveItem"} =>
                                 position'[d][x].state # "none"
                          /\ staff'[q].step = "add" /\ staff'[q].based =>
                                 book[x] = staff'[q].snapshot + moved[d][x]
    BY <1>3 DEF StaffHold
  <2>1. staff'[q] = staff[q]
    BY <1>1, <1>3, FreshTypes
  <2> DEFINE d == staff[q].count
             x == staff[q].item
  <2>2. d \in Count /\ x \in Item
    BY CountTypes DEF InventoryInv
  <2>3. /\ session[d].status # "DRAFT"
        /\ staff[q].step \in {"recount", "approveItem"} => position[d][x].state # "none"
        /\ staff[q].step = "add" /\ staff[q].based => book[x] = staff[q].snapshot + moved[d][x]
    BY <2>1 DEF InventoryInv, StaffHold
  <2>4. session'[d].status # "DRAFT" /\ (position'[d][x].state = "none" <=> position[d][x].state = "none")
    <3> HIDE DEF d, x
    <3> QED BY <1>8, <1>11, <2>2, <2>3
  <2> QED BY <2>1, <2>3, <2>4
<1>14. ~overwritten' => ~overwritten /\ \A d \in Count :
           session'[d].status \in Active => session[d].status \in Active
  BY <1>1, <1>4, <1>9
<1>15. CountedAlone' /\ DeltaHolds' /\ ApprovedMatchesShelf'
  <2>1. CountedAlone'
    BY <1>8, <1>14 DEF InventoryInv, CountedAlone
  <2>2. DeltaHolds'
    BY <1>3, <1>8, <1>14 DEF InventoryInv, DeltaHolds
  <2>3. ApprovedMatchesShelf'
    BY <1>3, <1>14 DEF InventoryInv, ApprovedMatchesShelf
  <2> QED BY <2>1, <2>2, <2>3
<1> QED BY <1>10, <1>12, <1>13, <1>15 DEF InventoryInv

\* What the staff holds stays good when positions only come in or change.
LEMMA StaffStays ==
    ASSUME InventoryInv, NEW r \in Staff, staff' = [staff EXCEPT ![r] = Free],
           UNCHANGED <<session, moved, book>>,
           \A d \in Count, x \in Item : position[d][x].state # "none" => position'[d][x].state # "none"
    PROVE  StaffHold' /\ staff' \in [Staff -> StaffRequests]
<1>1. staff \in [Staff -> StaffRequests]
  BY DEF InventoryInv, InventoryTypeOK
<1>2. /\ staff' \in [Staff -> StaffRequests]
      /\ \A q \in Staff : staff'[q].step # "idle" => staff'[q] = staff[q]
  BY <1>1, FreshTypes
<1>3. \A q \in Staff : staff[q].count \in Count /\ staff[q].item \in Item
  BY CountTypes DEF InventoryInv
<1>4. \A q \in Staff : staff'[q].step # "idle" =>
          /\ session[staff[q].count].status # "DRAFT"
          /\ staff[q].step \in {"recount", "approveItem"} =>
                 position'[staff[q].count][staff[q].item].state # "none"
          /\ staff[q].step = "add" /\ staff[q].based =>
                 book[staff[q].item] = staff[q].snapshot + moved[staff[q].count][staff[q].item]
  <2> SUFFICES ASSUME NEW q \in Staff, staff'[q].step # "idle"
               PROVE  /\ session[staff[q].count].status # "DRAFT"
                      /\ staff[q].step \in {"recount", "approveItem"} =>
                             position'[staff[q].count][staff[q].item].state # "none"
                      /\ staff[q].step = "add" /\ staff[q].based =>
                             book[staff[q].item]
                                 = staff[q].snapshot + moved[staff[q].count][staff[q].item]
    OBVIOUS
  <2>1. /\ session[staff[q].count].status # "DRAFT"
        /\ staff[q].step \in {"recount", "approveItem"} =>
               position[staff[q].count][staff[q].item].state # "none"
        /\ staff[q].step = "add" /\ staff[q].based =>
               book[staff[q].item] = staff[q].snapshot + moved[staff[q].count][staff[q].item]
    BY <1>2 DEF InventoryInv, StaffHold
  <2> QED BY <1>3, <2>1
<1>5. StaffHold'
  BY <1>2, <1>4 DEF StaffHold
<1> QED BY <1>2, <1>5

\* A request approves one position.
LEMMA ApproveItemKeeps ==
    ASSUME InventoryInv, NEW r \in Staff, ApproveItem(r)
    PROVE  InventoryInv'
<1> DEFINE c == staff[r].count
           i == staff[r].item
           new == [position[c][i] EXCEPT !.state = "approved"]
<1>1. /\ c \in Count /\ i \in Item /\ position \in [Count -> [Item -> Positions]]
      /\ position[c][i] \in Positions
  BY CountTypes DEF InventoryInv, InventoryTypeOK
<1>2. /\ staff' = [staff EXCEPT ![r] = Free] /\ staff[r].step = "approveItem"
      /\ position' = [position EXCEPT ![c] = [position[c] EXCEPT ![i] = new]]
      /\ UNCHANGED <<session, moved, book, shelf, repaired, overwritten>>
  BY DEF ApproveItem, goods, countHistory
<1>3. position[c][i].state # "none"
  BY <1>2 DEF InventoryInv, StaffHold
<1>4. /\ new \in Positions /\ new.state = "approved" /\ new.based = position[c][i].based
      /\ new.snapshot = position[c][i].snapshot /\ new.counted = position[c][i].counted
      /\ new.honest = position[c][i].honest /\ new.delta = position[c][i].delta
  BY <1>1 DEF Positions
<1> HIDE DEF new, c, i
<1>5. /\ position' \in [Count -> [Item -> Positions]] /\ position'[c][i] = new
      /\ \A d \in Count, x \in Item : (d # c \/ x # i) => position'[d][x] = position[d][x]
  <2>1. position[c] \in [Item -> Positions]
    BY <1>1
  <2> QED BY <1>1, <1>2, <1>4, <2>1
<1>6. \A d \in Count, x \in Item : /\ position'[d][x].state = "none" <=> position[d][x].state = "none"
                                   /\ position'[d][x].based = position[d][x].based
                                   /\ position'[d][x].snapshot = position[d][x].snapshot
                                   /\ position'[d][x].counted = position[d][x].counted
                                   /\ position'[d][x].honest = position[d][x].honest
                                   /\ position'[d][x].delta = position[d][x].delta
  BY <1>3, <1>4, <1>5
<1>7. StaffHold' /\ staff' \in [Staff -> StaffRequests]
  BY <1>2, <1>6, StaffStays
<1>8. InventoryTypeOK'
  BY <1>2, <1>5, <1>7 DEF InventoryInv, InventoryTypeOK
<1>9. DraftsAreEmpty' /\ MovedFromStock' /\ ApprovedMatchesShelf'
  BY <1>2, <1>6 DEF InventoryInv, DraftsAreEmpty, MovedFromStock, ApprovedMatchesShelf
<1>10. BasedHold'
  BY <1>2, <1>6 DEF InventoryInv, BasedHold
<1>11. CountedAlone'
  BY <1>2, <1>6 DEF InventoryInv, CountedAlone
<1>12. DeltaHolds'
  BY <1>2, <1>6 DEF InventoryInv, DeltaHolds
<1> QED BY <1>7, <1>8, <1>9, <1>10, <1>11, <1>12 DEF InventoryInv

\* An item is added to a count under way.
LEMMA AddItemKeeps ==
    ASSUME InventoryInv, NEW r \in Staff, AddItem(r)
    PROVE  InventoryInv'
<1> DEFINE c == staff[r].count
           i == staff[r].item
           others == {d \in Count \ {c} : session[d].status \in Active
                                           /\ position[d][i].state # "none"}
           based == staff[r].based /\ moved[c][i] = 0 /\ others = {}
           row == [NoPosition EXCEPT !.state = "open", !.snapshot = staff[r].snapshot,
                                     !.based = based]
<1>1. /\ c \in Count /\ i \in Item /\ position \in [Count -> [Item -> Positions]]
      /\ staff[r].snapshot \in Stock
  BY CountTypes DEF InventoryInv, InventoryTypeOK, StaffRequests
<1>2. /\ staff' = [staff EXCEPT ![r] = Free] /\ staff[r].step = "add"
      /\ UNCHANGED <<session, moved, book, shelf, repaired, overwritten>>
      /\ position' = IF position[c][i].state # "none" THEN position
                     ELSE [d \in Count |->
                            IF d = c THEN [position[d] EXCEPT ![i] = row]
                            ELSE IF d \in others THEN [position[d] EXCEPT ![i].based = FALSE]
                            ELSE position[d]]
  BY DEF AddItem, goods, countHistory
<1>3. CASE position[c][i].state # "none"
  <2>1. position' = position
    BY <1>2, <1>3
  <2> QED BY <1>2, <2>1, FreedKeeps
<1>4. CASE position[c][i].state = "none"
  <2>1. based \in BOOLEAN
    OBVIOUS
  <2>2. /\ row \in Positions /\ row.state = "open" /\ row.based = based
        /\ row.snapshot = staff[r].snapshot /\ row.counted = FALSE
    <3> HIDE DEF based
    <3> QED BY <1>1, <2>1, FreshTypes DEF NoPosition, Positions
  <2>3. position' = [d \in Count |->
            IF d = c THEN [position[d] EXCEPT ![i] = row]
            ELSE IF d \in others
                 THEN [position[d] EXCEPT ![i] = [position[d][i] EXCEPT !.based = FALSE]]
                 ELSE position[d]]
    BY <1>2, <1>4
  <2>4. based => staff[r].based /\ moved[c][i] = 0 /\ others = {}
    OBVIOUS
  <2>5. \A d \in Count : d # c => (d \in others <=> session[d].status \in Active
                                                   /\ position[d][i].state # "none")
    OBVIOUS
  <2> HIDE DEF row, based
  <2>6. \A d \in Count : /\ position[d] \in [Item -> Positions]
                         /\ [position[d][i] EXCEPT !.based = FALSE] \in Positions
                         /\ [position[d][i] EXCEPT !.based = FALSE].based = FALSE
                         /\ [position[d][i] EXCEPT !.based = FALSE].state = position[d][i].state
    <3>1. \A x \in Positions : /\ [x EXCEPT !.based = FALSE] \in Positions
                               /\ [x EXCEPT !.based = FALSE].based = FALSE
                               /\ [x EXCEPT !.based = FALSE].state = x.state
      BY DEF Positions
    <3>2. \A d \in Count : position[d] \in [Item -> Positions] /\ position[d][i] \in Positions
      BY <1>1
    <3> QED BY <3>1, <3>2
  <2> HIDE DEF others, c, i
  <2>7. /\ position' \in [Count -> [Item -> Positions]]
        /\ position'[c][i] = row
        /\ \A d \in Count, x \in Item : x # i => position'[d][x] = position[d][x]
        /\ \A d \in Count : d # c => position'[d][i] = IF d \in others
               THEN [position[d][i] EXCEPT !.based = FALSE] ELSE position[d][i]
    <3>1. \A d \in Count : position'[d] \in [Item -> Positions]
      BY <1>1, <2>2, <2>3, <2>6
    <3> QED BY <1>1, <2>2, <2>3, <2>6, <3>1
  <2>8. \A d \in Count, x \in Item :
            \/ position'[d][x] = position[d][x]
            \/ d = c /\ x = i /\ position'[d][x] = row
            \/ /\ d # c /\ x = i /\ position'[d][x].based = FALSE
               /\ position'[d][x].state = position[d][x].state
    BY <2>6, <2>7
  <2>9. session[c].status # "DRAFT"
    BY <1>2 DEF InventoryInv, StaffHold, c
  <2>10. StaffHold' /\ staff' \in [Staff -> StaffRequests]
    <3>1. \A d \in Count, x \in Item :
              position[d][x].state # "none" => position'[d][x].state # "none"
      BY <1>4, <2>2, <2>8 DEF c, i
    <3> QED BY <1>2, <3>1, StaffStays
  <2>11. InventoryTypeOK'
    BY <1>2, <2>7, <2>10 DEF InventoryInv, InventoryTypeOK
  <2>12. DraftsAreEmpty' /\ MovedFromStock' /\ ApprovedMatchesShelf'
    BY <1>2, <2>8, <2>9 DEF InventoryInv, DraftsAreEmpty, MovedFromStock, ApprovedMatchesShelf
  <2>13. BasedHold'
    <3> SUFFICES ASSUME NEW d \in Count, NEW x \in Item,
                        position'[d][x].state # "none", position'[d][x].based
                 PROVE  book[x] = position'[d][x].snapshot + moved[d][x]
      BY <1>2 DEF BasedHold
    <3>1. CASE position'[d][x] = position[d][x]
      BY <3>1 DEF InventoryInv, BasedHold
    <3>2. CASE d = c /\ x = i /\ position'[d][x] = row
      <4>1. staff[r].based /\ staff[r].step = "add"
        BY <1>2, <2>2, <2>4, <3>2
      <4>2. book[i] = staff[r].snapshot + moved[c][i]
        BY <4>1 DEF InventoryInv, StaffHold, c, i
      <4> QED BY <2>2, <3>2, <4>2
    <3> QED BY <2>8, <3>1, <3>2
  <2>14. CountedAlone'
    <3> SUFFICES ASSUME ~overwritten, NEW a \in Count, NEW b \in Count, NEW x \in Item,
                        a # b, session[a].status \in Active, session[b].status \in Active,
                        position'[a][x].state # "none", position'[b][x].state # "none",
                        position'[a][x].based
                 PROVE  FALSE
      BY <1>2 DEF CountedAlone
    <3>1. CASE x # i
      <4>1. position'[a][x] = position[a][x] /\ position'[b][x] = position[b][x]
        BY <2>7, <3>1
      <4>2. {session[a].status, session[b].status} \subseteq Active
        OBVIOUS
      <4> QED BY <4>1, <4>2 DEF InventoryInv, CountedAlone
    <3>2. CASE x = i /\ a = c
      <4>1. position'[b][i].state = position[b][i].state
        BY <2>6, <2>7, <3>2
      <4>2. b \in others
        BY <2>5, <3>2, <4>1 DEF c, i
      <4>3. others = {}
        BY <2>2, <2>4, <2>7, <3>2
      <4> QED BY <4>2, <4>3
    <3>3. CASE x = i /\ a # c
      <4>1. position'[a][i].state = position[a][i].state
        BY <2>6, <2>7, <3>3
      <4>2. a \in others
        BY <2>5, <3>3, <4>1 DEF c, i
      <4> QED BY <2>6, <2>7, <3>3, <4>2
    <3> QED BY <3>1, <3>2, <3>3
  <2>15. DeltaHolds'
    <3> SUFFICES ASSUME ~overwritten, NEW d \in Count, NEW x \in Item,
                        session[d].status \in Active, position'[d][x].state # "none",
                        position'[d][x].counted, position'[d][x].based, position'[d][x].honest
                 PROVE  position'[d][x].delta = shelf[x] - book[x]
      BY <1>2 DEF DeltaHolds
    <3>1. position'[d][x] = position[d][x]
      BY <2>2, <2>8
    <3> QED BY <3>1 DEF InventoryInv, DeltaHolds
  <2> QED BY <2>10, <2>11, <2>12, <2>13, <2>14, <2>15 DEF InventoryInv
<1> QED BY <1>3, <1>4

\* The approval applies every difference to the books.
LEMMA ApproveKeeps ==
    ASSUME InventoryInv, NEW c \in Count, ApproveCount(c)
    PROVE  InventoryInv'
<1> DEFINE has == {i \in Item : position[c][i].state # "none"}
           delta == [i \in Item |-> IF i \in has THEN position[c][i].delta ELSE 0]
           right == {i \in has : position[c][i].based /\ position[c][i].honest}
<1>1. /\ session[c].status = "REVIEW" /\ \A i \in has : position[c][i].counted
      /\ Applicable(delta)
      /\ book' = [i \in Item |-> book[i] + delta[i]]
      /\ moved' = [d \in Count |-> IF session[d].status = "DRAFT" THEN moved[d]
                      ELSE [i \in Item |-> moved[d][i] + delta[i]]]
      /\ session' = [session EXCEPT ![c].status = "COMPLETED"]
      /\ repaired' = (repaired \ has) \cup right
      /\ UNCHANGED <<position, shelf, staff, overwritten>>
  BY DEF ApproveCount
<1>2. /\ session \in [Count -> [status : SessionStatus, full : BOOLEAN, scope : SUBSET Item]]
      /\ repaired \in SUBSET Item /\ shelf \in [Item -> Stock]
      /\ \A i \in Item : book[i] \in Int /\ shelf[i] \in Int /\ position[c][i].delta \in Int
  BY CountTypes DEF InventoryInv, InventoryTypeOK
<1>3. delta \in [Item -> Int] /\ \A i \in Item : delta[i] \in Int
  BY <1>2
<1>4. /\ \A i \in has : delta[i] = position[c][i].delta
      /\ \A i \in Item : i \notin has => delta[i] = 0
      /\ has \subseteq Item /\ right \subseteq has
  OBVIOUS
<1>5. \A i \in right : position[c][i].based /\ position[c][i].honest
  OBVIOUS
<1>6. \A i \in has : position[c][i].state # "none" /\ position[c][i].counted
  BY <1>1
<1>7. \A i \in Item : i \notin has => position[c][i].state = "none"
  OBVIOUS
<1> HIDE DEF has, delta, right
<1>8. book' \in [Item -> Stock] /\ \A i \in Item : book'[i] = book[i] + delta[i]
  BY <1>1 DEF Applicable
<1>9. /\ moved' \in [Count -> [Item -> -MaxStock .. MaxStock]]
      /\ \A d \in Count, x \in Item :
             /\ book'[x] - moved'[d][x] \in Stock
             /\ session[d].status # "DRAFT" => moved'[d][x] = moved[d][x] + delta[x]
             /\ session[d].status = "DRAFT" => moved'[d][x] = moved[d][x]
  BY <1>1, <1>3, <1>8, MovedTogether
<1>10. /\ session' \in [Count -> [status : SessionStatus, full : BOOLEAN, scope : SUBSET Item]]
       /\ session'[c].status = "COMPLETED"
       /\ \A d \in Count : d # c => session'[d].status = session[d].status
  BY <1>1, <1>2 DEF SessionStatus
<1>11. InventoryTypeOK'
  <2>1. repaired' \in SUBSET Item
    BY <1>1, <1>2, <1>4
  <2> QED BY <1>1, <1>8, <1>9, <1>10, <2>1 DEF InventoryInv, InventoryTypeOK
<1>12. \A d \in Count : (session'[d].status = "DRAFT" <=> session[d].status = "DRAFT")
                        /\ (session'[d].status \in Active => d # c /\ session[d].status \in Active)
  BY <1>1, <1>10 DEF Active
<1>13. DraftsAreEmpty' /\ MovedFromStock' /\ CountedAlone'
  <2>1. DraftsAreEmpty' /\ MovedFromStock'
    BY <1>1, <1>9, <1>12 DEF InventoryInv, DraftsAreEmpty, MovedFromStock
  <2>2. CountedAlone'
    BY <1>1, <1>12 DEF InventoryInv, CountedAlone
  <2> QED BY <2>1, <2>2
<1>14. BasedHold'
  <2> SUFFICES ASSUME NEW d \in Count, NEW x \in Item,
                      position[d][x].state # "none", position[d][x].based
               PROVE  book'[x] = position[d][x].snapshot + moved'[d][x]
    BY <1>1 DEF BasedHold
  <2>1. book[x] = position[d][x].snapshot + moved[d][x] /\ session[d].status # "DRAFT"
    BY DEF InventoryInv, BasedHold, DraftsAreEmpty
  <2>2. moved'[d][x] = moved[d][x] + delta[x] /\ book'[x] = book[x] + delta[x]
    BY <1>8, <1>9, <2>1
  <2>3. position[d][x].snapshot \in Int /\ moved[d][x] \in Int /\ delta[x] \in Int
    BY <1>3, CountTypes DEF InventoryInv
  <2> QED BY <2>1, <2>2, <2>3
<1>15. StaffHold'
  <2> SUFFICES ASSUME NEW r \in Staff, staff[r].step # "idle"
               PROVE  LET d == staff[r].count
                          x == staff[r].item
                      IN  /\ session'[d].status # "DRAFT"
                          /\ staff[r].step \in {"recount", "approveItem"} =>
                                 position[d][x].state # "none"
                          /\ staff[r].step = "add" /\ staff[r].based =>
                                 book'[x] = staff[r].snapshot + moved'[d][x]
    BY <1>1 DEF StaffHold
  <2> DEFINE d == staff[r].count
             x == staff[r].item
  <2>1. d \in Count /\ x \in Item /\ staff[r].snapshot \in Int
    BY CountTypes DEF InventoryInv
  <2>2. /\ session[d].status # "DRAFT"
        /\ staff[r].step \in {"recount", "approveItem"} => position[d][x].state # "none"
        /\ staff[r].step = "add" /\ staff[r].based => book[x] = staff[r].snapshot + moved[d][x]
    BY DEF InventoryInv, StaffHold
  <2>3. moved'[d][x] = moved[d][x] + delta[x] /\ book'[x] = book[x] + delta[x]
    BY <1>8, <1>9, <2>1, <2>2
  <2>4. moved[d][x] \in Int /\ delta[x] \in Int /\ session'[d].status # "DRAFT"
    BY <1>3, <1>12, <2>1, <2>2, CountTypes DEF InventoryInv
  <2>5. book[x] = staff[r].snapshot + moved[d][x] => book'[x] = staff[r].snapshot + moved'[d][x]
    <3> HIDE DEF d, x
    <3> QED BY <2>1, <2>3, <2>4
  <2> QED BY <2>2, <2>4, <2>5
<1>16. DeltaHolds'
  <2> SUFFICES ASSUME ~overwritten, NEW d \in Count, NEW x \in Item,
                      session'[d].status \in Active, position[d][x].state # "none",
                      position[d][x].counted, position[d][x].based, position[d][x].honest
               PROVE  position[d][x].delta = shelf[x] - book'[x]
    BY <1>1 DEF DeltaHolds
  <2>1. d # c /\ session[d].status \in Active /\ session[c].status \in Active
    BY <1>1, <1>12 DEF Active
  <2>2. x \notin has
    <3>1. {session[d].status, session[c].status} \subseteq Active
      BY <2>1
    <3> QED BY <1>6, <2>1, <3>1 DEF InventoryInv, CountedAlone
  <2>3. book'[x] = book[x]
    BY <1>2, <1>4, <1>8, <2>2
  <2> QED BY <2>1, <2>3 DEF InventoryInv, DeltaHolds
<1>17. ApprovedMatchesShelf'
  <2> SUFFICES ASSUME ~overwritten, NEW x \in repaired' PROVE book'[x] = shelf[x]
    BY <1>1 DEF ApprovedMatchesShelf
  <2>1. CASE x \in right
    <3>1. position[c][x].delta = shelf[x] - book[x]
      <4>1. session[c].status \in Active /\ x \in Item
        BY <1>1, <1>4, <2>1 DEF Active
      <4> QED BY <1>4, <1>5, <1>6, <2>1, <4>1 DEF InventoryInv, DeltaHolds
    <3>2. book'[x] = book[x] + position[c][x].delta /\ x \in Item
      BY <1>4, <1>8, <2>1
    <3> QED BY <1>2, <3>1, <3>2
  <2>2. CASE x \in repaired \ has
    <3>1. book[x] = shelf[x] /\ x \in Item
      BY <1>2, <2>2 DEF InventoryInv, ApprovedMatchesShelf
    <3> QED BY <1>2, <1>4, <1>8, <2>2, <3>1
  <2> QED BY <1>1, <2>1, <2>2
<1> QED BY <1>11, <1>13, <1>14, <1>15, <1>16, <1>17 DEF InventoryInv

\* What the requests read.
LEMMA AsksKeepCounts ==
    ASSUME InventoryInv, NEW r \in Staff, NEW c \in Count,
           \/ AskSubmit(r, c) \/ AskZero(r, c)
           \/ \E i \in Item : AskAdd(r, c, i)
           \/ \E i \in Item, step \in {"recount", "approveItem"} : AskItem(r, step, c, i)
    PROVE  InventoryInv'
<1>1. /\ Free \in StaffRequests /\ session[c].status \in SessionStatus
  BY CountTypes, FreshTypes DEF InventoryInv
<1>2. CASE AskSubmit(r, c)
  <2> DEFINE new == [Free EXCEPT !.step = "submit", !.count = c, !.seen = session[c].status]
  <2>1. Ask(r, new) /\ session[c].status \in Countable
    BY <1>2 DEF AskSubmit
  <2>2. new \in StaffRequests /\ new.step = "submit" /\ new.count = c
    BY <1>1 DEF StaffRequests, StaffSteps
  <2>3. session[c].status # "DRAFT"
    BY <2>1 DEF Countable
  <2> HIDE DEF new
  <2> QED BY <2>1, <2>2, <2>3, AskKeeps
<1>3. CASE AskZero(r, c)
  <2> DEFINE new == [Free EXCEPT !.step = "zero", !.count = c,
                                 !.left = {i \in Item : position[c][i].state = "open"}]
  <2>1. Ask(r, new) /\ session[c].status = "COUNTING"
    BY <1>3 DEF AskZero
  <2>2. new \in StaffRequests /\ new.step = "zero" /\ new.count = c
    BY <1>1 DEF StaffRequests, StaffSteps
  <2> HIDE DEF new
  <2> QED BY <2>1, <2>2, AskKeeps
<1>4. ASSUME NEW i \in Item, AskAdd(r, c, i) PROVE InventoryInv'
  <2> DEFINE based == moved[c][i] = 0
             new == [Free EXCEPT !.step = "add", !.count = c, !.item = i,
                                 !.snapshot = book[i], !.based = based]
  <2>1. Ask(r, new) /\ session[c].status \in Countable
    BY <1>4 DEF AskAdd
  <2>2. based \in BOOLEAN
    OBVIOUS
  <2>3. book[i] \in Stock /\ book[i] \in Int /\ moved[c][i] \in Int
    BY CountTypes DEF InventoryInv, InventoryTypeOK
  <2>4. based => book[i] = book[i] + moved[c][i]
    BY <2>3
  <2>5. session[c].status # "DRAFT"
    BY <2>1 DEF Countable
  <2> HIDE DEF based
  <2>6. /\ new \in StaffRequests /\ new.step = "add" /\ new.count = c /\ new.item = i
        /\ new.snapshot = book[i] /\ new.based = based
    BY <1>1, <2>2, <2>3 DEF StaffRequests, StaffSteps
  <2> HIDE DEF new
  <2> QED BY <2>1, <2>4, <2>5, <2>6, AskKeeps
<1>5. ASSUME NEW i \in Item, NEW step \in {"recount", "approveItem"}, AskItem(r, step, c, i)
      PROVE  InventoryInv'
  <2> DEFINE new == [Free EXCEPT !.step = step, !.count = c, !.item = i, !.seen = "REVIEW"]
  <2>1. Ask(r, new) /\ session[c].status = "REVIEW" /\ position[c][i].state # "none"
    BY <1>5 DEF AskItem
  <2>2. new \in StaffRequests /\ new.step = step /\ new.count = c /\ new.item = i
    BY <1>1 DEF StaffRequests, StaffSteps, SessionStatus
  <2> HIDE DEF new
  <2> QED BY <2>1, <2>2, AskKeeps
<1> QED BY <1>2, <1>3, <1>4, <1>5

\* Every step of the counting of a shop.
LEMMA InventoryStep == InventoryInv /\ [InventoryNext]_inventoryVars => InventoryInv'
<1> SUFFICES ASSUME InventoryInv, [InventoryNext]_inventoryVars PROVE InventoryInv'
  OBVIOUS
<1>1. ASSUME UNCHANGED inventoryVars PROVE InventoryInv'
  <2>1. UNCHANGED <<session, position, moved, book, shelf, staff, repaired, overwritten>>
    BY <1>1 DEF inventoryVars, countRows, goods, countHistory
  <2>2. InventoryTypeOK' /\ StaffHold'
    BY <2>1 DEF InventoryInv, InventoryTypeOK, StaffHold
  <2>3. /\ DraftsAreEmpty' /\ MovedFromStock' /\ BasedHold' /\ CountedAlone' /\ DeltaHolds'
        /\ ApprovedMatchesShelf'
    BY <2>1 DEF InventoryInv, DraftsAreEmpty, MovedFromStock, BasedHold, CountedAlone, DeltaHolds,
                ApprovedMatchesShelf
  <2> QED BY <2>2, <2>3 DEF InventoryInv
<1>2. ASSUME InventoryNext PROVE InventoryInv'
  BY <1>2, TradeKeeps, DraftKeeps, StartKeeps, CancelKeeps, ApproveKeeps, CountingKeeps,
     AsksKeepCounts, WrittenKeeps, ApproveItemKeeps, AddItemKeeps DEF InventoryNext
<1> QED BY <1>1, <1>2

\* However a count is started, filled in, approved, cancelled and deleted while
\* goods come and go, and whichever requests cross, an approved count has put
\* into the books what was on the shelf, but for the items the model names.
THEOREM CountsMatch == InventorySpec => []ApprovedMatchesShelf
<1>1. InventoryInv => ApprovedMatchesShelf
  BY DEF InventoryInv
<1> QED BY <1>1, InventoryBegins, InventoryStep, PTL DEF InventorySpec

-----------------------------------------------------------------------------
(* The count of an import.  A clerk's request holds an object, and the object
   under the id holds what the clerks were told as long as no request holds
   another one that had that id.  Of the import: one request at a time has the
   lock, nothing is finished while somebody has it, and the commits are bounded
   by the rollbacks and by what went unrecorded. *)
Scanning(q) == q.step # "idle"
Locking(q) == q.step \in {"importing", "applied"}

(* A request holds an object of its own time, and what nobody holds is new. *)
ObjectsKept ==
    /\ \A k \in Scanner : ~Scanning(scanner[k]) => scanner[k].object = NoObject
    /\ \A k \in Scanner : Scanning(scanner[k]) => scanner[k].object \in Object
    /\ \A o \in Object \ earlier : o # counting /\ (\A k \in Scanner : scanner[k].object # o) =>
           counts[o] = NewCount
    /\ counting = NoObject => earlier = {} /\ \A k \in Scanner : ~Scanning(scanner[k])
    /\ counting \notin earlier
    /\ ~overtaken => \A k \in Scanner : Scanning(scanner[k]) =>
           scanner[k].object = counting \/ scanner[k].object \in earlier

(* The count under the id says what the clerks were told. *)
ToldHolds == counting # NoObject /\ ~overtaken => counts[counting].scanned = told

\* No count has more than was scanned.
ScansBound ==
    /\ scans <= MaxScans
    /\ \A i \in ImportItem : -scans <= told[i] /\ told[i] <= scans
    /\ \A o \in Object, i \in ImportItem :
           -scans <= counts[o].scanned[i] /\ counts[o].scanned[i] <= scans

\* An accepted count has brought its import in.
AcceptedHold == \A o \in Object : counts[o].accepted => import.result

(* One request has the lock, and the import is not finished while it has it. *)
LocksHold ==
    /\ \A k \in Scanner : Locking(scanner[k]) => import.status # "completed"
    /\ \A j, k \in Scanner : Locking(scanner[j]) /\ Locking(scanner[k]) => j = k
    /\ \A k \in Scanner : scanner[k].step = "applied" => commits > 0
    /\ import.status = "completed" => import.result
    /\ ~import.saved => import.status = "completed"
    /\ import.result => commits > 0

(* The import comes in once for every rollback and unrecorded commit, and once
   more while its goods are in. *)
GoodsIn == import.status = "completed" \/ Applied
CommitsCount ==
    ~putBack => /\ GoodsIn => commits <= rollbacks + unrecorded + 1
                /\ ~GoodsIn => commits <= rollbacks + unrecorded

StocktakingInv ==
    /\ StocktakingTypeOK /\ ObjectsKept /\ ToldHolds /\ ScansBound
    /\ AcceptedHold /\ LocksHold /\ CommitsCount

LEMMA StocktakingTypes ==
    ASSUME StocktakingTypeOK
    PROVE  /\ counts \in [Object -> CountState] /\ counting \in Object \cup {NoObject}
           /\ earlier \subseteq Object /\ import \in Imports
           /\ scanner \in [Scanner -> ScanRequests]
           /\ overtaken \in BOOLEAN /\ putBack \in BOOLEAN
           /\ told \in [ImportItem -> Units] /\ \A i \in ImportItem : told[i] \in Int
           /\ \A o \in Object, i \in ImportItem : counts[o].scanned[i] \in Int
           /\ scans \in Nat /\ made \in Nat /\ commits \in Nat /\ rollbacks \in Nat
           /\ unrecorded \in Nat /\ MaxScans \in Nat
<1>1. MaxScans \in Nat
  BY StocktakingAssumption
<1>2. Units \subseteq Int
  BY <1>1 DEF Units
<1>3. counts \in [Object -> CountState] /\ told \in [ImportItem -> Units]
  BY DEF StocktakingTypeOK
<1>4. \A o \in Object : counts[o].scanned \in [ImportItem -> Units]
  BY <1>3 DEF CountState
<1>5. /\ \A i \in ImportItem : told[i] \in Int
      /\ \A o \in Object, i \in ImportItem : counts[o].scanned[i] \in Int
  BY <1>2, <1>3, <1>4
<1> QED BY <1>1, <1>3, <1>5 DEF StocktakingTypeOK

LEMMA NewTypes ==
    /\ NewCount \in CountState /\ NewCount.accepted = FALSE /\ NewCount.scanned = NothingScanned
    /\ NothingScanned \in [ImportItem -> Units] /\ \A i \in ImportItem : NothingScanned[i] = 0
    /\ NoScan \in ScanRequests /\ NoScan.step = "idle" /\ NoScan.object = NoObject
<1>1. 0 \in Units
  BY StocktakingAssumption DEF Units
<1>2. NothingScanned \in [ImportItem -> Units] /\ \A i \in ImportItem : NothingScanned[i] = 0
  BY <1>1 DEF NothingScanned
<1>3. (CHOOSE i \in ImportItem : TRUE) \in ImportItem
  BY StocktakingAssumption
<1>4. NoScan \in ScanRequests /\ NoScan.step = "idle" /\ NoScan.object = NoObject
  BY <1>3 DEF NoScan, ScanRequests
<1> QED BY <1>2, <1>4 DEF NewCount, CountState

LEMMA StocktakingBegins == StocktakingInit => StocktakingInv
<1> SUFFICES ASSUME StocktakingInit PROVE StocktakingInv
  OBVIOUS
<1>1. /\ counts = [o \in Object |-> NewCount] /\ counting = NoObject /\ earlier = {}
      /\ import = [status |-> "review", result |-> FALSE, numbered |-> FALSE, saved |-> TRUE]
      /\ scanner = [k \in Scanner |-> NoScan]
      /\ told = NothingScanned /\ overtaken = FALSE /\ putBack = FALSE
      /\ scans = 0 /\ made = 0 /\ commits = 0 /\ rollbacks = 0 /\ unrecorded = 0
  BY DEF StocktakingInit
<1>2. StocktakingTypeOK
  <2>1. counts \in [Object -> CountState] /\ scanner \in [Scanner -> ScanRequests]
    BY <1>1, NewTypes
  <2>2. {scans, made, commits, rollbacks, unrecorded} \subseteq Nat
    BY <1>1
  <2>3. told \in [ImportItem -> Units]
    BY <1>1, NewTypes
  <2>4. {overtaken, putBack} \subseteq BOOLEAN /\ counting \in Object \cup {NoObject}
    BY <1>1
  <2>5. import \in Imports /\ earlier \subseteq Object
    BY <1>1 DEF Imports
  <2> QED BY <2>1, <2>2, <2>3, <2>4, <2>5 DEF StocktakingTypeOK
<1>3. ObjectsKept /\ ToldHolds
  BY <1>1, NewTypes DEF ObjectsKept, ToldHolds, Scanning
<1>4. ScansBound
  BY <1>1, NewTypes, StocktakingAssumption DEF ScansBound
<1>5. AcceptedHold /\ LocksHold
  BY <1>1, NewTypes DEF AcceptedHold, LocksHold, Locking
<1>6. CommitsCount
  BY <1>1, NewTypes DEF CommitsCount, GoodsIn, Applied
<1> QED BY <1>2, <1>3, <1>4, <1>5, <1>6 DEF StocktakingInv

\* What is forgotten is new again, and what a request or an id refers to stays.
LEMMA KeptFacts ==
    ASSUME NEW objects \in [Object -> CountState], counts' = Kept(objects)
    PROVE  /\ counts' \in [Object -> CountState]
           /\ \A o \in Object : counts'[o] = objects[o] \/ counts'[o] = NewCount
           /\ \A o \in Object : o = counting' => counts'[o] = objects[o]
           /\ \A o \in Object \ earlier' :
                  o # counting' /\ (\A k \in Scanner : scanner'[k].object # o) =>
                  counts'[o] = NewCount
<1>1. \A o \in Object : counts'[o] =
          IF o \in Held(counting', earlier', scanner') THEN objects[o] ELSE NewCount
  BY DEF Kept
<1>2. \A o : o \in Held(counting', earlier', scanner') <=>
          (o = counting' \/ o \in earlier' \/ \E k \in Scanner : scanner'[k].object = o)
  BY DEF Held
<1>3. counts' = [o \in Object |-> counts'[o]]
  BY DEF Kept
<1>4. counts' \in [Object -> CountState]
  BY <1>1, <1>3, NewTypes
<1> QED BY <1>1, <1>2, <1>4

\* A request that is answered holds nothing; one that begins or goes on keeps to its object.
LEMMA RequestsHold ==
    ASSUME StocktakingInv, NEW k \in Scanner, NEW r \in ScanRequests,
           scanner' = [scanner EXCEPT ![k] = r], counting' = counting,
           earlier' = earlier, overtaken' = overtaken,
           NEW objects \in [Object -> CountState], counts' = Kept(objects),
           \/ r = NoScan
           \/ Scanning(r) /\ r.object \in earlier \cup ({counting} \ {NoObject})
           \/ Scanning(r) /\ Scanning(scanner[k]) /\ r.object = scanner[k].object
    PROVE  ObjectsKept'
<1>1. scanner \in [Scanner -> ScanRequests] /\ ObjectsKept /\ earlier \subseteq Object
      /\ counting \in Object \cup {NoObject}
  BY StocktakingTypes DEF StocktakingInv
<1>2. scanner'[k] = r /\ \A j \in Scanner \ {k} : scanner'[j] = scanner[j]
  BY <1>1
<1>3. /\ ~Scanning(r) => r.object = NoObject
      /\ Scanning(r) => r.object \in Object /\ counting # NoObject
      /\ Scanning(r) /\ ~overtaken => r.object = counting \/ r.object \in earlier
  BY <1>1, NewTypes DEF Scanning, ObjectsKept
<1>4. \A j \in Scanner :
          /\ ~Scanning(scanner'[j]) => scanner'[j].object = NoObject
          /\ Scanning(scanner'[j]) => scanner'[j].object \in Object /\ counting # NoObject
          /\ Scanning(scanner'[j]) /\ ~overtaken =>
                 scanner'[j].object = counting \/ scanner'[j].object \in earlier
  <2> SUFFICES ASSUME NEW j \in Scanner
      PROVE  /\ ~Scanning(scanner'[j]) => scanner'[j].object = NoObject
             /\ Scanning(scanner'[j]) => scanner'[j].object \in Object /\ counting # NoObject
             /\ Scanning(scanner'[j]) /\ ~overtaken =>
                    scanner'[j].object = counting \/ scanner'[j].object \in earlier
    OBVIOUS
  <2>1. CASE j = k
    BY <2>1, <1>2, <1>3
  <2>2. CASE j # k
    BY <2>2, <1>1, <1>2 DEF ObjectsKept
  <2> QED BY <2>1, <2>2
<1>5. \A o \in Object \ earlier' :
          o # counting' /\ (\A j \in Scanner : scanner'[j].object # o) => counts'[o] = NewCount
  BY KeptFacts
<1>6. counting' = NoObject => earlier' = {} /\ \A j \in Scanner : ~Scanning(scanner'[j])
  BY <1>1, <1>4 DEF ObjectsKept
<1>7. counting' \notin earlier'
  BY <1>1 DEF ObjectsKept
<1> QED BY <1>4, <1>5, <1>6, <1>7 DEF ObjectsKept, Scanning

\* What a request does that neither has the lock nor takes it.
LEMMA ImportStays ==
    ASSUME StocktakingInv, NEW k \in Scanner, NEW r \in ScanRequests,
           scanner' = [scanner EXCEPT ![k] = r], ~Locking(scanner[k]), ~Locking(r),
           import' = import, commits' = commits, rollbacks' = rollbacks,
           unrecorded' = unrecorded, putBack' = putBack
    PROVE  LocksHold' /\ CommitsCount'
<1>1. scanner \in [Scanner -> ScanRequests]
  BY StocktakingTypes DEF StocktakingInv
<1>2. scanner'[k] = r /\ \A j \in Scanner \ {k} : scanner'[j] = scanner[j]
  BY <1>1
<1>3. \A j \in Scanner : /\ Locking(scanner'[j]) <=> Locking(scanner[j])
                         /\ scanner'[j].step = "applied" <=> scanner[j].step = "applied"
  BY <1>2 DEF Locking
<1>4. LocksHold'
  BY <1>3 DEF LocksHold, StocktakingInv, Locking
<1>5. GoodsIn' <=> GoodsIn
  BY <1>3 DEF GoodsIn, Applied
<1> QED BY <1>4, <1>5 DEF CommitsCount, StocktakingInv

\* A count made anew: a new object, and those who hold the old one are noted.
LEMMA CreateHolds == StocktakingInv /\ CreateCount => StocktakingInv'
<1> SUFFICES ASSUME StocktakingInv, CreateCount PROVE StocktakingInv'
  OBVIOUS
<1> USE StocktakingTypes, NewTypes DEF StocktakingInv
<1>1. /\ counting' \in Object /\ counting' # counting /\ counting' \notin earlier
      /\ \A k \in Scanner : scanner[k].object # counting'
      /\ earlier' = IF import.numbered THEN earlier ELSE earlier \cup ({counting} \ {NoObject})
      /\ made' = made + 1 /\ told' = NothingScanned
      /\ overtaken' = \E k \in Scanner : scanner[k].step # "idle"
      /\ import' = [import EXCEPT !.numbered = TRUE] /\ scanner' = scanner /\ scans' = scans
      /\ commits' = commits /\ rollbacks' = rollbacks /\ unrecorded' = unrecorded
      /\ putBack' = putBack /\ counts' = Kept(counts)
  BY DEF CreateCount, Held, importHistory
<1>2. /\ counts' \in [Object -> CountState]
      /\ \A o \in Object : counts'[o] = counts[o] \/ counts'[o] = NewCount
      /\ counts'[counting'] = counts[counting']
      /\ \A o \in Object \ earlier' :
             o # counting' /\ (\A k \in Scanner : scanner'[k].object # o) => counts'[o] = NewCount
  BY <1>1, KeptFacts
<1>3. counts[counting'] = NewCount
  BY <1>1 DEF ObjectsKept
<1>4. /\ earlier' \subseteq Object /\ counting' \notin earlier'
  BY <1>1
<1>5. import' \in Imports /\ import'.status = import.status /\ import'.result = import.result
      /\ import'.saved = import.saved
  BY <1>1 DEF Imports
<1>6. StocktakingTypeOK'
  <2>1. {overtaken', putBack'} \subseteq BOOLEAN
    BY <1>1
  <2>2. {scans', made', commits', rollbacks', unrecorded'} \subseteq Nat
    BY <1>1
  <2>3. told' \in [ImportItem -> Units] /\ counting' \in Object \cup {NoObject}
    BY <1>1
  <2>4. scanner' \in [Scanner -> ScanRequests] /\ counts' \in [Object -> CountState]
    BY <1>1, <1>2
  <2> QED BY <2>1, <2>2, <2>3, <2>4, <1>4, <1>5 DEF StocktakingTypeOK
<1>7. ObjectsKept'
  <2>1. counting' # NoObject
    BY <1>1, StocktakingAssumption
  <2>2. overtaken' \/ \A k \in Scanner : ~Scanning(scanner'[k])
    BY <1>1 DEF Scanning
  <2>3. \A k \in Scanner : /\ ~Scanning(scanner'[k]) => scanner'[k].object = NoObject
                           /\ Scanning(scanner'[k]) => scanner'[k].object \in Object
    BY <1>1 DEF ObjectsKept
  <2> QED BY <2>1, <2>2, <2>3, <1>2, <1>4 DEF ObjectsKept, Scanning
<1>8. ToldHolds'
  BY <1>1, <1>2, <1>3 DEF ToldHolds
<1>9. ScansBound'
  BY <1>1, <1>2 DEF ScansBound
<1>10. AcceptedHold' /\ LocksHold'
  BY <1>1, <1>2, <1>5 DEF AcceptedHold, LocksHold, Locking
<1>11. CommitsCount'
  BY <1>1, <1>5 DEF CommitsCount, GoodsIn, Applied
<1> QED BY <1>6, <1>7, <1>8, <1>9, <1>10, <1>11

\* A request finds its object.
LEMMA BeginHolds ==
    ASSUME StocktakingInv, NEW k \in Scanner, NEW r \in ScanRequests, Resolve(k, r),
           Scanning(r), ~Locking(r)
    PROVE  StocktakingInv'
<1> USE StocktakingTypes, NewTypes DEF StocktakingInv
<1>1. /\ scanner[k].step = "idle" /\ r.object \in earlier \cup ({counting} \ {NoObject})
      /\ scanner' = [scanner EXCEPT ![k] = r]
      /\ counts' = counts /\ counting' = counting /\ earlier' = earlier /\ import' = import
      /\ told' = told /\ overtaken' = overtaken /\ scans' = scans /\ made' = made
      /\ commits' = commits /\ rollbacks' = rollbacks /\ unrecorded' = unrecorded
      /\ putBack' = putBack
  BY DEF Resolve, scanHistory, importHistory
<1>2. scanner' \in [Scanner -> ScanRequests]
  BY <1>1
<1>3. StocktakingTypeOK'
  <2>1. {overtaken', putBack'} \subseteq BOOLEAN
    BY <1>1
  <2>2. {scans', made', commits', rollbacks', unrecorded'} \subseteq Nat
    BY <1>1
  <2> QED BY <2>1, <2>2, <1>1, <1>2 DEF StocktakingTypeOK
<1>4. ObjectsKept'
  <2>1. scanner'[k] = r /\ \A j \in Scanner \ {k} : scanner'[j] = scanner[j]
    BY <1>1
  <2>2. scanner[k].object = NoObject
    BY <1>1 DEF ObjectsKept, Scanning
  <2>3. \A j \in Scanner :
            /\ ~Scanning(scanner'[j]) => scanner'[j].object = NoObject
            /\ Scanning(scanner'[j]) => scanner'[j].object \in Object
            /\ ~overtaken /\ Scanning(scanner'[j]) =>
                   scanner'[j].object = counting \/ scanner'[j].object \in earlier
    BY <1>1, <2>1 DEF ObjectsKept, Scanning
  <2>4. \A o \in Object \ earlier :
            o # counting /\ (\A j \in Scanner : scanner'[j].object # o) => counts[o] = NewCount
    <3> SUFFICES ASSUME NEW o \in Object \ earlier, o # counting,
                        \A j \in Scanner : scanner'[j].object # o
        PROVE  counts[o] = NewCount
      OBVIOUS
    <3>1. \A j \in Scanner : scanner[j].object # o
      BY <2>1, <2>2, StocktakingAssumption
    <3> QED BY <3>1 DEF ObjectsKept
  <2>5. counting # NoObject /\ counting \notin earlier
    BY <1>1 DEF ObjectsKept
  <2> QED BY <1>1, <2>3, <2>4, <2>5 DEF ObjectsKept, Scanning
<1>5. ToldHolds' /\ ScansBound' /\ AcceptedHold'
  BY <1>1 DEF ToldHolds, ScansBound, AcceptedHold
<1>6. ~Locking(scanner[k])
  BY <1>1 DEF Locking
<1>7. LocksHold' /\ CommitsCount'
  BY <1>1, <1>6, ImportStays
<1> QED BY <1>3, <1>4, <1>5, <1>7

\* A scan adds to the object it had found, and to what the clerk is told of the
\* count under the id.
LEMMA ScanHolds ==
    ASSUME StocktakingInv, NEW k \in Scanner, Scan(k)
    PROVE  StocktakingInv'
<1> DEFINE o == scanner[k].object
           i == scanner[k].item
           q == scanner[k].quantity
           old == counts[o]
           new == Scanned(old, i, q)
           objects == [counts EXCEPT ![o] = new]
<1> USE StocktakingTypes, NewTypes DEF StocktakingInv
<1>1. /\ scanner[k].step = "scan" /\ scans < MaxScans /\ scans' = scans + 1
      /\ told' = IF o \in earlier THEN told ELSE [told EXCEPT ![i] = told[i] + q]
      /\ scanner' = [scanner EXCEPT ![k] = NoScan]
      /\ counting' = counting /\ earlier' = earlier /\ import' = import
      /\ overtaken' = overtaken /\ made' = made
      /\ commits' = commits /\ rollbacks' = rollbacks /\ unrecorded' = unrecorded
      /\ putBack' = putBack /\ counts' = Kept(objects)
  BY DEF Scan, Answered, importHistory
<1>2. /\ o \in Object /\ i \in ImportItem /\ q \in {-1, 1} /\ counting # NoObject
      /\ ~overtaken => o = counting \/ o \in earlier
  BY <1>1 DEF ObjectsKept, Scanning, ScanRequests
<1>3. /\ new = [old EXCEPT !.scanned = [old.scanned EXCEPT ![i] = old.scanned[i] + q]]
      /\ old \in CountState /\ old.scanned \in [ImportItem -> Units] /\ old.accepted \in BOOLEAN
  BY <1>2 DEF Scanned, CountState
<1>4. /\ \A j \in ImportItem : -(scans + 1) <= old.scanned[j] /\ old.scanned[j] <= scans + 1
      /\ -(scans + 1) <= old.scanned[i] + q /\ old.scanned[i] + q <= scans + 1
      /\ \A j \in ImportItem : -(scans + 1) <= told[j] /\ told[j] <= scans + 1
      /\ -(scans + 1) <= told[i] + q /\ told[i] + q <= scans + 1
      /\ old.scanned[i] + q \in Int /\ told[i] + q \in Int /\ scans + 1 <= MaxScans
  <2>1. /\ \A j \in ImportItem : old.scanned[j] \in Int /\ told[j] \in Int
        /\ \A j \in ImportItem : /\ -scans <= told[j] /\ told[j] <= scans
                                 /\ -scans <= old.scanned[j] /\ old.scanned[j] <= scans
    BY <1>2 DEF ScansBound
  <2>2. q \in Int /\ -1 <= q /\ q <= 1
    BY <1>2
  <2> HIDE DEF o, i, q, old, new, objects
  <2> QED BY <1>1, <1>2, <2>1, <2>2
<1>5. old.scanned[i] + q \in Units /\ told[i] + q \in Units
  <2> HIDE DEF o, i, q, old, new, objects
  <2> QED BY <1>4 DEF Units
<1>6. told' \in [ImportItem -> Units]
  <2> HIDE DEF o, i, q, old, new, objects
  <2> QED BY <1>1, <1>2, <1>5
<1>7. /\ new \in CountState /\ new.accepted = old.accepted
      /\ new.scanned = [old.scanned EXCEPT ![i] = old.scanned[i] + q]
  <2> HIDE DEF o, i, q, old, new, objects
  <2>1. [old.scanned EXCEPT ![i] = old.scanned[i] + q] \in [ImportItem -> Units]
    BY <1>2, <1>3, <1>5
  <2> QED BY <1>3, <2>1 DEF CountState
<1>8. /\ objects \in [Object -> CountState] /\ objects[o] = new
      /\ \A p \in Object \ {o} : objects[p] = counts[p]
  <2> HIDE DEF o, i, q, old, new
  <2> QED BY <1>2, <1>7
<1> HIDE DEF objects
<1>9. /\ counts' \in [Object -> CountState]
      /\ \A p \in Object : counts'[p] = objects[p] \/ counts'[p] = NewCount
      /\ counting \in Object => counts'[counting] = objects[counting]
  BY <1>1, <1>8, KeptFacts
<1>10. StocktakingTypeOK'
  <2>1. {overtaken', putBack'} \subseteq BOOLEAN
    BY <1>1
  <2>2. {scans', made', commits', rollbacks', unrecorded'} \subseteq Nat
    BY <1>1
  <2>3. scanner' \in [Scanner -> ScanRequests]
    BY <1>1
  <2> QED BY <2>1, <2>2, <2>3, <1>1, <1>6, <1>9 DEF StocktakingTypeOK
<1>11. ObjectsKept'
  BY <1>1, <1>8, RequestsHold
<1>12. ToldHolds'
  <2> SUFFICES ASSUME ~overtaken PROVE counts'[counting].scanned = told'
    BY <1>1, <1>2 DEF ToldHolds
  <2>1. counts[counting].scanned = told /\ counting \in Object /\ counting \notin earlier
    BY <1>2 DEF ToldHolds, ObjectsKept
  <2>2. CASE o \in earlier
    BY <2>1, <2>2, <1>1, <1>8, <1>9
  <2>3. CASE o \notin earlier
    <3>1. counting = o
      BY <2>3, <1>2
    <3> QED BY <2>1, <2>3, <3>1, <1>1, <1>7, <1>8, <1>9
  <2> QED BY <2>2, <2>3
<1>13. ScansBound'
  <2>1. \A j \in ImportItem : -scans' <= told'[j] /\ told'[j] <= scans'
    <3> HIDE DEF o, i, q, old, new
    <3> QED BY <1>1, <1>2, <1>4
  <2>2. \A p \in Object, j \in ImportItem :
            -scans' <= objects[p].scanned[j] /\ objects[p].scanned[j] <= scans'
    <3> SUFFICES ASSUME NEW p \in Object, NEW j \in ImportItem
        PROVE  -scans' <= objects[p].scanned[j] /\ objects[p].scanned[j] <= scans'
      OBVIOUS
    <3>1. CASE p = o
      <4>1. objects[p].scanned[j] = IF j = i THEN old.scanned[i] + q ELSE old.scanned[j]
        <5> HIDE DEF o, i, q, old, new
        <5> QED BY <3>1, <1>2, <1>3, <1>7, <1>8
      <4> HIDE DEF o, i, q, old, new
      <4> QED BY <4>1, <1>1, <1>4
    <3>2. CASE p # o
      <4>1. objects[p] = counts[p]
        BY <3>2, <1>8
      <4>2. -scans <= counts[p].scanned[j] /\ counts[p].scanned[j] <= scans
        BY DEF ScansBound
      <4> QED BY <4>1, <4>2, <1>1
    <3> QED BY <3>1, <3>2
  <2>3. \A p \in Object, j \in ImportItem :
            -scans' <= counts'[p].scanned[j] /\ counts'[p].scanned[j] <= scans'
    <3> SUFFICES ASSUME NEW p \in Object, NEW j \in ImportItem
        PROVE  -scans' <= counts'[p].scanned[j] /\ counts'[p].scanned[j] <= scans'
      OBVIOUS
    <3>1. CASE counts'[p] = objects[p]
      BY <3>1, <2>2
    <3>2. CASE counts'[p] = NewCount
      BY <3>2, <1>1
    <3> QED BY <3>1, <3>2, <1>9
  <2> QED BY <2>1, <2>3, <1>1 DEF ScansBound
<1>14. AcceptedHold'
  <2>1. \A p \in Object : objects[p].accepted => counts[p].accepted
    BY <1>7, <1>8
  <2> QED BY <2>1, <1>1, <1>9 DEF AcceptedHold
<1>15. LocksHold' /\ CommitsCount'
  <2>1. ~Locking(scanner[k]) /\ ~Locking(NoScan)
    BY <1>1 DEF Locking
  <2> QED BY <1>1, <2>1, ImportStays
<1> QED BY <1>10, <1>11, <1>12, <1>13, <1>14, <1>15

\* What an acceptance that is answered or goes on leaves of the counts.
LEMMA AnswerHolds ==
    ASSUME StocktakingInv, NEW k \in Scanner, Scanning(scanner[k]),
           NEW r \in ScanRequests, scanner' = [scanner EXCEPT ![k] = r],
           r = NoScan \/ (Scanning(r) /\ r.object = scanner[k].object),
           NEW objects \in [Object -> CountState], counts' = Kept(objects),
           \A o \in Object : objects[o].scanned = counts[o].scanned,
           \A o \in Object : objects[o].accepted => import'.result,
           counting' = counting, earlier' = earlier, told' = told, overtaken' = overtaken,
           scans' = scans, made' = made, import' \in Imports,
           commits' \in Nat, rollbacks' \in Nat, unrecorded' \in Nat, putBack' \in BOOLEAN,
           LocksHold', CommitsCount'
    PROVE  StocktakingInv'
<1> USE StocktakingTypes, NewTypes DEF StocktakingInv
<1>1. /\ counts' \in [Object -> CountState]
      /\ \A p \in Object : counts'[p] = objects[p] \/ counts'[p] = NewCount
      /\ counting \in Object => counts'[counting] = objects[counting]
  BY KeptFacts
<1>2. StocktakingTypeOK'
  <2>1. {overtaken', putBack'} \subseteq BOOLEAN
    OBVIOUS
  <2>2. {scans', made', commits', rollbacks', unrecorded'} \subseteq Nat
    OBVIOUS
  <2>3. scanner' \in [Scanner -> ScanRequests]
    OBVIOUS
  <2> QED BY <2>1, <2>2, <2>3, <1>1 DEF StocktakingTypeOK
<1>3. ObjectsKept'
  BY RequestsHold
<1>4. ToldHolds'
  BY <1>1 DEF ToldHolds
<1>5. ScansBound'
  <2> SUFFICES ASSUME NEW p \in Object, NEW j \in ImportItem
      PROVE  -scans <= counts'[p].scanned[j] /\ counts'[p].scanned[j] <= scans
    BY DEF ScansBound
  <2>1. counts'[p].scanned = counts[p].scanned \/ counts'[p].scanned = NothingScanned
    BY <1>1
  <2>2. -scans <= counts[p].scanned[j] /\ counts[p].scanned[j] <= scans
    BY DEF ScansBound
  <2> QED BY <2>1, <2>2
<1>6. AcceptedHold'
  BY <1>1 DEF AcceptedHold
<1> QED BY <1>2, <1>3, <1>4, <1>5, <1>6

\* An accepted count is answered, another goes on to the commit.
LEMMA AcceptHolds ==
    ASSUME StocktakingInv, NEW k \in Scanner, Accept(k)
    PROVE  StocktakingInv'
<1> DEFINE r == scanner'[k]
<1> USE StocktakingTypes, NewTypes DEF StocktakingInv
<1>1. /\ scanner[k].step = "accept" /\ counting' = counting /\ earlier' = earlier
      /\ import' = import /\ told' = told /\ overtaken' = overtaken /\ scans' = scans
      /\ made' = made /\ commits' = commits /\ rollbacks' = rollbacks
      /\ unrecorded' = unrecorded /\ putBack' = putBack /\ counts' = Kept(counts)
      /\ \/ scanner' = [scanner EXCEPT ![k] = NoScan]
         \/ scanner' = [scanner EXCEPT ![k].step = "commit"]
  BY DEF Accept, Answered, Goto, scanHistory, importHistory
<1>2. [scanner[k] EXCEPT !.step = "commit"] \in ScanRequests
  BY DEF ScanRequests
<1>3. /\ r \in ScanRequests /\ scanner' = [scanner EXCEPT ![k] = r]
      /\ r = NoScan \/ (Scanning(r) /\ r.object = scanner[k].object)
      /\ ~Locking(r)
  BY <1>1, <1>2 DEF Scanning, ScanRequests, Locking
<1>4. Scanning(scanner[k]) /\ ~Locking(scanner[k])
  BY <1>1 DEF Scanning, Locking
<1> HIDE DEF r
<1>5. LocksHold' /\ CommitsCount'
  BY <1>1, <1>3, <1>4, ImportStays
<1>6. \A o \in Object : counts[o].accepted => import'.result
  BY <1>1 DEF AcceptedHold
<1> QED BY <1>1, <1>3, <1>4, <1>5, <1>6, AnswerHolds

\* The object of a request, marked.
LEMMA MarkFacts ==
    ASSUME StocktakingInv, NEW k \in Scanner, Scanning(scanner[k]), import'.result
    PROVE  LET marked == [counts EXCEPT ![scanner[k].object].accepted = TRUE]
           IN  /\ marked \in [Object -> CountState]
               /\ \A o \in Object : marked[o].scanned = counts[o].scanned
               /\ \A o \in Object : marked[o].accepted => import'.result
<1> DEFINE o == scanner[k].object
           new == [counts[o] EXCEPT !.accepted = TRUE]
           marked == [counts EXCEPT ![o] = new]
<1> USE StocktakingTypes DEF StocktakingInv
<1>1. o \in Object
  BY DEF ObjectsKept
<1>2. new \in CountState /\ new.scanned = counts[o].scanned
  BY <1>1 DEF CountState
<1>3. /\ marked \in [Object -> CountState] /\ marked[o] = new
      /\ \A p \in Object \ {o} : marked[p] = counts[p]
  <2> HIDE DEF o, new
  <2> QED BY <1>1, <1>2
<1>4. marked = [counts EXCEPT ![scanner[k].object].accepted = TRUE]
  OBVIOUS
<1> HIDE DEF o, new, marked
<1> QED BY <1>2, <1>3, <1>4

\* A finished import is answered and its count is marked.
LEMMA AnsweredHolds ==
    ASSUME StocktakingInv, NEW k \in Scanner, CommitAnswered(k)
    PROVE  StocktakingInv'
<1> DEFINE marked == [counts EXCEPT ![scanner[k].object].accepted = TRUE]
<1> USE StocktakingTypes, NewTypes DEF StocktakingInv
<1>1. /\ scanner[k].step = "commit" /\ import.result /\ counting' = counting
      /\ earlier' = earlier /\ import' = import /\ told' = told /\ overtaken' = overtaken
      /\ scans' = scans /\ made' = made /\ commits' = commits /\ rollbacks' = rollbacks
      /\ unrecorded' = unrecorded /\ putBack' = putBack /\ counts' = Kept(marked)
      /\ scanner' = [scanner EXCEPT ![k] = NoScan]
  BY DEF CommitAnswered, Committed, MarkAccepted, Answered, scanHistory, importHistory
<1>2. Scanning(scanner[k]) /\ ~Locking(scanner[k]) /\ ~Locking(NoScan)
  BY <1>1 DEF Scanning, Locking
<1>3. LocksHold' /\ CommitsCount'
  BY <1>1, <1>2, ImportStays
<1>4. /\ marked \in [Object -> CountState]
      /\ \A o \in Object : marked[o].scanned = counts[o].scanned
      /\ \A o \in Object : marked[o].accepted => import'.result
  BY <1>1, <1>2, MarkFacts
<1> HIDE DEF marked
<1> QED BY <1>1, <1>2, <1>3, <1>4, AnswerHolds

\* The lock is taken only when nobody has it, and the import is then not finished.
LEMMA BeginCommitHolds ==
    ASSUME StocktakingInv, NEW k \in Scanner, BeginCommit(k)
    PROVE  StocktakingInv'
<1> USE StocktakingTypes, NewTypes DEF StocktakingInv
<1> DEFINE r == [scanner[k] EXCEPT !.step = "importing"]
<1>1. /\ scanner[k].step = "commit" /\ ~Committed /\ ~Locked
      /\ import' = [import EXCEPT !.status = "review"] /\ scanner' = [scanner EXCEPT ![k] = r]
      /\ counts' = counts /\ counting' = counting /\ earlier' = earlier
      /\ told' = told /\ overtaken' = overtaken
      /\ scans' = scans /\ made' = made /\ commits' = commits /\ rollbacks' = rollbacks
      /\ unrecorded' = unrecorded /\ putBack' = putBack
  BY DEF BeginCommit, Goto, scanHistory, importHistory
<1>2. r \in ScanRequests /\ r.step = "importing" /\ r.object = scanner[k].object
  BY DEF ScanRequests
<1> HIDE DEF r
<1>3. scanner'[k] = r /\ \A j \in Scanner \ {k} : scanner'[j] = scanner[j]
  BY <1>1
<1>4. /\ import' \in Imports /\ import'.status = "review" /\ import'.result = import.result
      /\ import'.saved = import.saved /\ import.status # "completed"
  BY <1>1 DEF Imports, Committed, LocksHold
<1>5. /\ \A j \in Scanner : scanner[j].step # "applied" /\ ~Locking(scanner[j])
      /\ \A j \in Scanner : scanner'[j].step # "applied"
      /\ \A j \in Scanner : Locking(scanner'[j]) => j = k
  BY <1>1, <1>2, <1>3 DEF Locked, Locking
<1>6. LocksHold'
  BY <1>1, <1>4, <1>5 DEF LocksHold, Locking
<1>7. CommitsCount'
  BY <1>1, <1>4, <1>5 DEF CommitsCount, GoodsIn, Applied
<1>8. StocktakingTypeOK'
  <2>1. {overtaken', putBack'} \subseteq BOOLEAN
    BY <1>1
  <2>2. {scans', made', commits', rollbacks', unrecorded'} \subseteq Nat
    BY <1>1
  <2>3. scanner' \in [Scanner -> ScanRequests]
    BY <1>1, <1>2
  <2> QED BY <2>1, <2>2, <2>3, <1>1, <1>4 DEF StocktakingTypeOK
<1>9. ObjectsKept'
  <2>1. \A j \in Scanner : /\ scanner'[j].object = scanner[j].object
                           /\ Scanning(scanner'[j]) <=> Scanning(scanner[j])
    BY <1>1, <1>2, <1>3 DEF Scanning
  <2> QED BY <2>1, <1>1 DEF ObjectsKept, Scanning
<1>10. ToldHolds' /\ ScansBound' /\ AcceptedHold'
  BY <1>1, <1>4 DEF ToldHolds, ScansBound, AcceptedHold
<1> QED BY <1>6, <1>7, <1>8, <1>9, <1>10

\* The goods come in: nobody else's are in unrecorded.
LEMMA ApplyCountHolds ==
    ASSUME StocktakingInv, NEW k \in Scanner, ApplyCount(k)
    PROVE  StocktakingInv'
<1> USE StocktakingTypes, NewTypes DEF StocktakingInv
<1> DEFINE r == [scanner[k] EXCEPT !.step = "applied"]
<1>1. /\ scanner[k].step = "importing" /\ commits' = commits + 1
      /\ import' = import /\ scanner' = [scanner EXCEPT ![k] = r]
      /\ counts' = counts /\ counting' = counting /\ earlier' = earlier
      /\ told' = told /\ overtaken' = overtaken
      /\ scans' = scans /\ made' = made /\ rollbacks' = rollbacks
      /\ unrecorded' = unrecorded /\ putBack' = putBack
  BY DEF ApplyCount, Goto, scanHistory
<1>2. r \in ScanRequests /\ r.step = "applied" /\ r.object = scanner[k].object
  BY DEF ScanRequests
<1> HIDE DEF r
<1>3. scanner'[k] = r /\ \A j \in Scanner \ {k} : scanner'[j] = scanner[j]
  BY <1>1
<1>4. /\ import.status # "completed" /\ \A j \in Scanner \ {k} : ~Locking(scanner[j])
      /\ \A j \in Scanner : scanner[j].step # "applied"
  BY <1>1 DEF LocksHold, Locking
<1>5. commits' \in Nat /\ commits' > 0
  BY <1>1
<1>6. LocksHold'
  BY <1>1, <1>3, <1>4, <1>5 DEF LocksHold, Locking
<1>7. CommitsCount'
  <2>1. ~GoodsIn /\ GoodsIn'
    BY <1>1, <1>2, <1>3, <1>4 DEF GoodsIn, Applied
  <2> QED BY <2>1, <1>1 DEF CommitsCount
<1>8. StocktakingTypeOK'
  <2>1. {overtaken', putBack'} \subseteq BOOLEAN
    BY <1>1
  <2>2. {scans', made', commits', rollbacks', unrecorded'} \subseteq Nat
    BY <1>1, <1>5
  <2>3. scanner' \in [Scanner -> ScanRequests]
    BY <1>1, <1>2
  <2> QED BY <2>1, <2>2, <2>3, <1>1 DEF StocktakingTypeOK
<1>9. ObjectsKept'
  <2>1. \A j \in Scanner : /\ scanner'[j].object = scanner[j].object
                           /\ Scanning(scanner'[j]) <=> Scanning(scanner[j])
    BY <1>1, <1>2, <1>3 DEF Scanning
  <2> QED BY <2>1, <1>1 DEF ObjectsKept, Scanning
<1>10. ToldHolds' /\ ScansBound' /\ AcceptedHold'
  BY <1>1 DEF ToldHolds, ScansBound, AcceptedHold
<1> QED BY <1>6, <1>7, <1>8, <1>9, <1>10

\* Who had the lock gives it back: then nobody has it.
LEMMA LockReturns ==
    ASSUME StocktakingInv, NEW k \in Scanner, Locking(scanner[k]),
           scanner' = [scanner EXCEPT ![k] = NoScan]
    PROVE  /\ import.status # "completed"
           /\ \A j \in Scanner : ~Locking(scanner'[j]) /\ scanner'[j].step # "applied"
           /\ ~Applied' /\ (Applied <=> scanner[k].step = "applied")
<1> USE StocktakingTypes, NewTypes DEF StocktakingInv
<1>1. scanner'[k] = NoScan /\ \A j \in Scanner \ {k} : scanner'[j] = scanner[j]
  OBVIOUS
<1>2. import.status # "completed" /\ \A j \in Scanner \ {k} : ~Locking(scanner[j])
  BY DEF LocksHold
<1>3. \A j \in Scanner : ~Locking(scanner'[j]) /\ scanner'[j].step # "applied"
  BY <1>1, <1>2 DEF Locking
<1> QED BY <1>2, <1>3 DEF Applied, Locking

\* The result is kept, and the count is marked when the row was written.
LEMMA FinishHolds ==
    ASSUME StocktakingInv, NEW k \in Scanner, NEW saved \in BOOLEAN, FinishCommit(k, saved)
    PROVE  StocktakingInv'
<1> DEFINE marked == [counts EXCEPT ![scanner[k].object].accepted = TRUE]
<1> USE StocktakingTypes, NewTypes DEF StocktakingInv
<1>1. /\ scanner[k].step = "applied" /\ counting' = counting /\ earlier' = earlier
      /\ import' = [import EXCEPT !.status = "completed", !.result = TRUE, !.saved = saved]
      /\ told' = told /\ overtaken' = overtaken
      /\ scans' = scans /\ made' = made /\ commits' = commits /\ rollbacks' = rollbacks
      /\ unrecorded' = unrecorded /\ putBack' = putBack
      /\ counts' = Kept(IF saved THEN marked ELSE counts)
      /\ scanner' = [scanner EXCEPT ![k] = NoScan]
  BY DEF FinishCommit, MarkAccepted, Answered, scanHistory, importHistory
<1>2. Scanning(scanner[k]) /\ Locking(scanner[k])
  BY <1>1 DEF Scanning, Locking
<1>3. import' \in Imports /\ import'.status = "completed" /\ import'.result
  BY <1>1 DEF Imports
<1>4. \A j \in Scanner : ~Locking(scanner'[j]) /\ scanner'[j].step # "applied"
  BY <1>1, <1>2, LockReturns
<1>5. commits' > 0
  BY <1>1 DEF LocksHold
<1>6. LocksHold'
  BY <1>3, <1>4, <1>5 DEF LocksHold, Locking
<1>7. CommitsCount'
  <2>1. GoodsIn /\ GoodsIn'
    BY <1>1, <1>3 DEF GoodsIn, Applied
  <2> QED BY <2>1, <1>1 DEF CommitsCount
<1>8. /\ marked \in [Object -> CountState]
      /\ \A o \in Object : marked[o].scanned = counts[o].scanned
      /\ \A o \in Object : marked[o].accepted => import'.result
  BY <1>2, <1>3, MarkFacts
<1> HIDE DEF marked
<1>9. CASE saved
  BY <1>1, <1>2, <1>3, <1>6, <1>7, <1>8, <1>9, AnswerHolds
<1>10. CASE ~saved
  BY <1>1, <1>2, <1>3, <1>6, <1>7, <1>10, AnswerHolds
<1> QED BY <1>9, <1>10

\* A commit that fails leaves its goods unrecorded when they are in.
LEMMA FailsHolds ==
    ASSUME StocktakingInv, NEW k \in Scanner, CommitFails(k)
    PROVE  StocktakingInv'
<1> USE StocktakingTypes, NewTypes DEF StocktakingInv
<1>1. /\ scanner[k].step \in {"commit", "importing", "applied"}
      /\ scanner[k].step = "applied" => unrecorded' = unrecorded + 1
      /\ scanner[k].step # "applied" => unrecorded' = unrecorded
      /\ counting' = counting /\ earlier' = earlier /\ import' = import
      /\ told' = told /\ overtaken' = overtaken
      /\ scans' = scans /\ made' = made /\ commits' = commits /\ rollbacks' = rollbacks
      /\ putBack' = putBack /\ counts' = Kept(counts)
      /\ scanner' = [scanner EXCEPT ![k] = NoScan]
  BY DEF CommitFails, Answered, scanHistory
<1>2. Scanning(scanner[k]) /\ unrecorded' \in Nat
  BY <1>1 DEF Scanning
<1>3. LocksHold' /\ CommitsCount'
  <2>1. CASE scanner[k].step = "commit"
    <3>1. ~Locking(scanner[k]) /\ ~Locking(NoScan)
      BY <2>1 DEF Locking
    <3> QED BY <1>1, <2>1, <3>1, ImportStays
  <2>2. CASE scanner[k].step # "commit"
    <3>1. /\ import.status # "completed"
          /\ \A j \in Scanner : ~Locking(scanner'[j]) /\ scanner'[j].step # "applied"
          /\ ~Applied' /\ (Applied <=> scanner[k].step = "applied")
      BY <1>1, <2>2, LockReturns DEF Locking
    <3>2. LocksHold'
      BY <1>1, <3>1 DEF LocksHold, Locking
    <3>3. ~GoodsIn' /\ (GoodsIn <=> scanner[k].step = "applied")
      BY <1>1, <3>1 DEF GoodsIn
    <3> QED BY <1>1, <3>2, <3>3 DEF CommitsCount
  <2> QED BY <2>1, <2>2
<1>4. \A o \in Object : counts[o].accepted => import'.result
  BY <1>1 DEF AcceptedHold
<1> QED BY <1>1, <1>2, <1>3, <1>4, AnswerHolds

\* The rollback keeps the result of the import.
LEMMA RollbackHolds == StocktakingInv /\ RollbackCounted => StocktakingInv'
<1> SUFFICES ASSUME StocktakingInv, RollbackCounted PROVE StocktakingInv'
  OBVIOUS
<1> USE StocktakingTypes, NewTypes DEF StocktakingInv
<1>1. /\ import.status = "completed"
      /\ import' = [import EXCEPT !.status = "rolled_back", !.saved = TRUE]
      /\ rollbacks' = rollbacks + 1 /\ counts' = counts /\ counting' = counting
      /\ earlier' = earlier /\ scanner' = scanner /\ told' = told /\ overtaken' = overtaken
      /\ scans' = scans /\ made' = made /\ commits' = commits /\ unrecorded' = unrecorded
      /\ putBack' = putBack
  BY DEF RollbackCounted, scanHistory
<1>2. /\ import' \in Imports /\ import'.status = "rolled_back"
      /\ import'.result = import.result /\ import'.saved
  BY <1>1 DEF Imports
<1>3. StocktakingTypeOK'
  <2>1. {overtaken', putBack'} \subseteq BOOLEAN
    BY <1>1
  <2>2. {scans', made', commits', rollbacks', unrecorded'} \subseteq Nat
    BY <1>1
  <2> QED BY <2>1, <2>2, <1>1, <1>2 DEF StocktakingTypeOK
<1>4. ObjectsKept' /\ ToldHolds' /\ ScansBound'
  BY <1>1 DEF ObjectsKept, ToldHolds, ScansBound, Scanning
<1>5. AcceptedHold' /\ LocksHold'
  BY <1>1, <1>2 DEF AcceptedHold, LocksHold, Locking
<1>6. CommitsCount'
  <2>1. ~GoodsIn' /\ GoodsIn
    BY <1>1, <1>2 DEF GoodsIn, Applied, LocksHold, Locking
  <2> QED BY <2>1, <1>1 DEF CommitsCount
<1> QED BY <1>3, <1>4, <1>5, <1>6

\* A status written over a finished import is noted.
LEMMA StatusHolds ==
    ASSUME StocktakingInv, NEW changed \in Imports, WriteStatus(changed),
           changed.status # "completed", changed.result = import.result, changed.saved
    PROVE  StocktakingInv'
<1> USE StocktakingTypes, NewTypes DEF StocktakingInv
<1>1. /\ import' = changed /\ putBack' = (putBack \/ import.status = "completed")
      /\ counts' = counts /\ counting' = counting /\ earlier' = earlier
      /\ scanner' = scanner /\ told' = told /\ overtaken' = overtaken
      /\ scans' = scans /\ made' = made /\ commits' = commits /\ rollbacks' = rollbacks
      /\ unrecorded' = unrecorded
  BY DEF WriteStatus, scanHistory
<1>2. StocktakingTypeOK'
  <2>1. {overtaken', putBack'} \subseteq BOOLEAN
    BY <1>1
  <2>2. {scans', made', commits', rollbacks', unrecorded'} \subseteq Nat
    BY <1>1
  <2> QED BY <2>1, <2>2, <1>1 DEF StocktakingTypeOK
<1>3. ObjectsKept' /\ ToldHolds' /\ ScansBound'
  BY <1>1 DEF ObjectsKept, ToldHolds, ScansBound, Scanning
<1>4. AcceptedHold' /\ LocksHold'
  BY <1>1 DEF AcceptedHold, LocksHold, Locking
<1>5. CommitsCount'
  <2> SUFFICES ASSUME ~putBack' PROVE CommitsCount'
    BY DEF CommitsCount
  <2>1. ~putBack /\ (GoodsIn' <=> GoodsIn)
    BY <1>1 DEF GoodsIn, Applied
  <2> QED BY <2>1, <1>1 DEF CommitsCount
<1> QED BY <1>2, <1>3, <1>4, <1>5

\* The import is cancelled, or its file checked anew.
LEMMA PutBackHolds == StocktakingInv /\ (CancelCounted \/ CheckAnew) => StocktakingInv'
<1> SUFFICES ASSUME StocktakingInv, CancelCounted \/ CheckAnew PROVE StocktakingInv'
  OBVIOUS
<1>1. import \in Imports
  BY StocktakingTypes DEF StocktakingInv
<1>2. CASE CancelCounted
  <2> DEFINE changed == [import EXCEPT !.status = "cancelled", !.saved = TRUE]
  <2>1. /\ changed \in Imports /\ changed.status # "completed"
        /\ changed.result = import.result /\ changed.saved
    BY <1>1 DEF Imports
  <2>2. WriteStatus(changed)
    BY <1>2 DEF CancelCounted
  <2> HIDE DEF changed
  <2> QED BY <2>1, <2>2, StatusHolds
<1>3. CASE CheckAnew
  <2> DEFINE changed == [import EXCEPT !.status = "review", !.numbered = FALSE, !.saved = TRUE]
  <2>1. /\ changed \in Imports /\ changed.status # "completed"
        /\ changed.result = import.result /\ changed.saved
    BY <1>1 DEF Imports
  <2>2. WriteStatus(changed)
    BY <1>3 DEF CheckAnew
  <2> HIDE DEF changed
  <2> QED BY <2>1, <2>2, StatusHolds
<1> QED BY <1>2, <1>3

\* The server stops: a commit whose row was not written is unrecorded from then on.
LEMMA ForgetHolds == StocktakingInv /\ ForgetCounts => StocktakingInv'
<1> SUFFICES ASSUME StocktakingInv, ForgetCounts PROVE StocktakingInv'
  OBVIOUS
<1> USE StocktakingTypes, NewTypes DEF StocktakingInv
<1>1. /\ counting' = NoObject /\ earlier' = {} /\ counts' = [o \in Object |-> NewCount]
      /\ scanner' = [k \in Scanner |-> NoScan] /\ told' = NothingScanned /\ overtaken' = FALSE
      /\ import' = IF import.saved THEN import
                   ELSE [import EXCEPT !.status = "review", !.saved = TRUE]
      /\ unrecorded' = IF Applied \/ ~import.saved THEN unrecorded + 1 ELSE unrecorded
      /\ scans' = scans /\ made' = made /\ commits' = commits
      /\ rollbacks' = rollbacks /\ putBack' = putBack
  BY DEF ForgetCounts
<1>2. /\ import' \in Imports /\ import'.result = import.result /\ import'.saved
      /\ import.saved => import'.status = import.status
      /\ ~import.saved => import'.status = "review"
  BY <1>1 DEF Imports
<1>3. unrecorded' \in Nat
  BY <1>1
<1>4. StocktakingTypeOK'
  <2>1. {overtaken', putBack'} \subseteq BOOLEAN
    BY <1>1
  <2>2. {scans', made', commits', rollbacks', unrecorded'} \subseteq Nat
    BY <1>1, <1>3
  <2>3. counts' \in [Object -> CountState] /\ scanner' \in [Scanner -> ScanRequests]
    BY <1>1
  <2>4. told' \in [ImportItem -> Units] /\ earlier' \subseteq Object
    BY <1>1
  <2> QED BY <2>1, <2>2, <2>3, <2>4, <1>1, <1>2 DEF StocktakingTypeOK
<1>5. ObjectsKept' /\ ToldHolds'
  BY <1>1 DEF ObjectsKept, ToldHolds, Scanning
<1>6. ScansBound' /\ AcceptedHold'
  BY <1>1 DEF ScansBound, AcceptedHold
<1>7. \A k \in Scanner : ~Locking(scanner'[k]) /\ scanner'[k].step # "applied"
  BY <1>1 DEF Locking
<1>8. LocksHold'
  BY <1>1, <1>2, <1>7 DEF LocksHold, Locking
<1>9. CommitsCount'
  <2>1. GoodsIn' <=> import'.status = "completed"
    BY <1>7 DEF GoodsIn, Applied
  <2>2. Applied => import.status # "completed"
    BY DEF Applied, LocksHold, Locking
  <2>3. ~import.saved => import.status = "completed"
    BY DEF LocksHold
  <2>4. CASE Applied \/ ~import.saved
    <3>1. GoodsIn /\ ~GoodsIn' /\ unrecorded' = unrecorded + 1
      BY <2>1, <2>2, <2>3, <2>4, <1>1, <1>2 DEF GoodsIn
    <3> QED BY <3>1, <1>1 DEF CommitsCount
  <2>5. CASE ~Applied /\ import.saved
    <3>1. (GoodsIn' <=> GoodsIn) /\ unrecorded' = unrecorded
      BY <2>1, <2>5, <1>1, <1>2 DEF GoodsIn
    <3> QED BY <3>1, <1>1 DEF CommitsCount
  <2> QED BY <2>4, <2>5
<1> QED BY <1>4, <1>5, <1>6, <1>8, <1>9

\* Every step of the counting of an import.
LEMMA StocktakingHolds == StocktakingInv /\ [StocktakingNext]_stocktakingVars => StocktakingInv'
<1> SUFFICES ASSUME StocktakingInv, [StocktakingNext]_stocktakingVars PROVE StocktakingInv'
  OBVIOUS
<1>1. CASE UNCHANGED stocktakingVars
  <2>1. /\ counts' = counts /\ counting' = counting /\ earlier' = earlier
        /\ import' = import /\ scanner' = scanner
        /\ told' = told /\ overtaken' = overtaken /\ scans' = scans /\ made' = made
        /\ commits' = commits /\ rollbacks' = rollbacks /\ unrecorded' = unrecorded
        /\ putBack' = putBack
    BY <1>1 DEF stocktakingVars, scanHistory, importHistory
  <2>2. StocktakingTypeOK' /\ ObjectsKept' /\ ToldHolds' /\ ScansBound' /\ AcceptedHold'
    BY <2>1 DEF StocktakingInv, StocktakingTypeOK, ObjectsKept, ToldHolds, ScansBound,
                AcceptedHold, Scanning
  <2>3. LocksHold' /\ CommitsCount'
    BY <2>1 DEF StocktakingInv, LocksHold, CommitsCount, GoodsIn, Applied, Locking
  <2> QED BY <2>2, <2>3 DEF StocktakingInv
<1>2. CASE CreateCount \/ RollbackCounted \/ CancelCounted \/ CheckAnew \/ ForgetCounts
  BY <1>2, CreateHolds, RollbackHolds, PutBackHolds, ForgetHolds
<1>3. ASSUME NEW k \in Scanner, NEW o \in Object,
             \/ \E i \in ImportItem, q \in {-1, 1} : BeginScan(k, o, i, q)
             \/ BeginAccept(k, o)
      PROVE  StocktakingInv'
  <2>1. CASE \E i \in ImportItem, q \in {-1, 1} : BeginScan(k, o, i, q)
    <3> PICK i \in ImportItem, q \in {-1, 1} : BeginScan(k, o, i, q)
      BY <2>1
    <3> DEFINE r == [step |-> "scan", object |-> o, item |-> i, quantity |-> q]
    <3>1. r \in ScanRequests /\ Scanning(r) /\ ~Locking(r)
      BY DEF ScanRequests, Scanning, Locking
    <3>2. Resolve(k, r)
      BY DEF BeginScan
    <3> HIDE DEF r
    <3> QED BY <3>1, <3>2, BeginHolds
  <2>2. CASE BeginAccept(k, o)
    <3> DEFINE r == [NoScan EXCEPT !.step = "accept", !.object = o]
    <3>1. r \in ScanRequests /\ Scanning(r) /\ ~Locking(r)
      BY NewTypes DEF ScanRequests, Scanning, Locking
    <3>2. Resolve(k, r)
      BY <2>2 DEF BeginAccept
    <3> HIDE DEF r
    <3> QED BY <3>1, <3>2, BeginHolds
  <2> QED BY <1>3, <2>1, <2>2
<1>4. ASSUME NEW k \in Scanner,
             \/ Scan(k) \/ Accept(k) \/ CommitAnswered(k) \/ BeginCommit(k) \/ ApplyCount(k)
             \/ CommitFails(k) \/ \E saved \in BOOLEAN : FinishCommit(k, saved)
      PROVE  StocktakingInv'
  BY <1>4, ScanHolds, AcceptHolds, AnsweredHolds, BeginCommitHolds, ApplyCountHolds, FailsHolds,
     FinishHolds
<1> QED BY <1>1, <1>2, <1>3, <1>4 DEF StocktakingNext

\* A sum is nothing only when every row is.
LEMMA SumIsNothing ==
    ASSUME NEW S, IsFiniteSet(S), NEW f, \A x \in S : f[x] \in Nat
    PROVE  SumOver(f, S) = 0 <=> \A x \in S : f[x] = 0
<1>1. ASSUME \A x \in S : f[x] = 0
      PROVE  SumOver(f, S) = 0
  BY <1>1, SumZeroRows, SumEmpty
<1>2. ASSUME SumOver(f, S) = 0, NEW v \in S
      PROVE  f[v] = 0
  <2>1. SumOver(f, S) = SumOver(f, S \ {v}) + f[v]
    BY SumSplit
  <2>2. SumOver(f, S \ {v}) \in Nat
    <3>1. IsFiniteSet(S \ {v}) /\ \A x \in S \ {v} : f[x] \in Int
      BY FS_Subset
    <3> QED BY <3>1, SumType
  <2> QED BY <1>2, <2>1, <2>2
<1> QED BY <1>1, <1>2

\* What the screen shows follows from the invariant.
LEMMA CountTells == StocktakingInv => CountShowsScans
<1> SUFFICES ASSUME StocktakingInv, counting # NoObject PROVE CountShowsScans
  BY DEF CountShowsScans
<1> USE StocktakingTypes DEF StocktakingInv
<1>1. counting \in Object
  OBVIOUS
<1>2. ASSUME ~overtaken
      PROVE  /\ counts[counting].scanned = told
             /\ ScannedRows(counting) = {i \in ImportItem : told[i] > 0}
             /\ Shortage(counting) = 0 <=> \A i \in ImportItem : told[i] >= Expected[i]
  <2>1. counts[counting].scanned = told
    BY <1>2 DEF ToldHolds
  <2>2. ScannedRows(counting) = {i \in ImportItem : told[i] > 0}
    BY <2>1 DEF ScannedRows, Found
  <2> DEFINE missing == Missing(counting)
  <2>3. \A i \in ImportItem : missing[i] =
            IF told[i] < Expected[i] THEN Expected[i] - told[i] ELSE 0
    BY <2>1 DEF Missing
  <2>4. \A i \in ImportItem : Expected[i] \in Nat \ {0}
    BY StocktakingAssumption
  <2> HIDE DEF missing
  <2>5. \A i \in ImportItem : missing[i] \in Nat /\ (missing[i] = 0 <=> told[i] >= Expected[i])
    BY <2>3, <2>4
  <2>6. SumOver(missing, ImportItem) = 0 <=> \A i \in ImportItem : missing[i] = 0
    BY <2>5, StocktakingAssumption, SumIsNothing
  <2>7. Shortage(counting) = SumOver(missing, ImportItem)
    BY DEF Shortage, missing
  <2> QED BY <2>1, <2>2, <2>5, <2>6, <2>7
<1>3. /\ counts[counting].accepted => import.result /\ commits > 0
      /\ ~putBack => commits <= rollbacks + unrecorded + 1
  BY <1>1 DEF AcceptedHold, LocksHold, CommitsCount
<1> QED BY <1>2, <1>3 DEF CountShowsScans

\* However clerks scan, count anew, accept, cancel, check anew and roll back, however
\* a commit fails and whenever the server forgets its counts, what a count shows is
\* what they were told, unless it was made anew under their hands; and an import comes
\* in once, and once more for every rollback and every commit that left no record,
\* until a finished import is cancelled or checked anew.
THEOREM CountShows == StocktakingSpec => []CountShowsScans
<1>1. StocktakingInit => StocktakingInv
  BY StocktakingBegins
<1>2. StocktakingInv /\ [StocktakingNext]_stocktakingVars => StocktakingInv'
  BY StocktakingHolds
<1>3. StocktakingInv => CountShowsScans
  BY CountTells
<1> QED BY <1>1, <1>2, <1>3, PTL DEF StocktakingSpec

-----------------------------------------------------------------------------
(* A supplier invoice.  What has come in is nothing before the commit, the lines
   at the commit and nothing again after the rollback, until a late request has
   written the status. *)
\* A committed invoice that no late request has written.
AsCommitted ==
    /\ invoice.total = purchased
    /\ invoice.total = SumOver(Quantities, InvoiceLine)
    /\ \A l \in There : line[l].allocated = line[l].quantity

(* Until a request overwrites the status of a closed invoice: nothing comes in
   before the commit, and only the rollback takes back. *)
ReceiptsStand ==
    reopened = 0 =>
        /\ invoice.status \in Editable \cup {"CANCELLED"} => purchased = 0 /\ returned = 0
        /\ invoice.status = "COMMITTED" => returned = 0 /\ (~lateLines => AsCommitted)
        /\ invoice.status = "ROLLED_BACK" => returned = purchased /\ sold = 0

InvoiceInv == InvoiceTypeOK /\ ReceiptsStand

LEMMA InvoiceTypes ==
    ASSUME InvoiceTypeOK
    PROVE  /\ invoice \in [status : InvoiceStatus, total : Nat]
           /\ line \in [InvoiceLine -> InvoiceLines]
           /\ desk \in [Desk -> DeskRequests]
           /\ purchased \in Nat /\ returned \in Nat /\ sold \in Nat /\ reopened \in Nat
           /\ purchased - returned - sold \in Nat
           /\ lateLines \in BOOLEAN
BY DEF InvoiceTypeOK, InvoiceStock

LEMMA LineTypes ==
    /\ NoLine \in InvoiceLines /\ [NoLine EXCEPT !.state = "deleted"] \in InvoiceLines
    /\ \A n \in 0 .. MaxUnits : NewLine(n) \in InvoiceLines
    /\ NoRequest \in DeskRequests
<1>1. 0 \in 0 .. MaxUnits
  BY InvoiceAssumption
<1>2. \A n \in 0 .. MaxUnits : NewLine(n) \in InvoiceLines
  BY <1>1 DEF NewLine, InvoiceLines
<1>3. \A x \in InvoiceLines, state \in {"unused", "deleted"} :
          [x EXCEPT !.state = state] \in InvoiceLines
  BY DEF InvoiceLines
<1>4. NoLine \in InvoiceLines /\ [NoLine EXCEPT !.state = "deleted"] \in InvoiceLines
  BY <1>1, <1>2, <1>3 DEF NoLine
<1>5. NoRequest \in DeskRequests
  BY <1>1 DEF NoRequest, DeskRequests
<1> QED BY <1>2, <1>4, <1>5

LEMMA InvoiceBegins == InvoiceInit => InvoiceInv
<1> SUFFICES ASSUME InvoiceInit PROVE InvoiceInv
  OBVIOUS
<1>1. invoice \in [status : InvoiceStatus, total : Nat] /\ invoice.status = "DRAFT"
  BY DEF InvoiceInit, InvoiceStatus, Editable
<1>2. line \in [InvoiceLine -> InvoiceLines] /\ desk \in [Desk -> DeskRequests]
  BY LineTypes DEF InvoiceInit
<1>3. /\ purchased = 0 /\ returned = 0 /\ sold = 0 /\ reopened = 0
      /\ lateLines \in BOOLEAN
  BY DEF InvoiceInit
<1>4. {purchased, returned, sold, reopened, InvoiceStock} \subseteq Nat
  BY <1>3 DEF InvoiceStock
<1>5. InvoiceTypeOK
  BY <1>1, <1>2, <1>3, <1>4 DEF InvoiceTypeOK
<1>6. ReceiptsStand
  BY <1>1, <1>3 DEF ReceiptsStand
<1> QED BY <1>5, <1>6 DEF InvoiceInv

\* A step of the desk that reads, or gives up.
LEMMA DeskKeeps ==
    ASSUME InvoiceInv, UNCHANGED <<invoiceRows, invoiceHistory>>, desk' \in [Desk -> DeskRequests]
    PROVE  InvoiceInv'
<1>1. UNCHANGED <<invoice, line, purchased, returned, sold, reopened, lateLines>>
  BY DEF invoiceRows, invoiceHistory
<1>2. InvoiceTypeOK'
  BY <1>1 DEF InvoiceInv, InvoiceTypeOK, InvoiceStock
<1>3. There' = There /\ Quantities' = Quantities
  BY <1>1 DEF There, Quantities
<1>4. ReceiptsStand'
  BY <1>1, <1>3 DEF InvoiceInv, ReceiptsStand, AsCommitted
<1> QED BY <1>2, <1>4 DEF InvoiceInv

\* A step of the desk that writes lines.
LEMMA LinesKeep ==
    ASSUME InvoiceInv, UNCHANGED <<invoice, purchased, returned, sold, reopened>>, LateLines,
           line' \in [InvoiceLine -> InvoiceLines], desk' \in [Desk -> DeskRequests]
    PROVE  InvoiceInv'
<1>1. UNCHANGED <<invoice, purchased, returned, sold, reopened>>
  OBVIOUS
<1>2. lateLines' \in BOOLEAN /\ (invoice.status = "COMMITTED" => lateLines')
  BY DEF LateLines
<1>3. InvoiceTypeOK'
  BY <1>1, <1>2 DEF InvoiceInv, InvoiceTypeOK, InvoiceStock
<1>4. ReceiptsStand'
  BY <1>1, <1>2 DEF InvoiceInv, ReceiptsStand
<1> QED BY <1>3, <1>4 DEF InvoiceInv

\* A step of the desk that writes the status.
LEMMA StatusKeeps ==
    ASSUME InvoiceInv, NEW d \in Desk, NEW status \in Editable, WriteInvoiceStatus(d, status),
           UNCHANGED <<purchased, returned, sold>>, lateLines' \in BOOLEAN,
           line' \in [InvoiceLine -> InvoiceLines]
    PROVE  InvoiceInv'
<1>1. /\ invoice' = [invoice EXCEPT !.status = status]
      /\ reopened' = IF invoice.status \notin Editable THEN reopened + 1 ELSE reopened
      /\ desk' = [desk EXCEPT ![d] = NoRequest]
  BY DEF WriteInvoiceStatus, Done
<1>2. /\ invoice \in [status : InvoiceStatus, total : Nat] /\ desk \in [Desk -> DeskRequests]
      /\ purchased \in Nat /\ returned \in Nat /\ sold \in Nat /\ reopened \in Nat
      /\ InvoiceStock \in Nat
  BY DEF InvoiceInv, InvoiceTypeOK
<1>3. /\ invoice' \in [status : InvoiceStatus, total : Nat] /\ invoice'.status = status
      /\ desk' \in [Desk -> DeskRequests]
  BY <1>1, <1>2, LineTypes DEF InvoiceStatus
<1>4. reopened' \in Nat /\ (reopened' = 0 => reopened = 0 /\ invoice.status \in Editable)
  BY <1>1, <1>2
<1>5. InvoiceStock' = InvoiceStock
  BY DEF InvoiceStock
<1>6. InvoiceTypeOK'
  BY <1>2, <1>3, <1>4, <1>5 DEF InvoiceTypeOK
<1>7. ReceiptsStand'
  BY <1>3, <1>4 DEF InvoiceInv, ReceiptsStand, Editable
<1> QED BY <1>6, <1>7 DEF InvoiceInv

\* A request that only reads.
LEMMA AsksKeep ==
    ASSUME InvoiceInv, NEW d \in Desk, NEW statuses, NEW lines \in SUBSET InvoiceLine,
           NEW op \in StatusRequests \cup LineRequests \cup {"recognize"},
           NEW n \in 0 .. MaxUnits, ReadInvoice(d, statuses, op, lines, n)
    PROVE  InvoiceInv'
<1>1. /\ desk' = [desk EXCEPT ![d] = [op |-> op, lines |-> lines, quantity |-> n]]
      /\ UNCHANGED <<invoiceRows, invoiceHistory>>
  BY DEF ReadInvoice
<1>2. desk \in [Desk -> DeskRequests]
  BY DEF InvoiceInv, InvoiceTypeOK
<1>3. [op |-> op, lines |-> lines, quantity |-> n] \in DeskRequests
  BY DEF DeskRequests
<1>4. desk' \in [Desk -> DeskRequests]
  BY <1>1, <1>2, <1>3
<1> QED BY <1>1, <1>4, DeskKeeps

\* The deeds of the desk, one step each.
LEMMA DeskSteps ==
    ASSUME InvoiceInv, NEW d \in Desk,
           \/ AskFiles(d) \/ AskItems(d) \/ AskRecognition(d)
           \/ \E op \in LineRequests, l \in InvoiceLine : AskLineEdit(d, op, l)
           \/ AskAutoMatch(d) \/ AskAllocate(d) \/ AskReady(d)
           \/ \E l, k \in InvoiceLine : AskMerge(d, l, k)
           \/ SaveFiles(d) \/ MarkReady(d)
           \/ \E l \in InvoiceLine, n \in 1 .. MaxUnits : AddItems(d, l, n)
           \/ \E n \in 1 .. MaxUnits : UpdateItem(d, n)
           \/ DeleteItem(d) \/ MatchItem(d) \/ AutoMatch(d) \/ MergeItems(d) \/ Allocate(d)
    PROVE  InvoiceInv'
<1>1. /\ invoice \in [status : InvoiceStatus, total : Nat]
      /\ line \in [InvoiceLine -> InvoiceLines] /\ desk \in [Desk -> DeskRequests]
      /\ lateLines \in BOOLEAN
  BY DEF InvoiceInv, InvoiceTypeOK
<1>2. /\ 0 \in 0 .. MaxUnits /\ (\A n \in 1 .. MaxUnits : n \in 0 .. MaxUnits)
      /\ There \in SUBSET InvoiceLine
  BY InvoiceAssumption DEF There
<1>3. CASE AskFiles(d) \/ AskItems(d) \/ AskRecognition(d) \/ AskReady(d)
  BY <1>2, <1>3, AsksKeep
     DEF AskFiles, AskItems, AskRecognition, AskReady, StatusRequests
<1>4. ASSUME NEW op \in LineRequests, NEW l \in InvoiceLine, AskLineEdit(d, op, l)
      PROVE  InvoiceInv'
  BY <1>2, <1>4, AsksKeep DEF AskLineEdit
<1>5. CASE AskAutoMatch(d) \/ AskAllocate(d)
  BY <1>2, <1>5, AsksKeep DEF AskAutoMatch, AskAllocate, LineRequests
<1>6. ASSUME NEW l \in InvoiceLine, NEW k \in InvoiceLine, AskMerge(d, l, k)
      PROVE  InvoiceInv'
  <2>1. line[l] \in InvoiceLines /\ line[k] \in InvoiceLines
    BY <1>1
  <2>2. line[l].quantity + line[k].quantity \in 0 .. MaxUnits
    BY <1>6, <2>1, InvoiceAssumption DEF AskMerge, InvoiceLines
  <2>3. {l, k} \in SUBSET InvoiceLine /\ "mergeItems" \in LineRequests
    BY DEF LineRequests
  <2> QED BY <1>6, <2>2, <2>3, AsksKeep DEF AskMerge
<1>7. CASE SaveFiles(d) \/ MarkReady(d)
  <2>1. PICK status \in {"PROCESSING", "READY"} : WriteInvoiceStatus(d, status)
    BY <1>7 DEF SaveFiles, MarkReady
  <2>2. UNCHANGED <<line, purchased, returned, sold, lateLines>>
    BY <1>7 DEF SaveFiles, MarkReady
  <2>3. status \in Editable
    BY <2>1 DEF Editable
  <2> QED BY <1>1, <2>1, <2>2, <2>3, StatusKeeps
<1>8. ASSUME NEW l \in InvoiceLine, NEW n \in 1 .. MaxUnits, AddItems(d, l, n)
      PROVE  InvoiceInv'
  <2>1. line' = [line EXCEPT ![l] = NewLine(n)] /\ UNCHANGED <<purchased, returned, sold>>
    BY <1>8 DEF AddItems
  <2>2. line' \in [InvoiceLine -> InvoiceLines]
    BY <1>1, <1>2, <2>1, LineTypes
  <2>3. lateLines' \in BOOLEAN
    BY <1>8 DEF AddItems, LateLines
  <2>4. WriteInvoiceStatus(d, "REVIEW") /\ "REVIEW" \in Editable
    BY <1>8 DEF AddItems, Editable
  <2> QED BY <2>1, <2>2, <2>3, <2>4, StatusKeeps
<1>9. ASSUME NEW new \in [InvoiceLine -> InvoiceLines], WriteLines(d, new) PROVE InvoiceInv'
  <2>1. desk' \in [Desk -> DeskRequests]
    BY <1>1, <1>9, LineTypes DEF WriteLines, Done
  <2> QED BY <1>9, <2>1, LinesKeep DEF WriteLines
<1>10. ASSUME Fail(d) PROVE InvoiceInv'
  <2>1. desk' \in [Desk -> DeskRequests]
    BY <1>1, <1>10, LineTypes DEF Fail, Done
  <2> QED BY <1>10, <2>1, DeskKeeps DEF Fail
<1>11. desk[d].lines \in SUBSET InvoiceLine /\ desk[d].quantity \in 0 .. MaxUnits
  BY <1>1 DEF DeskRequests
<1>12. ASSUME NEW n \in 1 .. MaxUnits, UpdateItem(d, n) PROVE InvoiceInv'
  <2>1. PICK x \in desk[d].lines :
            IF x \in There THEN WriteLines(d, [line EXCEPT ![x].quantity = n]) ELSE Fail(d)
    BY <1>12 DEF UpdateItem
  <2>2. [line EXCEPT ![x].quantity = n] \in [InvoiceLine -> InvoiceLines]
    BY <1>1, <1>2, <1>11, <2>1 DEF InvoiceLines
  <2> QED BY <1>9, <1>10, <2>1, <2>2
<1>13. CASE DeleteItem(d)
  <2>1. PICK x \in desk[d].lines :
            IF x \in There
            THEN WriteLines(d, [line EXCEPT ![x] = [NoLine EXCEPT !.state = "deleted"]])
            ELSE Fail(d)
    BY <1>13 DEF DeleteItem
  <2>2. [line EXCEPT ![x] = [NoLine EXCEPT !.state = "deleted"]] \in [InvoiceLine -> InvoiceLines]
    BY <1>1, <1>11, <2>1, LineTypes
  <2> QED BY <1>9, <1>10, <2>1, <2>2
<1>14. CASE MatchItem(d)
  <2>1. PICK x \in desk[d].lines :
            IF x \in There THEN WriteLines(d, [line EXCEPT ![x].matched = TRUE]) ELSE Fail(d)
    BY <1>14 DEF MatchItem
  <2>2. [line EXCEPT ![x].matched = TRUE] \in [InvoiceLine -> InvoiceLines]
    BY <1>1, <1>11, <2>1 DEF InvoiceLines
  <2> QED BY <1>9, <1>10, <2>1, <2>2
<1>15. CASE AutoMatch(d)
  <2>1. PICK x \in desk[d].lines :
            IF x \in There
            THEN /\ line' = [line EXCEPT ![x].matched = FALSE]
                 /\ LateLines
                 /\ desk' = [desk EXCEPT ![d] = IF desk[d].lines = {x} THEN NoRequest
                                                ELSE [desk[d] EXCEPT !.lines = desk[d].lines \ {x}]]
                 /\ UNCHANGED <<invoice, purchased, returned, sold, reopened>>
            ELSE Fail(d)
    BY <1>15 DEF AutoMatch
  <2>2. CASE x \in There
    <3>0. /\ line' = [line EXCEPT ![x].matched = FALSE] /\ x \in InvoiceLine
          /\ desk' = [desk EXCEPT ![d] = IF desk[d].lines = {x} THEN NoRequest
                                         ELSE [desk[d] EXCEPT !.lines = desk[d].lines \ {x}]]
      BY <1>11, <2>1, <2>2
    <3>4. [line[x] EXCEPT !.matched = FALSE] \in InvoiceLines
      BY <1>1, <3>0 DEF InvoiceLines
    <3>1. line' \in [InvoiceLine -> InvoiceLines]
      BY <1>1, <3>0, <3>4
    <3>2. [desk[d] EXCEPT !.lines = desk[d].lines \ {x}] \in DeskRequests
      BY <1>1, <1>11 DEF DeskRequests
    <3>3. desk' \in [Desk -> DeskRequests]
      <4> DEFINE new == IF desk[d].lines = {x} THEN NoRequest
                        ELSE [desk[d] EXCEPT !.lines = desk[d].lines \ {x}]
      <4>1. new \in DeskRequests
        BY <3>2, LineTypes
      <4>2. desk' = [desk EXCEPT ![d] = new]
        BY <3>0
      <4> HIDE DEF new
      <4> QED BY <1>1, <4>1, <4>2
    <3>5. LateLines /\ UNCHANGED <<invoice, purchased, returned, sold, reopened>>
      BY <2>1, <2>2
    <3> QED BY <3>1, <3>3, <3>5, LinesKeep
  <2> QED BY <1>10, <2>1, <2>2
<1>16. CASE MergeItems(d)
  <2>1. PICK x \in desk[d].lines :
            IF x \in There
            THEN WriteLines(d, [y \in InvoiceLine |->
                    IF y = x THEN [line[y] EXCEPT !.quantity = desk[d].quantity]
                    ELSE IF y \in desk[d].lines THEN [NoLine EXCEPT !.state = "deleted"]
                    ELSE line[y]])
            ELSE Fail(d)
    BY <1>16 DEF MergeItems
  <2>2. \A y \in InvoiceLine : [line[y] EXCEPT !.quantity = desk[d].quantity] \in InvoiceLines
    BY <1>1, <1>11 DEF InvoiceLines
  <2>3. [y \in InvoiceLine |->
            IF y = x THEN [line[y] EXCEPT !.quantity = desk[d].quantity]
            ELSE IF y \in desk[d].lines THEN [NoLine EXCEPT !.state = "deleted"]
            ELSE line[y]] \in [InvoiceLine -> InvoiceLines]
    BY <1>1, <2>2, LineTypes
  <2> QED BY <1>9, <1>10, <2>1, <2>3
<1>17. CASE Allocate(d)
  <2>1. CASE Fail(d)
    BY <1>10, <2>1
  <2>2. ASSUME NEW new \in [desk[d].lines \cap There -> 0 .. MaxUnits],
               WriteLines(d, [y \in InvoiceLine |->
                   IF y \in desk[d].lines \cap There THEN [line[y] EXCEPT !.allocated = new[y]]
                                                     ELSE line[y]])
        PROVE  InvoiceInv'
    <3>1. \A y \in desk[d].lines \cap There :
              [line[y] EXCEPT !.allocated = new[y]] \in InvoiceLines
      BY <1>1, <1>11 DEF InvoiceLines
    <3>2. [y \in InvoiceLine |->
              IF y \in desk[d].lines \cap There THEN [line[y] EXCEPT !.allocated = new[y]]
                                                ELSE line[y]] \in [InvoiceLine -> InvoiceLines]
      BY <1>1, <3>1
    <3> QED BY <1>9, <2>2, <3>2
  <2> QED BY <1>17, <2>1, <2>2 DEF Allocate
<1> QED BY <1>3, <1>4, <1>5, <1>6, <1>7, <1>8, <1>12, <1>13, <1>14, <1>15, <1>16, <1>17

\* The recognised lines replace the lines, or the request fails.
LEMMA RecognizeKeeps ==
    ASSUME InvoiceInv, NEW d \in Desk, NEW l \in InvoiceLine, NEW n \in 1 .. MaxUnits,
           Recognize(d, l, n)
    PROVE  InvoiceInv'
<1>1. /\ invoice \in [status : InvoiceStatus, total : Nat]
      /\ line \in [InvoiceLine -> InvoiceLines] /\ desk \in [Desk -> DeskRequests]
      /\ lateLines \in BOOLEAN /\ n \in 0 .. MaxUnits
  BY DEF InvoiceInv, InvoiceTypeOK
<1>2. CASE invoice.status \notin Editable
  <2>1. desk' \in [Desk -> DeskRequests] /\ Fail(d)
    BY <1>1, <1>2, LineTypes DEF Recognize, Fail, Done
  <2> QED BY <2>1, DeskKeeps DEF Fail
<1>3. CASE invoice.status \in Editable
  <2>1. /\ invoice' = [invoice EXCEPT !.status = "REVIEW"]
        /\ line' = [k \in InvoiceLine |->
                IF k = l THEN NewLine(n)
                ELSE IF k \in There THEN [NoLine EXCEPT !.state = "deleted"]
                ELSE line[k]]
        /\ Done(d) /\ UNCHANGED <<purchased, returned, invoiceHistory>>
    BY <1>3 DEF Recognize
  <2>2. WriteInvoiceStatus(d, "REVIEW") /\ "REVIEW" \in Editable
    BY <1>3, <2>1 DEF WriteInvoiceStatus, invoiceHistory, Editable
  <2>3. line' \in [InvoiceLine -> InvoiceLines]
    BY <1>1, <2>1, LineTypes
  <2>4. UNCHANGED <<purchased, returned, sold, lateLines>>
    BY <2>1 DEF invoiceHistory
  <2> QED BY <1>1, <2>2, <2>3, <2>4, StatusKeeps
<1> QED BY <1>2, <1>3

\* The commit brings in every line, once.
LEMMA CommitKeeps ==
    ASSUME InvoiceInv, CommitInvoice
    PROVE  InvoiceInv'
<1> DEFINE brought == [l \in InvoiceLine |-> IF l \in There THEN line[l].allocated ELSE 0]
           incoming == SumOver(brought, InvoiceLine)
           total == SumOver(Quantities, InvoiceLine)
<1>1. /\ line \in [InvoiceLine -> InvoiceLines]
      /\ invoice \in [status : InvoiceStatus, total : Nat] /\ desk \in [Desk -> DeskRequests]
      /\ lateLines \in BOOLEAN
  BY DEF InvoiceInv, InvoiceTypeOK
<1>2. /\ purchased \in Nat /\ returned \in Nat /\ sold \in Nat /\ reopened \in Nat
      /\ purchased - returned - sold \in Nat
  BY InvoiceTypes DEF InvoiceInv
<1>3. /\ invoice.status = "READY" /\ purchased' = purchased + incoming
      /\ invoice' = [status |-> "COMMITTED", total |-> total]
      /\ UNCHANGED <<line, returned, desk, sold, reopened, lateLines>>
      /\ \A l \in There : line[l].allocated = line[l].quantity
  BY DEF CommitInvoice, Receivable
<1>4. \A l \in InvoiceLine : line[l].allocated \in Nat /\ line[l].quantity \in Nat
  BY <1>1, InvoiceAssumption DEF InvoiceLines
<1>5. \A l \in InvoiceLine : brought[l] \in Int /\ Quantities[l] \in Int
                             /\ brought[l] = Quantities[l]
  BY <1>3, <1>4 DEF Quantities
<1>6. incoming \in Nat /\ total \in Nat /\ incoming = total
  <2> HIDE DEF brought
  <2> QED BY <1>5, SumType, SumCongruence, InvoiceAssumption
<1> HIDE DEF incoming, total, brought
<1>7. InvoiceTypeOK'
  <2>1. {purchased', returned', sold', reopened', InvoiceStock'} \subseteq Nat
    BY <1>2, <1>3, <1>6 DEF InvoiceStock
  <2>2. invoice' \in [status : InvoiceStatus, total : Nat]
    BY <1>3, <1>6 DEF InvoiceStatus
  <2> QED BY <1>1, <1>3, <2>1, <2>2 DEF InvoiceTypeOK
<1>8. ReceiptsStand'
  <2> SUFFICES ASSUME reopened = 0 PROVE returned' = 0 /\ AsCommitted'
    <3>1. invoice'.status = "COMMITTED"
      BY <1>3
    <3> QED BY <1>3, <3>1 DEF ReceiptsStand, Editable
  <2>1. purchased = 0 /\ returned = 0
    BY <1>3 DEF InvoiceInv, ReceiptsStand, Editable
  <2>2. There' = There /\ SumOver(Quantities, InvoiceLine)' = total
    BY <1>3 DEF There, Quantities, total
  <2>3. invoice'.total = total /\ purchased' = total
    BY <1>3, <1>6, <2>1
  <2> QED BY <1>3, <2>1, <2>2, <2>3 DEF AsCommitted
<1> QED BY <1>7, <1>8 DEF InvoiceInv

\* Cancellation, rollback, and a sale of what came in.
LEMMA ClosingKeeps ==
    ASSUME InvoiceInv, CancelInvoice \/ RollbackInvoice \/ SellReceived
    PROVE  InvoiceInv'
<1>1. /\ line \in [InvoiceLine -> InvoiceLines]
      /\ invoice \in [status : InvoiceStatus, total : Nat] /\ desk \in [Desk -> DeskRequests]
      /\ lateLines \in BOOLEAN
  BY DEF InvoiceInv, InvoiceTypeOK
<1>2. /\ purchased \in Nat /\ returned \in Nat /\ sold \in Nat /\ reopened \in Nat
      /\ purchased - returned - sold \in Nat
  BY InvoiceTypes DEF InvoiceInv
<1>3. CASE CancelInvoice
  <2>1. /\ invoice.status \in Editable /\ invoice' = [invoice EXCEPT !.status = "CANCELLED"]
        /\ UNCHANGED <<line, purchased, returned, desk, sold, reopened, lateLines>>
    BY <1>3 DEF CancelInvoice, invoiceHistory
  <2>2. invoice' \in [status : InvoiceStatus, total : Nat] /\ invoice'.status = "CANCELLED"
    BY <1>1, <2>1 DEF InvoiceStatus
  <2>3. InvoiceTypeOK'
    BY <1>1, <1>2, <2>1, <2>2 DEF InvoiceTypeOK, InvoiceStock
  <2>4. ReceiptsStand'
    BY <2>1, <2>2 DEF InvoiceInv, ReceiptsStand
  <2> QED BY <2>3, <2>4 DEF InvoiceInv
<1>4. CASE RollbackInvoice
  <2>1. /\ invoice.status = "COMMITTED" /\ invoice' = [invoice EXCEPT !.status = "ROLLED_BACK"]
        /\ purchased <= purchased - returned - sold /\ returned' = returned + purchased
        /\ UNCHANGED <<line, purchased, desk, sold, reopened, lateLines>>
    BY <1>4 DEF RollbackInvoice, Unsold, InvoiceStock, invoiceHistory
  <2>2. invoice' \in [status : InvoiceStatus, total : Nat] /\ invoice'.status = "ROLLED_BACK"
    BY <1>1, <2>1 DEF InvoiceStatus
  <2>3. returned = 0 /\ sold = 0 /\ returned' = purchased
    BY <1>2, <2>1
  <2>4. {purchased', returned', sold', reopened', InvoiceStock'} \subseteq Nat
    BY <1>2, <2>1, <2>3 DEF InvoiceStock
  <2>5. InvoiceTypeOK'
    BY <1>1, <2>1, <2>2, <2>4 DEF InvoiceTypeOK
  <2>6. ReceiptsStand'
    BY <2>1, <2>2, <2>3 DEF ReceiptsStand, Editable
  <2> QED BY <2>5, <2>6 DEF InvoiceInv
<1>5. CASE SellReceived
  <2>1. /\ purchased - returned - sold > 0 /\ sold' = sold + 1
        /\ UNCHANGED <<invoice, line, purchased, returned, desk, reopened, lateLines>>
    BY <1>5 DEF SellReceived, InvoiceStock, invoiceRows
  <2>2. {purchased', returned', sold', reopened', InvoiceStock'} \subseteq Nat
    BY <1>2, <2>1 DEF InvoiceStock
  <2>3. InvoiceTypeOK'
    BY <1>1, <2>1, <2>2 DEF InvoiceTypeOK
  <2>4. There' = There /\ Quantities' = Quantities
    BY <2>1 DEF There, Quantities
  <2>5. ReceiptsStand'
    <3>1. reopened = 0 /\ invoice.status = "ROLLED_BACK" => returned = purchased /\ sold = 0
      BY DEF InvoiceInv, ReceiptsStand, Editable
    <3>2. ~(reopened = 0 /\ invoice.status = "ROLLED_BACK")
      BY <1>2, <2>1, <3>1
    <3> QED BY <2>1, <2>4, <3>2 DEF InvoiceInv, ReceiptsStand, AsCommitted
  <2> QED BY <2>3, <2>5 DEF InvoiceInv
<1> QED BY <1>3, <1>4, <1>5

\* Every step of a supplier invoice.
LEMMA InvoiceStep == InvoiceInv /\ [InvoiceNext]_invoiceVars => InvoiceInv'
<1> SUFFICES ASSUME InvoiceInv, [InvoiceNext]_invoiceVars PROVE InvoiceInv'
  OBVIOUS
<1>1. ASSUME UNCHANGED invoiceVars PROVE InvoiceInv'
  BY <1>1, DeskKeeps DEF invoiceVars, InvoiceInv, InvoiceTypeOK
<1>2. ASSUME NEW d \in Desk,
             \/ AskFiles(d) \/ AskItems(d) \/ AskRecognition(d)
             \/ \E op \in LineRequests, l \in InvoiceLine : AskLineEdit(d, op, l)
             \/ AskAutoMatch(d) \/ AskAllocate(d) \/ AskReady(d)
             \/ \E l, k \in InvoiceLine : AskMerge(d, l, k)
             \/ SaveFiles(d) \/ MarkReady(d)
             \/ \E l \in InvoiceLine, n \in 1 .. MaxUnits : AddItems(d, l, n)
             \/ \E n \in 1 .. MaxUnits : UpdateItem(d, n)
             \/ DeleteItem(d) \/ MatchItem(d) \/ AutoMatch(d) \/ MergeItems(d) \/ Allocate(d)
      PROVE  InvoiceInv'
  BY <1>2, DeskSteps
<1> QED BY <1>1, <1>2, RecognizeKeeps, CommitKeeps, ClosingKeeps DEF InvoiceNext

\* What the papers say follows from the invariant.
LEMMA InvoiceHolds == InvoiceInv => ReceiptsFollowStatus
BY DEF InvoiceInv, InvoiceTypeOK, InvoiceStatus, ReceiptsStand, ReceiptsFollowStatus, AsCommitted,
       Editable

\* Whoever adds, matches, merges, allocates or deletes lines while others commit or
\* roll back the invoice, what has come in is what its status says, until a late
\* request writes the status of a closed invoice.
THEOREM ReceiptsFollow == InvoiceSpec => []ReceiptsFollowStatus
<1> QED BY InvoiceBegins, InvoiceStep, InvoiceHolds, PTL DEF InvoiceSpec

-----------------------------------------------------------------------------
(* The journal of movements.  What the rows moved in a shop and what the edits
   under way have still to write make up its stock, and what is shown as imported
   together with the purchases still to write is covered by receipts. *)
\* The columns of a journal, of what its rows did to a shop, and of the rows to come.
Distances(rows) == [n \in DOMAIN rows |-> Distance(rows[n])]
RowsOf(rows, branches, types) ==
    {n \in DOMAIN rows : rows[n].branch \in branches /\ rows[n].type \in types}
Listed(rows, b) == RowsOf(rows, {b}, {"TRANSFER", "ADJUSTMENT"})
Rising(rows, b) == {n \in Listed(rows, b) : rows[n].after > rows[n].before}
Moved(rows, b) ==
    SumOver(Distances(rows), RowsOf(rows, {b}, {"PURCHASE"}))
      - SumOver(Distances(rows), RowsOf(rows, {b}, {"SALE"}))
      + (SumOver(Distances(rows), Rising(rows, b))
           - SumOver(Distances(rows), Listed(rows, b) \ Rising(rows, b)))

BroughtIn(rows) == SumOver(Distances(rows), RowsOf(rows, Branch, {"PURCHASE"}))

Ends(managers, b) == [m \in Manager |-> IF b \in managers[m].left THEN managers[m].after[b] ELSE 0]
Starts(managers, b) == [m \in Manager |-> IF b \in managers[m].left THEN managers[m].before[b] ELSE 0]
ToWrite(managers, b) == SumOver(Ends(managers, b), Manager) - SumOver(Starts(managers, b), Manager)

Rest(edit, b) == IF b \in edit.left THEN edit.after[b] - edit.before[b] ELSE 0

Grown(edit) == IF edit.step = "rows" THEN SumOver(Growth(edit), Branch) ELSE 0
GrownBy(managers) == [m \in Manager |-> Grown(managers[m])]

EditsHold ==
    \A m \in Manager : manager[m].step \in {"idle", "read"} => manager[m].left = {}

StockExplained ==
    \A b \in Branch \ unexplained :
        onHand[b] = InitialUnits + Moved(journal, b) + ToWrite(manager, b)

ReceiptsCover == BroughtIn(journal) + SumOver(GrownBy(manager), Manager) <= receipts

MovementInv == /\ MovementTypeOK /\ journal \in Seq(MovementRows)
               /\ EditsHold /\ StockExplained /\ ReceiptsCover

LEMMA AmountFacts ==
    /\ Amounts \subseteq Nat /\ 0 \in Amounts /\ InitialUnits \in Amounts
    /\ InitialUnits \in Nat
BY MovementAssumption DEF Amounts

LEMMA EditTypes ==
    ASSUME NEW e \in Edits
    PROVE  /\ e.step \in {"idle", "read", "receipt", "rows"} /\ e.left \subseteq Branch
           /\ e.before \in [Branch -> Amounts] /\ e.after \in [Branch -> Amounts]
           /\ \A b \in Branch : e.before[b] \in Nat /\ e.after[b] \in Nat
BY AmountFacts DEF Edits

LEMMA RowTypes ==
    ASSUME NEW r \in MovementRows
    PROVE  /\ r.branch \in Branch /\ r.type \in MovementTypes
           /\ r.before \in Nat /\ r.after \in Nat /\ Distance(r) \in Nat
           /\ r.after >= r.before => Distance(r) = r.after - r.before
           /\ r.after <= r.before => Distance(r) = r.before - r.after
<1>1. r.branch \in Branch /\ r.type \in MovementTypes /\ r.before \in Nat /\ r.after \in Nat
  BY AmountFacts DEF MovementRows
<1> QED BY <1>1 DEF Distance

LEMMA NoEditTypes ==
    /\ NoEdit \in Edits /\ NoEdit.step = "idle" /\ NoEdit.left = {}
    /\ NoEdit.before = Zero /\ NoEdit.after = Zero
<1> DEFINE form == [kind |-> "set", units |-> [b \in {} |-> 0]]
<1>1. form \in Forms
  <2>1. [b \in {} |-> 0] \in [{} -> {0, MaxOnHand}]
    OBVIOUS
  <2>2. form \in [kind : {"set"}, units : [{} -> {0, MaxOnHand}]]
    BY <2>1
  <2>3. {} \in SUBSET Branch
    OBVIOUS
  <2> HIDE DEF form
  <2> QED BY <2>2, <2>3 DEF Forms
<1>2. Zero \in [Branch -> Amounts]
  BY AmountFacts DEF Zero
<1>3. NoEdit = [step |-> "idle", form |-> form, before |-> Zero, after |-> Zero, left |-> {}]
  BY DEF NoEdit
<1> HIDE DEF form
<1> QED BY <1>1, <1>2, <1>3 DEF Edits

\* One column of a journal that has one row more.
LEMMA ColumnAppended ==
    ASSUME NEW rows \in Seq(MovementRows), NEW r \in MovementRows,
           NEW T, T \subseteq DOMAIN rows, NEW U, NEW c \in BOOLEAN,
           U = T \cup (IF c THEN {Len(rows) + 1} ELSE {})
    PROVE  /\ SumOver(Distances(rows), T) \in Nat
           /\ SumOver(Distances(Append(rows, r)), U)
                = SumOver(Distances(rows), T) + (IF c THEN Distance(r) ELSE 0)
<1> DEFINE more == Append(rows, r)
           n == Len(rows) + 1
           f == Distances(rows)
           g == Distances(more)
<1>1. /\ Len(rows) \in Nat /\ DOMAIN rows = 1 .. Len(rows) /\ DOMAIN more = 1 .. n
      /\ \A k \in DOMAIN rows : rows[k] \in MovementRows /\ more[k] = rows[k] /\ k \in DOMAIN more
      /\ more[n] = r /\ n \in DOMAIN more /\ n \notin DOMAIN rows
  BY AppendProperties
<1>2. /\ \A k \in DOMAIN rows : f[k] = Distance(rows[k]) /\ f[k] \in Nat /\ g[k] = f[k]
      /\ g[n] = Distance(r) /\ g[n] \in Nat
  <2> HIDE DEF more, n
  <2> QED BY <1>1, RowTypes DEF Distances
<1>3. IsFiniteSet(DOMAIN rows) /\ IsFiniteSet(T)
  <2>1. IsFiniteSet(1 .. Len(rows))
    BY <1>1, FS_Interval
  <2> HIDE DEF more, n, f, g
  <2> QED BY <1>1, <2>1, FS_Subset
<1> HIDE DEF more, n, f, g
<1>4. SumOver(f, T) \in Nat
  BY <1>2, <1>3, SumType
<1>5. SumOver(g, T) = SumOver(f, T)
  BY <1>2, SumCongruence
<1>6. CASE c
  <2>1. U = T \cup {n} /\ U \ {n} = T /\ IsFiniteSet(U)
    BY <1>1, <1>3, <1>6, FS_AddElement DEF n
  <2>2. \A k \in U : g[k] \in Nat
    BY <1>2, <2>1
  <2>3. SumOver(g, U) = SumOver(g, U \ {n}) + g[n]
    BY <2>1, <2>2, SumSplit
  <2> QED BY <1>2, <1>4, <1>5, <1>6, <2>1, <2>3 DEF f, g, more
<1>7. CASE ~c
  BY <1>4, <1>5, <1>7 DEF f, g, more
<1> QED BY <1>6, <1>7

\* The rows of some shops and types in a journal that has one row more.
LEMMA RowsAppended ==
    ASSUME NEW rows \in Seq(MovementRows), NEW r \in MovementRows, NEW branches, NEW types
    PROVE  /\ RowsOf(rows, branches, types) \subseteq DOMAIN rows
           /\ RowsOf(Append(rows, r), branches, types) = RowsOf(rows, branches, types)
                \cup (IF r.branch \in branches /\ r.type \in types
                      THEN {Len(rows) + 1} ELSE {})
<1> DEFINE more == Append(rows, r)
           n == Len(rows) + 1
<1>1. /\ DOMAIN more = DOMAIN rows \cup {n} /\ n \notin DOMAIN rows
      /\ \A k \in DOMAIN rows : more[k] = rows[k]
      /\ more[n] = r
  BY AppendProperties
<1> HIDE DEF n
<1> QED BY <1>1 DEF RowsOf, n

\* A row moves its shop by what it says, and no other shop.
LEMMA MovedAppended ==
    ASSUME NEW rows \in Seq(MovementRows), NEW r \in MovementRows, NEW b \in Branch,
           r.type = "SALE" => r.after <= r.before,
           r.type = "PURCHASE" => r.after >= r.before
    PROVE  /\ Moved(rows, b) \in Int
           /\ Moved(Append(rows, r), b) = Moved(rows, b)
                + (IF r.branch = b THEN r.after - r.before ELSE 0)
<1> DEFINE more == Append(rows, r)
           mine == r.branch = b
           bought == mine /\ r.type = "PURCHASE"
           wasSold == mine /\ r.type = "SALE"
           listed == mine /\ r.type \in {"TRANSFER", "ADJUSTMENT"}
           up == listed /\ r.after > r.before
           down == listed /\ ~(r.after > r.before)
           d == Distance(r)
           Falling(j) == Listed(j, b) \ Rising(j, b)
           P == SumOver(Distances(rows), RowsOf(rows, {b}, {"PURCHASE"}))
           S == SumOver(Distances(rows), RowsOf(rows, {b}, {"SALE"}))
           U == SumOver(Distances(rows), Rising(rows, b))
           D == SumOver(Distances(rows), Falling(rows))
           PP == SumOver(Distances(more), RowsOf(more, {b}, {"PURCHASE"}))
           SS == SumOver(Distances(more), RowsOf(more, {b}, {"SALE"}))
           UU == SumOver(Distances(more), Rising(more, b))
           DD == SumOver(Distances(more), Falling(more))
<1>1. P \in Nat /\ PP = P + (IF bought THEN d ELSE 0)
  <2>1. bought \in BOOLEAN /\ (bought <=> r.branch \in {b} /\ r.type \in {"PURCHASE"})
    OBVIOUS
  <2> HIDE DEF bought
  <2> QED BY <2>1, RowsAppended, ColumnAppended
<1>2. S \in Nat /\ SS = S + (IF wasSold THEN d ELSE 0)
  <2>1. wasSold \in BOOLEAN /\ (wasSold <=> r.branch \in {b} /\ r.type \in {"SALE"})
    OBVIOUS
  <2> HIDE DEF wasSold
  <2> QED BY <2>1, RowsAppended, ColumnAppended
<1>3. /\ Listed(rows, b) \subseteq DOMAIN rows
      /\ Listed(more, b) = Listed(rows, b) \cup (IF listed THEN {Len(rows) + 1} ELSE {})
  <2>1. listed \in BOOLEAN /\ (listed <=> r.branch \in {b} /\ r.type \in {"TRANSFER", "ADJUSTMENT"})
    OBVIOUS
  <2> HIDE DEF listed
  <2> QED BY <2>1, RowsAppended DEF Listed
<1>4. /\ \A k \in DOMAIN rows : more[k] = rows[k]
      /\ more[Len(rows) + 1] = r /\ Len(rows) + 1 \notin DOMAIN rows
  BY AppendProperties
<1>5. /\ Rising(rows, b) \subseteq DOMAIN rows /\ Falling(rows) \subseteq DOMAIN rows
      /\ Rising(more, b) = Rising(rows, b) \cup (IF up THEN {Len(rows) + 1} ELSE {})
      /\ Falling(more) = Falling(rows) \cup (IF down THEN {Len(rows) + 1} ELSE {})
  <2> DEFINE n == Len(rows) + 1
  <2>1. /\ Listed(more, b) = Listed(rows, b) \cup (IF listed THEN {n} ELSE {})
        /\ more[n] = r /\ n \notin DOMAIN rows
    BY <1>3, <1>4
  <2> HIDE DEF n, listed, more
  <2>2. Rising(more, b) = Rising(rows, b) \cup (IF up THEN {n} ELSE {})
    BY <1>3, <1>4, <2>1 DEF Rising
  <2>3. Falling(more) = Falling(rows) \cup (IF down THEN {n} ELSE {})
    BY <1>3, <1>4, <2>1 DEF Rising
  <2>4. Rising(rows, b) \subseteq DOMAIN rows /\ Falling(rows) \subseteq DOMAIN rows
    BY <1>3 DEF Rising
  <2> QED BY <2>2, <2>3, <2>4 DEF n
<1>6. U \in Nat /\ UU = U + (IF up THEN d ELSE 0)
  <2>1. up \in BOOLEAN
    OBVIOUS
  <2> HIDE DEF up
  <2> QED BY <1>5, <2>1, ColumnAppended
<1>7. D \in Nat /\ DD = D + (IF down THEN d ELSE 0)
  <2>1. down \in BOOLEAN
    OBVIOUS
  <2> HIDE DEF down, Falling
  <2> QED BY <1>5, <2>1, ColumnAppended
<1>8. Moved(rows, b) = P - S + (U - D) /\ Moved(more, b) = PP - SS + (UU - DD)
  BY DEF Moved
<1>9. /\ r.before \in Nat /\ r.after \in Nat /\ d \in Nat /\ r.type \in MovementTypes
      /\ r.after >= r.before => d = r.after - r.before
      /\ r.after <= r.before => d = r.before - r.after
  BY RowTypes
<1>10. CASE mine
  <2>1. \/ bought /\ ~wasSold /\ ~up /\ ~down /\ d = r.after - r.before
        \/ wasSold /\ ~bought /\ ~up /\ ~down /\ d = r.before - r.after
        \/ up /\ ~bought /\ ~wasSold /\ ~down /\ d = r.after - r.before
        \/ down /\ ~bought /\ ~wasSold /\ ~up /\ d = r.before - r.after
    <3> HIDE DEF d, P, S, U, D, PP, SS, UU, DD
    <3> QED BY <1>9, <1>10 DEF MovementTypes
  <2> HIDE DEF d, P, S, U, D, PP, SS, UU, DD, bought, wasSold, up, down, more
  <2>2. Moved(more, b) = Moved(rows, b) + (r.after - r.before)
    <3>1. ASSUME bought, ~wasSold, ~up, ~down, d = r.after - r.before
          PROVE  Moved(more, b) = Moved(rows, b) + (r.after - r.before)
      BY <1>1, <1>2, <1>6, <1>7, <1>8, <1>9, <3>1
    <3>2. ASSUME wasSold, ~bought, ~up, ~down, d = r.before - r.after
          PROVE  Moved(more, b) = Moved(rows, b) + (r.after - r.before)
      <4>1. PP = P /\ SS = S + d /\ UU = U /\ DD = D
        BY <1>1, <1>2, <1>6, <1>7, <3>2
      <4>2. P \in Nat /\ S \in Nat /\ U \in Nat /\ D \in Nat /\ r.before \in Nat /\ r.after \in Nat
        BY <1>1, <1>2, <1>6, <1>7, <1>9
      <4> DEFINE x == r.before
                 y == r.after
      <4>3. Moved(rows, b) = P - S + (U - D) /\ d = x - y /\ x \in Int /\ y \in Int
            /\ Moved(more, b) = P - (S + d) + (U - D)
        BY <1>8, <3>2, <4>1, <4>2
      <4> HIDE DEF x, y
      <4>4. Moved(more, b) = Moved(rows, b) + (y - x)
        BY <4>2, <4>3
      <4> QED BY <4>4 DEF x, y
    <3>3. ASSUME up, ~bought, ~wasSold, ~down, d = r.after - r.before
          PROVE  Moved(more, b) = Moved(rows, b) + (r.after - r.before)
      BY <1>1, <1>2, <1>6, <1>7, <1>8, <1>9, <3>3
    <3>4. ASSUME down, ~bought, ~wasSold, ~up, d = r.before - r.after
          PROVE  Moved(more, b) = Moved(rows, b) + (r.after - r.before)
      <4>1. PP = P /\ SS = S /\ UU = U /\ DD = D + d
        BY <1>1, <1>2, <1>6, <1>7, <3>4
      <4>2. P \in Nat /\ S \in Nat /\ U \in Nat /\ D \in Nat /\ r.before \in Nat /\ r.after \in Nat
        BY <1>1, <1>2, <1>6, <1>7, <1>9
      <4> DEFINE x == r.before
                 y == r.after
      <4>3. Moved(rows, b) = P - S + (U - D) /\ d = x - y /\ x \in Int /\ y \in Int
            /\ Moved(more, b) = P - S + (U - (D + d))
        BY <1>8, <3>4, <4>1, <4>2
      <4> HIDE DEF x, y
      <4>4. Moved(more, b) = Moved(rows, b) + (y - x)
        BY <4>2, <4>3
      <4> QED BY <4>4 DEF x, y
    <3> QED BY <2>1, <3>1, <3>2, <3>3, <3>4
  <2> QED BY <1>1, <1>2, <1>6, <1>7, <1>8, <1>10, <2>2 DEF more
<1>11. CASE ~mine
  <2>1. ~bought /\ ~wasSold /\ ~up /\ ~down
    BY <1>11
  <2> HIDE DEF d, P, S, U, D, PP, SS, UU, DD, bought, wasSold, up, down, more
  <2>2. Moved(more, b) = Moved(rows, b)
    BY <1>1, <1>2, <1>6, <1>7, <1>8, <1>9, <2>1
  <2> QED BY <1>1, <1>2, <1>6, <1>7, <1>8, <1>11, <2>2 DEF more
<1> QED BY <1>10, <1>11

\* Only a purchase adds to what is shown as imported.
LEMMA BroughtInAppended ==
    ASSUME NEW rows \in Seq(MovementRows), NEW r \in MovementRows
    PROVE  /\ BroughtIn(rows) \in Nat
           /\ BroughtIn(Append(rows, r)) = BroughtIn(rows)
                + (IF r.type = "PURCHASE" THEN Distance(r) ELSE 0)
<1> DEFINE c == r.type = "PURCHASE"
<1>1. c \in BOOLEAN /\ (c <=> r.branch \in Branch /\ r.type \in {"PURCHASE"})
  BY RowTypes
<1> HIDE DEF c
<1>2. /\ BroughtIn(rows) \in Nat
      /\ BroughtIn(Append(rows, r)) = BroughtIn(rows) + (IF c THEN Distance(r) ELSE 0)
  <2>1. /\ RowsOf(rows, Branch, {"PURCHASE"}) \subseteq DOMAIN rows
        /\ RowsOf(Append(rows, r), Branch, {"PURCHASE"}) =
               RowsOf(rows, Branch, {"PURCHASE"}) \cup (IF c THEN {Len(rows) + 1} ELSE {})
    BY <1>1, RowsAppended
  <2> QED BY <1>1, <2>1, ColumnAppended DEF BroughtIn
<1> QED BY <1>2 DEF c

LEMMA MovedInt ==
    ASSUME NEW rows \in Seq(MovementRows), NEW b \in Branch
    PROVE  Moved(rows, b) \in Int
<1> DEFINE f == Distances(rows)
<1>1. DOMAIN rows = 1 .. Len(rows) /\ Len(rows) \in Nat
  OBVIOUS
<1>2. IsFiniteSet(DOMAIN rows)
  BY <1>1, FS_Interval
<1>3. \A n \in DOMAIN rows : f[n] \in Int
  BY RowTypes DEF Distances
<1>4. \A T \in SUBSET DOMAIN rows : SumOver(f, T) \in Nat
  <2> HIDE DEF f
  <2> QED BY <1>2, <1>3, FS_Subset, SumType
<1>5. /\ \A branches, types : RowsOf(rows, branches, types) \in SUBSET DOMAIN rows
      /\ Rising(rows, b) \in SUBSET DOMAIN rows
      /\ Listed(rows, b) \ Rising(rows, b) \in SUBSET DOMAIN rows
  BY DEF RowsOf, Listed, Rising
<1> HIDE DEF f
<1>6. /\ SumOver(f, RowsOf(rows, {b}, {"PURCHASE"})) \in Nat
      /\ SumOver(f, RowsOf(rows, {b}, {"SALE"})) \in Nat
      /\ SumOver(f, Rising(rows, b)) \in Nat
      /\ SumOver(f, Listed(rows, b) \ Rising(rows, b)) \in Nat
  BY <1>4, <1>5
<1> QED BY <1>6 DEF Moved, f

LEMMA BroughtInNat ==
    ASSUME NEW rows \in Seq(MovementRows)
    PROVE  BroughtIn(rows) \in Nat
<1>1. DOMAIN rows = 1 .. Len(rows) /\ Len(rows) \in Nat
  OBVIOUS
<1>2. IsFiniteSet(RowsOf(rows, Branch, {"PURCHASE"}))
  <2>1. IsFiniteSet(1 .. Len(rows))
    BY <1>1, FS_Interval
  <2>2. RowsOf(rows, Branch, {"PURCHASE"}) \subseteq 1 .. Len(rows)
    BY <1>1 DEF RowsOf
  <2> QED BY <2>1, <2>2, FS_Subset
<1>3. \A n \in RowsOf(rows, Branch, {"PURCHASE"}) : Distances(rows)[n] \in Int
  BY RowTypes DEF Distances, RowsOf
<1> QED BY <1>2, <1>3, SumType DEF BroughtIn

\* What an edit that changes leaves to write.
LEMMA ToWriteChanged ==
    ASSUME NEW managers \in [Manager -> Edits], NEW m \in Manager, NEW e \in Edits,
           NEW b \in Branch
    PROVE  /\ ToWrite(managers, b) \in Int
           /\ ToWrite([managers EXCEPT ![m] = e], b)
                = ToWrite(managers, b) + Rest(e, b) - Rest(managers[m], b)
<1> DEFINE more == [managers EXCEPT ![m] = e]
           f == Ends(managers, b)
           F == Ends(more, b)
           g == Starts(managers, b)
           G == Starts(more, b)
<1>1. more[m] = e /\ \A k \in Manager \ {m} : more[k] = managers[k]
  OBVIOUS
<1>2. /\ \A k \in Manager : f[k] \in Nat /\ g[k] \in Nat
      /\ f[m] = IF b \in managers[m].left THEN managers[m].after[b] ELSE 0
      /\ g[m] = IF b \in managers[m].left THEN managers[m].before[b] ELSE 0
  BY EditTypes DEF Ends, Starts
<1>3. /\ \A k \in Manager \ {m} : F[k] = f[k] /\ G[k] = g[k]
      /\ F[m] = IF b \in e.left THEN e.after[b] ELSE 0
      /\ G[m] = IF b \in e.left THEN e.before[b] ELSE 0
      /\ F[m] \in Nat /\ G[m] \in Nat
  <2> HIDE DEF more
  <2> QED BY <1>1, EditTypes DEF Ends, Starts
<1>4. \A k \in Manager : F[k] \in Nat /\ G[k] \in Nat
  <2> HIDE DEF f, g, F, G
  <2> QED BY <1>2, <1>3
<1> HIDE DEF f, g, F, G
<1>5. /\ SumOver(f, Manager) \in Nat /\ SumOver(g, Manager) \in Nat
      /\ SumOver(F, Manager) = SumOver(f, Manager) + (F[m] - f[m])
      /\ SumOver(G, Manager) = SumOver(g, Manager) + (G[m] - g[m])
  <2>1. IsFiniteSet(Manager) /\ \A k \in Manager : f[k] \in Int /\ g[k] \in Int
    BY <1>2, MovementAssumption
  <2>2. SumOver(f, Manager) \in Nat /\ SumOver(g, Manager) \in Nat
    BY <2>1, SumType
  <2>3. SumOver(F, Manager) = SumOver(f, Manager) + (F[m] - f[m])
    BY <1>2, <1>3, <1>4, <2>1, SumUpdate
  <2>4. SumOver(G, Manager) = SumOver(g, Manager) + (G[m] - g[m])
    <3>1. /\ \A k \in Manager : g[k] \in Nat
          /\ \A k \in Manager : G[k] \in Nat
          /\ \A k \in Manager \ {m} : G[k] = g[k]
      BY <1>2, <1>3, <1>4
    <3>2. \A k \in Manager : G[k] \in Nat /\ g[k] \in Nat
      BY <3>1
    <3> QED BY <2>1, <3>1, <3>2, SumUpdate
  <2> QED BY <2>2, <2>3, <2>4
<1>6. /\ ToWrite(managers, b) = SumOver(f, Manager) - SumOver(g, Manager)
      /\ ToWrite(more, b) = SumOver(F, Manager) - SumOver(G, Manager)
  BY DEF ToWrite, f, g, F, G
<1> HIDE DEF more
<1>7. /\ managers[m].after[b] \in Nat /\ managers[m].before[b] \in Nat
      /\ e.after[b] \in Nat /\ e.before[b] \in Nat
  BY EditTypes
<1> QED BY <1>2, <1>3, <1>5, <1>6, <1>7 DEF more, Rest

LEMMA ToWriteInt ==
    ASSUME NEW managers \in [Manager -> Edits], NEW b \in Branch
    PROVE  ToWrite(managers, b) \in Int
<1>1. \A k \in Manager : Ends(managers, b)[k] \in Int /\ Starts(managers, b)[k] \in Int
  BY EditTypes DEF Ends, Starts
<1>2. SumOver(Ends(managers, b), Manager) \in Nat /\ SumOver(Starts(managers, b), Manager) \in Nat
  BY <1>1, MovementAssumption, SumType
<1> QED BY <1>2 DEF ToWrite

LEMMA GrowthTypes ==
    ASSUME NEW e \in Edits
    PROVE  /\ \A b \in Branch : Growth(e)[b] \in Nat
           /\ SumOver(Growth(e), Branch) \in Nat /\ Grown(e) \in Nat
<1>1. \A b \in Branch : Growth(e)[b] \in Nat /\ Growth(e)[b] \in Int
  BY EditTypes DEF Growth
<1>2. SumOver(Growth(e), Branch) \in Nat
  BY <1>1, MovementAssumption, SumType
<1> QED BY <1>1, <1>2 DEF Grown

\* What the receipts have still to cover when an edit changes.
LEMMA GrownChanged ==
    ASSUME NEW managers \in [Manager -> Edits], NEW m \in Manager, NEW e \in Edits
    PROVE  /\ SumOver(GrownBy(managers), Manager) \in Nat
           /\ SumOver(GrownBy([managers EXCEPT ![m] = e]), Manager)
                = SumOver(GrownBy(managers), Manager) + Grown(e) - Grown(managers[m])
<1> DEFINE more == [managers EXCEPT ![m] = e]
           f == GrownBy(managers)
           F == GrownBy(more)
<1>1. more[m] = e /\ \A k \in Manager \ {m} : more[k] = managers[k]
  OBVIOUS
<1>2. /\ \A k \in Manager : f[k] \in Nat /\ f[k] \in Int
      /\ f[m] = Grown(managers[m])
  BY GrowthTypes DEF GrownBy
<1>3. /\ \A k \in Manager \ {m} : F[k] = f[k]
      /\ F[m] = Grown(e) /\ F[m] \in Nat
  <2> HIDE DEF more
  <2> QED BY <1>1, GrowthTypes DEF GrownBy
<1>4. \A k \in Manager : F[k] \in Nat
  <2> HIDE DEF f, F
  <2> QED BY <1>2, <1>3
<1> HIDE DEF f, F
<1>5. /\ SumOver(f, Manager) \in Nat
      /\ SumOver(F, Manager) = SumOver(f, Manager) + (F[m] - f[m])
  BY <1>2, <1>3, <1>4, MovementAssumption, SumType, SumUpdate
<1>6. Grown(e) \in Nat /\ Grown(managers[m]) \in Nat
  BY GrowthTypes
<1> QED BY <1>2, <1>3, <1>5, <1>6 DEF f, F, more

LEMMA MovementBegins == MovementInit => MovementInv
<1> SUFFICES ASSUME MovementInit PROVE MovementInv
  OBVIOUS
<1>1. /\ onHand = [b \in Branch |-> InitialUnits] /\ onRoad = Zero
      /\ journal = <<>> /\ receipts = 0 /\ manager = [m \in Manager |-> NoEdit]
      /\ unexplained = {}
  BY DEF MovementInit
<1>2. Zero \in [Branch -> Amounts] /\ Zero \in [Branch -> Nat]
  BY AmountFacts DEF Zero
<1>3. /\ NoEdit \in Edits /\ NoEdit.step = "idle" /\ NoEdit.left = {}
      /\ NoEdit.before = Zero /\ NoEdit.after = Zero
  BY NoEditTypes
<1>4. journal \in Seq(MovementRows) /\ DOMAIN journal = {}
  BY <1>1
<1>5. MovementTypeOK
  <2>1. onHand \in [Branch -> Amounts]
    BY <1>1, AmountFacts
  <2>2. manager \in [Manager -> Edits]
    BY <1>1, <1>3
  <2> QED BY <1>1, <1>2, <1>4, <2>1, <2>2 DEF MovementTypeOK
<1>6. EditsHold
  BY <1>1, <1>3 DEF EditsHold
<1>7. \A branches, types : RowsOf(journal, branches, types) = {}
  BY <1>4 DEF RowsOf
<1>8. StockExplained
  <2> SUFFICES ASSUME NEW b \in Branch
      PROVE  onHand[b] = InitialUnits + Moved(journal, b) + ToWrite(manager, b)
    BY DEF StockExplained
  <2>1. /\ Listed(journal, b) = {} /\ Rising(journal, b) = {}
        /\ Listed(journal, b) \ Rising(journal, b) = {}
    BY <1>7 DEF Listed, Rising
  <2>2. SumOver(Distances(journal), {}) = 0
    BY SumEmpty
  <2>3. Moved(journal, b) = 0
    <3> DEFINE nothing == SumOver(Distances(journal), {})
    <3>1. Moved(journal, b) = nothing - nothing + (nothing - nothing)
      BY <1>7, <2>1 DEF Moved
    <3> HIDE DEF nothing
    <3>2. nothing = 0
      BY <2>2 DEF nothing
    <3> QED BY <3>1, <3>2
  <2>4. \A m \in Manager : Ends(manager, b)[m] = 0 /\ Starts(manager, b)[m] = 0
    BY <1>1, <1>3 DEF Ends, Starts
  <2>5. SumOver(Ends(manager, b), Manager) = 0 /\ SumOver(Starts(manager, b), Manager) = 0
    BY <2>4, SumZeroRows, SumEmpty
  <2>6. ToWrite(manager, b) = 0
    BY <2>5 DEF ToWrite
  <2> QED BY <1>1, <2>3, <2>6, AmountFacts
<1>9. ReceiptsCover
  <2>1. BroughtIn(journal) = 0
    BY <1>7, SumEmpty DEF BroughtIn
  <2>2. \A m \in Manager : GrownBy(manager)[m] = 0
    BY <1>1, <1>3 DEF GrownBy, Grown
  <2>3. SumOver(GrownBy(manager), Manager) = 0
    BY <2>2, SumZeroRows, SumEmpty
  <2> QED BY <1>1, <2>1, <2>3 DEF ReceiptsCover
<1> QED BY <1>4, <1>5, <1>6, <1>8, <1>9 DEF MovementInv

LEMMA MovementFacts ==
    ASSUME MovementInv
    PROVE  /\ onHand \in [Branch -> Amounts] /\ onRoad \in [Branch -> Nat]
           /\ journal \in Seq(MovementRows) /\ receipts \in Nat
           /\ manager \in [Manager -> Edits] /\ unexplained \subseteq Branch
           /\ \A b \in Branch : onHand[b] \in Nat
BY AmountFacts DEF MovementInv, MovementTypeOK

\* A shop moves a unit and writes its row, or an edit writes one of its rows.
LEMMA RowWrites ==
    ASSUME MovementInv, NEW r \in MovementRows, journal' = Append(journal, r)
    PROVE  /\ journal' \in Seq(MovementRows)
           /\ \A n \in DOMAIN journal' : journal'[n] \in MovementRows
<1>1. journal' \in Seq(MovementRows)
  BY MovementFacts, AppendProperties
<1> QED BY <1>1

\* The two equations, spelt out for the next state.
LEMMA StockExplainedNext ==
    ASSUME \A b \in Branch \ unexplained' :
               onHand'[b] = InitialUnits + Moved(journal', b) + ToWrite(manager', b)
    PROVE  StockExplained'
BY DEF StockExplained, Moved, RowsOf, Distances, Distance, Listed, Rising, ToWrite, Ends, Starts

LEMMA ReceiptsCoverNext ==
    ASSUME BroughtIn(journal') + SumOver(GrownBy(manager'), Manager) <= receipts'
    PROVE  ReceiptsCover'
BY DEF ReceiptsCover, BroughtIn, RowsOf, Distances, Distance, GrownBy, Grown, Growth

\* A sale and both ends of a transfer.
LEMMA MoveHolds ==
    ASSUME MovementInv, NEW b \in Branch, NEW type \in {"SALE", "TRANSFER"}, NEW d \in {-1, 1},
           type = "SALE" => d = -1, Move(b, type, d), onRoad' \in [Branch -> Nat]
    PROVE  MovementInv'
<1> DEFINE r == [branch |-> b, type |-> type, before |-> onHand[b], after |-> onHand[b] + d]
<1>1. /\ onHand[b] + d \in Amounts /\ onHand' = [onHand EXCEPT ![b] = onHand[b] + d]
      /\ journal' = Append(journal, r)
      /\ receipts' = receipts /\ manager' = manager /\ unexplained' = unexplained
  BY DEF Move, RowWritten, movementHistory
<1>2. /\ r \in MovementRows /\ r.branch = b /\ r.type = type
      /\ r.before = onHand[b] /\ r.after = onHand[b] + d
  BY <1>1, MovementFacts DEF MovementRows, MovementTypes
<1>3. onHand[b] \in Nat /\ d \in Int
  BY MovementFacts
<1> HIDE DEF r
<1>4. journal' \in Seq(MovementRows) /\ \A n \in DOMAIN journal' : journal'[n] \in MovementRows
  BY <1>1, <1>2, RowWrites
<1>5. MovementTypeOK'
  <2>1. onHand' \in [Branch -> Amounts]
    BY <1>1, MovementFacts
  <2> QED BY <1>1, <1>4, <2>1, MovementFacts DEF MovementTypeOK
<1>6. EditsHold'
  BY <1>1 DEF EditsHold, MovementInv
<1>7. StockExplained'
  <2> SUFFICES ASSUME NEW c \in Branch \ unexplained
      PROVE  onHand'[c] = InitialUnits + Moved(journal', c) + ToWrite(manager, c)
    BY <1>1, StockExplainedNext
  <2>1. onHand[c] = InitialUnits + Moved(journal, c) + ToWrite(manager, c)
    BY DEF MovementInv, StockExplained
  <2>2. /\ Moved(journal, c) \in Int
        /\ Moved(journal', c) = Moved(journal, c)
             + (IF r.branch = c THEN r.after - r.before ELSE 0)
    <3>1. journal \in Seq(MovementRows)
      BY MovementFacts
    <3>2. /\ r.type = "SALE" => r.after <= r.before
          /\ r.type = "PURCHASE" => r.after >= r.before
      BY <1>2, <1>3
    <3> QED BY <1>1, <1>2, <3>1, <3>2, MovedAppended
  <2>3. ToWrite(manager, c) \in Int
    BY MovementFacts, ToWriteInt
  <2>4. onHand'[c] = onHand[c] + (IF c = b THEN d ELSE 0)
    BY <1>1, <1>3, MovementFacts
  <2>5. onHand[c] \in Nat /\ InitialUnits \in Nat
    BY MovementFacts, AmountFacts
  <2> QED BY <1>2, <1>3, <2>1, <2>2, <2>3, <2>4, <2>5
<1>8. ReceiptsCover'
  <2>1. BroughtIn(journal') = BroughtIn(journal)
    <3>1. journal \in Seq(MovementRows) /\ r.type # "PURCHASE"
      BY <1>2, MovementFacts
    <3> QED BY <1>1, <1>2, <3>1, BroughtInAppended
  <2>2. BroughtIn(journal') + SumOver(GrownBy(manager), Manager) <= receipts
    BY <2>1 DEF MovementInv, ReceiptsCover
  <2> QED BY <1>1, <2>2, ReceiptsCoverNext
<1> QED BY <1>4, <1>5, <1>6, <1>7, <1>8 DEF MovementInv

\* Receipts cover the imports and what is to come.
LEMMA StillCovered ==
    ASSUME NEW B \in Nat, NEW C \in Nat, NEW f \in Nat, NEW g \in Nat, NEW S \in Nat,
           NEW T, T = S + f - g, NEW p \in Nat, NEW q \in Nat,
           B + S <= p, C + f - q <= B + g - p
    PROVE  C + T <= q
OBVIOUS

\* An edit goes on: what its shops hold, its rows and its receipt stay in step.
EditStep(m, e) ==
    /\ manager' = [manager EXCEPT ![m] = e] /\ onRoad' = onRoad
    /\ onHand' \in [Branch -> Amounts] /\ receipts' \in Nat
    /\ journal' = journal \/ \E r \in MovementRows : journal' = Append(journal, r)
    /\ unexplained \subseteq unexplained' /\ unexplained' \subseteq Branch
    /\ e.step \in {"idle", "read"} => e.left = {}
    /\ \A b \in Branch \ unexplained' :
           onHand'[b] - Moved(journal', b) - Rest(e, b)
             = onHand[b] - Moved(journal, b) - Rest(manager[m], b)
    /\ BroughtIn(journal') + Grown(e) - receipts'
         <= BroughtIn(journal) + Grown(manager[m]) - receipts

\* One change of an edit that keeps the balance keeps the invariant.
LEMMA EditHolds ==
    ASSUME MovementInv, NEW m \in Manager, NEW e \in Edits, EditStep(m, e)
    PROVE  MovementInv'
<1> USE DEF EditStep
<1>1. journal' \in Seq(MovementRows)
  BY MovementFacts, RowWrites
<1>2. MovementTypeOK'
  <2>1. \A n \in DOMAIN journal' : journal'[n] \in MovementRows
    BY <1>1
  <2>2. manager' \in [Manager -> Edits]
    BY MovementFacts
  <2> QED BY <2>1, <2>2, MovementFacts DEF MovementTypeOK
<1>3. EditsHold'
  BY MovementFacts DEF MovementInv, EditsHold
<1>4. StockExplained'
  <2> SUFFICES ASSUME NEW b \in Branch \ unexplained'
      PROVE  onHand'[b] = InitialUnits + Moved(journal', b) + ToWrite(manager', b)
    BY StockExplainedNext
  <2> DEFINE old == Rest(manager[m], b)
             new == Rest(e, b)
             M == Moved(journal, b)
             N == Moved(journal', b)
             W == ToWrite(manager, b)
             V == ToWrite(manager', b)
             h == onHand[b]
             k == onHand'[b]
  <2>1. h = InitialUnits + M + W
    BY DEF MovementInv, StockExplained
  <2>2. W \in Int /\ V = W + new - old
    <3>1. manager \in [Manager -> Edits] /\ b \in Branch
      BY MovementFacts
    <3> QED BY <3>1, ToWriteChanged
  <2>3. old \in Int /\ new \in Int
    BY MovementFacts, EditTypes DEF Rest
  <2>4. M \in Int /\ N \in Int
    BY <1>1, MovementFacts, MovedInt
  <2>5. h \in Int /\ k \in Int /\ InitialUnits \in Int
    <3>1. b \in Branch
      OBVIOUS
    <3>2. h \in Amounts /\ k \in Amounts
      BY <3>1, MovementFacts
    <3> HIDE DEF h, k
    <3> QED BY <3>2, AmountFacts
  <2>6. k - N - new = h - M - old
    OBVIOUS
  <2> HIDE DEF old, new, M, N, W, V, h, k
  <2>7. k = InitialUnits + N + V
    BY <2>1, <2>2, <2>3, <2>4, <2>5, <2>6
  <2> QED BY <2>7 DEF k, N, V
<1>5. ReceiptsCover'
  <2> DEFINE B == BroughtIn(journal)
             C == BroughtIn(journal')
             g == Grown(manager[m])
             f == Grown(e)
             S == SumOver(GrownBy(manager), Manager)
             T == SumOver(GrownBy(manager'), Manager)
  <2>1. B \in Nat /\ C \in Nat
    BY <1>1, MovementFacts, BroughtInNat
  <2>2. g \in Nat /\ f \in Nat
    BY MovementFacts, GrowthTypes
  <2>3. S \in Nat /\ T = S + f - g
    BY MovementFacts, GrownChanged
  <2>4. B + S <= receipts /\ C + f - receipts' <= B + g - receipts
    BY DEF MovementInv, ReceiptsCover
  <2>5. receipts \in Nat /\ receipts' \in Nat
    BY MovementFacts
  <2> HIDE DEF B, C, g, f, S, T
  <2>6. C + T <= receipts'
    BY <2>1, <2>2, <2>3, <2>4, <2>5, StillCovered
  <2> QED BY <2>6, ReceiptsCoverNext DEF C, T
<1> QED BY <1>1, <1>2, <1>3, <1>4, <1>5 DEF MovementInv

\* An edit that has nothing to write, or is not yet at it.
LEMMA NothingLeft ==
    ASSUME NEW e \in Edits, e.step # "rows" \/ e.left = {}
    PROVE  Grown(e) = 0
<1>1. CASE e.step # "rows"
  BY <1>1 DEF Grown
<1>2. CASE e.left = {}
  <2>1. \A b \in Branch : Growth(e)[b] = 0
    BY <1>2 DEF Growth
  <2>2. SumOver(Growth(e), Branch) = 0
    BY <2>1, SumZeroRows, SumEmpty
  <2> QED BY <2>2 DEF Grown
<1> QED BY <1>1, <1>2

LEMMA SameColumns ==
    ASSUME MovementInv
    PROVE  /\ \A b \in Branch : Moved(journal, b) \in Int /\ onHand[b] \in Int
           /\ BroughtIn(journal) \in Nat /\ receipts \in Nat
BY MovementFacts, MovedInt, BroughtInNat

\* An edit reads the shops.
LEMMA ReadHolds ==
    ASSUME MovementInv, NEW m \in Manager, NEW form \in Forms, ReadStocks(m, form)
    PROVE  MovementInv'
<1> DEFINE e == [NoEdit EXCEPT !.step = "read", !.form = form, !.before = onHand]
<1>1. /\ manager[m].step = "idle" /\ manager' = [manager EXCEPT ![m] = e]
      /\ onHand' = onHand /\ onRoad' = onRoad /\ journal' = journal
      /\ receipts' = receipts /\ unexplained' = unexplained
  BY DEF ReadStocks, movementHistory
<1>2. e \in Edits /\ e.step = "read" /\ e.left = {}
  BY NoEditTypes, MovementFacts DEF Edits
<1>3. manager[m] \in Edits /\ manager[m].left = {}
  BY <1>1, MovementFacts DEF MovementInv, EditsHold
<1> HIDE DEF e
<1>4. /\ \A b \in Branch : Rest(e, b) = 0 /\ Rest(manager[m], b) = 0
      /\ Grown(e) = 0 /\ Grown(manager[m]) = 0
  BY <1>2, <1>3, NothingLeft DEF Rest
<1>5. EditStep(m, e)
  BY <1>1, <1>2, <1>4, MovementFacts, SameColumns DEF EditStep
<1> QED BY <1>2, <1>5, EditHolds

\* The receipt is written before the rows.
LEMMA ReceiptHolds ==
    ASSUME MovementInv, NEW m \in Manager, WriteReceipt(m)
    PROVE  MovementInv'
<1> DEFINE old == manager[m]
           e == [old EXCEPT !.step = "rows"]
           sum == SumOver(Growth(old), Branch)
<1>1. /\ old.step = "receipt" /\ manager' = [manager EXCEPT ![m] = e]
      /\ receipts' = receipts + sum
      /\ onHand' = onHand /\ onRoad' = onRoad /\ journal' = journal
      /\ unexplained' = unexplained
  BY DEF WriteReceipt, movementHistory
<1>2. old \in Edits
  BY MovementFacts
<1> HIDE DEF old
<1>3. /\ e \in Edits /\ e.step = "rows" /\ e.left = old.left
      /\ e.before = old.before /\ e.after = old.after
  BY <1>2 DEF Edits
<1> HIDE DEF e
<1>4. Growth(e) = Growth(old) /\ \A b \in Branch : Rest(e, b) = Rest(old, b)
  BY <1>3 DEF Growth, Rest
<1>5. /\ Grown(e) = sum /\ Grown(old) = 0 /\ sum \in Nat
      /\ \A b \in Branch : Rest(old, b) \in Int
  BY <1>1, <1>2, <1>3, <1>4, GrowthTypes, EditTypes DEF Grown, Rest
<1> HIDE DEF sum
<1>6. receipts' \in Nat /\ BroughtIn(journal') + Grown(e) - receipts'
             <= BroughtIn(journal) + Grown(old) - receipts
  BY <1>1, <1>5, SameColumns
<1>7. EditStep(m, e)
  BY <1>1, <1>3, <1>4, <1>6, MovementFacts DEF EditStep, old
<1> QED BY <1>3, <1>7, EditHolds

\* The row an edit writes next.
LEMMA WriteHolds ==
    ASSUME MovementInv, NEW m \in Manager, NEW b \in Branch, WriteMovement(m, b)
    PROVE  MovementInv'
<1> DEFINE old == manager[m]
           type == IF old.after[b] > old.before[b] THEN "PURCHASE" ELSE "ADJUSTMENT"
           r == [branch |-> b, type |-> type, before |-> old.before[b], after |-> old.after[b]]
           e == IF old.left = {b} THEN NoEdit ELSE [old EXCEPT !.left = old.left \ {b}]
<1>1. /\ old.step = "rows" /\ b \in old.left /\ journal' = Append(journal, r)
      /\ manager' = [manager EXCEPT ![m] = e]
      /\ onHand' = onHand /\ onRoad' = onRoad /\ receipts' = receipts
      /\ unexplained' = unexplained
  BY DEF WriteMovement, RowWritten, movementHistory
<1>2. old \in Edits
  BY MovementFacts
<1> HIDE DEF old
<1>3. /\ old.left \subseteq Branch
      /\ old.before \in [Branch -> Amounts] /\ old.after \in [Branch -> Amounts]
      /\ old.before[b] \in Nat /\ old.after[b] \in Nat
  BY <1>2, EditTypes
<1>4. /\ r \in MovementRows /\ r.branch = b /\ r.before = old.before[b] /\ r.after = old.after[b]
      /\ r.type # "SALE" /\ (r.type = "PURCHASE" <=> r.after > r.before)
  BY <1>3 DEF MovementRows, MovementTypes
<1>5. /\ e \in Edits /\ (e.step \in {"idle", "read"} => e.left = {})
      /\ e.left = old.left \ {b}
      /\ old.left # {b} => e.step = "rows" /\ e.before = old.before /\ e.after = old.after
  <2>1. [old EXCEPT !.left = old.left \ {b}] \in Edits
    BY <1>2, <1>3 DEF Edits
  <2>2. CASE old.left = {b}
    BY <2>2, NoEditTypes
  <2>3. CASE old.left # {b}
    BY <1>1, <1>2, <2>1, <2>3 DEF Edits
  <2> QED BY <2>2, <2>3
<1> HIDE DEF r, e, type
<1>6. /\ \A c \in Branch : Rest(old, c) \in Int
      /\ \A c \in Branch : Rest(e, c) = IF c = b THEN 0 ELSE Rest(old, c)
      /\ Rest(old, b) = r.after - r.before
  <2>1. \A c \in Branch : Rest(old, c) \in Int
    BY <1>2, EditTypes DEF Rest
  <2>2. Rest(e, b) = 0
    BY <1>5 DEF Rest
  <2>3. ASSUME NEW c \in Branch \ {b} PROVE Rest(e, c) = Rest(old, c)
    <3>1. CASE c \in old.left
      <4>1. e.before = old.before /\ e.after = old.after /\ c \in e.left
        BY <1>5, <3>1
      <4> QED BY <4>1, <3>1 DEF Rest
    <3>2. CASE c \notin old.left
      BY <1>5, <3>2 DEF Rest
    <3> QED BY <3>1, <3>2
  <2>4. Rest(old, b) = r.after - r.before
    BY <1>1, <1>4 DEF Rest
  <2> QED BY <2>1, <2>2, <2>3, <2>4
<1>7. Grown(e) = Grown(old) - (IF r.after > r.before THEN r.after - r.before ELSE 0)
  <2> DEFINE f == Growth(old)
             x == [c \in Branch |-> IF c = b THEN 0 ELSE f[c]]
  <2>1. /\ \A c \in Branch : f[c] \in Nat
        /\ f[b] = IF r.after > r.before THEN r.after - r.before ELSE 0
    BY <1>1, <1>2, <1>4, GrowthTypes DEF Growth
  <2>2. /\ \A c \in Branch : x[c] \in Nat
        /\ \A c \in Branch \ {b} : x[c] = f[c]
        /\ x[b] = 0
    BY <2>1
  <2> HIDE DEF f, x
  <2>3. SumOver(x, Branch) = SumOver(f, Branch) + (x[b] - f[b]) /\ SumOver(f, Branch) \in Nat
    <3>1. IsFiniteSet(Branch)
      BY MovementAssumption
    <3>2. SumOver(x, Branch) = SumOver(f, Branch) + (x[b] - f[b])
      <4>1. (\A c \in Branch : f[c] \in Nat) /\ (\A c \in Branch : x[c] \in Nat)
        BY <2>1, <2>2
      <4>2. \A c \in Branch \ {b} : x[c] = f[c]
        BY <2>2
      <4> QED BY <3>1, <4>1, <4>2, SumUpdate
    <3>3. SumOver(f, Branch) \in Nat
      BY <1>2, GrowthTypes DEF f
    <3> QED BY <3>2, <3>3
  <2>4. Grown(old) = SumOver(f, Branch)
    BY <1>1 DEF Grown, f
  <2>5. Grown(e) = SumOver(x, Branch)
    <3>1. CASE old.left = {b}
      <4>1. Grown(e) = 0
        BY <1>5, <3>1, NothingLeft
      <4>2. \A c \in Branch : x[c] = 0
        BY <3>1 DEF x, f, Growth
      <4>3. SumOver(x, Branch) = 0
        BY <4>2, SumZeroRows, SumEmpty
      <4> QED BY <4>1, <4>3
    <3>2. CASE old.left # {b}
      <4>1. \A c \in Branch : Growth(e)[c] = x[c]
        BY <1>5, <3>2 DEF Growth, x, f
      <4>2. SumOver(Growth(e), Branch) = SumOver(x, Branch)
        BY <4>1, SumCongruence
      <4> QED BY <1>5, <3>2, <4>2 DEF Grown
    <3> QED BY <3>1, <3>2
  <2> QED BY <2>1, <2>2, <2>3, <2>4, <2>5, <1>3, <1>4
<1>8. ASSUME NEW c \in Branch
      PROVE  onHand'[c] - Moved(journal', c) - Rest(e, c) = onHand[c] - Moved(journal, c) - Rest(old, c)
  <2> DEFINE M == Moved(journal, c)
             h == onHand[c]
  <2>1. /\ M \in Int
        /\ Moved(journal', c) = M + (IF b = c THEN r.after - r.before ELSE 0)
    <3>1. journal \in Seq(MovementRows)
      BY MovementFacts
    <3>2. /\ r.type = "SALE" => r.after <= r.before
          /\ r.type = "PURCHASE" => r.after >= r.before
      BY <1>3, <1>4
    <3> QED BY <1>1, <1>4, <3>1, <3>2, MovedAppended
  <2>2. h \in Int /\ onHand'[c] = h
    BY <1>1, SameColumns
  <2>3. r.after \in Nat /\ r.before \in Nat
    BY <1>3, <1>4
  <2> HIDE DEF M, h
  <2>4. CASE c = b
    <3>1. Rest(e, c) = 0 /\ Rest(old, c) = r.after - r.before
      BY <1>6, <2>4
    <3>2. Moved(journal', c) = M + (r.after - r.before)
      BY <2>1, <2>4
    <3>3. h - (M + (r.after - r.before)) - 0 = h - M - (r.after - r.before)
      BY <2>1, <2>2, <2>3
    <3> QED BY <2>2, <3>1, <3>2, <3>3 DEF M, h
  <2>5. CASE c # b
    <3>1. Rest(e, c) = Rest(old, c)
      BY <1>6, <2>5
    <3>2. Moved(journal', c) = M
      BY <2>1, <2>5
    <3> QED BY <2>2, <3>1, <3>2 DEF M, h
  <2> QED BY <2>4, <2>5
<1>9. BroughtIn(journal') + Grown(e) - receipts' <= BroughtIn(journal) + Grown(old) - receipts
  <2> DEFINE B == BroughtIn(journal)
             C == BroughtIn(journal')
             d == Distance(r)
  <2>1. C = B + (IF r.type = "PURCHASE" THEN d ELSE 0) /\ B \in Nat
    <3>1. journal \in Seq(MovementRows)
      BY MovementFacts
    <3> QED BY <1>1, <1>4, <3>1, BroughtInAppended
  <2>2. r.after > r.before => d = r.after - r.before
    BY <1>4, RowTypes
  <2>3. Grown(old) \in Nat /\ receipts \in Nat /\ receipts' = receipts
    BY <1>1, <1>2, GrowthTypes, SameColumns
  <2>4. r.after \in Nat /\ r.before \in Nat
    BY <1>3, <1>4
  <2> HIDE DEF B, C, d
  <2>5. C + Grown(e) - receipts' <= B + Grown(old) - receipts
    <3>1. CASE r.after > r.before
      BY <1>4, <1>7, <2>1, <2>2, <2>3, <2>4, <3>1
    <3>2. CASE ~(r.after > r.before)
      BY <1>4, <1>7, <2>1, <2>2, <2>3, <2>4, <3>2
    <3> QED BY <3>1, <3>2
  <2> QED BY <2>5 DEF B, C
<1>10. \E row \in MovementRows : journal' = Append(journal, row)
  BY <1>1, <1>4
<1>11. EditStep(m, e)
  BY <1>1, <1>5, <1>8, <1>9, <1>10, MovementFacts DEF EditStep, old
<1> QED BY <1>5, <1>11, EditHolds

\* An edit that is refused, or that fails while it writes its rows.
LEMMA StopHolds ==
    ASSUME MovementInv, NEW m \in Manager, RefuseEdit(m) \/ LogFails(m)
    PROVE  MovementInv'
<1> DEFINE old == manager[m]
<1>1. /\ manager' = [manager EXCEPT ![m] = NoEdit]
      /\ onHand' = onHand /\ onRoad' = onRoad /\ journal' = journal /\ receipts' = receipts
      /\ \/ old.step = "read" /\ unexplained' = unexplained
         \/ unexplained' = unexplained \cup old.left
  BY DEF RefuseEdit, LogFails, movementHistory
<1>2. old \in Edits /\ (old.step = "read" => old.left = {})
  BY MovementFacts DEF MovementInv, EditsHold
<1> HIDE DEF old
<1>3. old.left \subseteq Branch
  BY <1>2, EditTypes
<1>4. \A b \in Branch \ unexplained' : Rest(old, b) = 0 /\ Rest(NoEdit, b) = 0
  BY <1>1, <1>2, NoEditTypes DEF Rest
<1>5. Grown(NoEdit) = 0 /\ Grown(old) \in Nat
  BY <1>2, NoEditTypes, NothingLeft, GrowthTypes
<1>6. BroughtIn(journal') + Grown(NoEdit) - receipts' <= BroughtIn(journal) + Grown(old) - receipts
  BY <1>1, <1>5, SameColumns
<1>7. unexplained \subseteq unexplained' /\ unexplained' \subseteq Branch
  BY <1>1, <1>3, MovementFacts
<1>8. EditStep(m, NoEdit)
  BY <1>1, <1>4, <1>6, <1>7, NoEditTypes, MovementFacts DEF EditStep, old
<1> QED BY NoEditTypes, <1>8, EditHolds

\* The edits of the shops commit.
LEMMA ApplyHolds ==
    ASSUME MovementInv, NEW m \in Manager, ApplyEdit(m)
    PROVE  MovementInv'
<1> DEFINE old == manager[m]
           form == old.form
           before == old.before
           after == [b \in Branch |-> IF b \in Named(form) THEN Target(form, b) ELSE 0]
           changed == SeemChanged(before, after)
           grown == \E b \in changed : after[b] > before[b]
           e == IF changed = {} THEN NoEdit
                ELSE [old EXCEPT !.step = IF grown THEN "receipt" ELSE "rows",
                                 !.after = after, !.left = changed]
<1>1. /\ old.step = "read" /\ \A b \in Named(form) : after[b] \in Amounts
      /\ onHand' = [b \in Branch |-> IF b \in Named(form) THEN after[b] ELSE onHand[b]]
      /\ manager' = [manager EXCEPT ![m] = e]
      /\ unexplained' = unexplained
             \cup {b \in Named(form) : onHand[b] # before[b]}
             \cup {b \in Branch \ Named(form) : before[b] # 0}
      /\ onRoad' = onRoad /\ journal' = journal /\ receipts' = receipts
  BY DEF ApplyEdit
<1>2. old \in Edits /\ old.left = {} /\ form \in Forms
  BY <1>1, MovementFacts DEF MovementInv, EditsHold, Edits
<1>3. Named(form) \subseteq Branch
  BY <1>2 DEF Forms, Named
<1>4. /\ before \in [Branch -> Amounts]
      /\ \A b \in Branch \ Named(form) : after[b] = 0
      /\ after \in [Branch -> Amounts]
  <2>1. before \in [Branch -> Amounts]
    BY <1>2, EditTypes
  <2>2. \A b \in Branch \ Named(form) : after[b] = 0
    OBVIOUS
  <2>3. \A b \in Branch : after[b] \in Amounts
    BY <1>1, <2>2, AmountFacts
  <2>4. after = [b \in Branch |-> after[b]]
    OBVIOUS
  <2> HIDE DEF after
  <2>5. after \in [Branch -> Amounts]
    BY <2>3, <2>4
  <2> QED BY <2>1, <2>2, <2>5
<1> HIDE DEF after
<1>5. \A b : b \in changed <=> b \in Branch /\ before[b] # after[b]
  BY DEF SeemChanged
<1> HIDE DEF changed
<1>6. /\ e \in Edits /\ (e.step \in {"idle", "read"} => e.left = {})
      /\ e.left = changed /\ (changed # {} => e.before = before /\ e.after = after)
      /\ e.step = "rows" => ~grown
  <2> DEFINE step == IF grown THEN "receipt" ELSE "rows"
  <2>1. step \in {"receipt", "rows"} /\ (step = "rows" => ~grown)
    OBVIOUS
  <2>2. changed \subseteq Branch
    BY <1>5
  <2> HIDE DEF step
  <2>3. CASE changed = {}
    BY <2>3, NoEditTypes
  <2>4. CASE changed # {}
    <3> DEFINE new == [old EXCEPT !.step = step, !.after = after, !.left = changed]
    <3>1. /\ new \in Edits /\ new.step = step /\ new.left = changed
          /\ new.before = before /\ new.after = after
      BY <1>2, <1>4, <2>1, <2>2 DEF Edits
    <3>2. e = new
      BY <2>4 DEF step
    <3> HIDE DEF e, new
    <3> QED BY <2>1, <3>1, <3>2
  <2> QED BY <2>3, <2>4
<1> HIDE DEF e, form, before
<1>7. onHand' \in [Branch -> Amounts]
  <2>1. \A b \in Branch : onHand[b] \in Amounts
    BY MovementFacts
  <2> QED BY <1>1, <2>1
<1>8. unexplained \subseteq unexplained' /\ unexplained' \subseteq Branch
  BY <1>1, <1>3, MovementFacts
<1>9. ASSUME NEW b \in Branch \ unexplained'
      PROVE  onHand'[b] - Moved(journal', b) - Rest(e, b) = onHand[b] - Moved(journal, b) - Rest(old, b)
  <2> DEFINE M == Moved(journal, b)
             h == onHand[b]
             a == after[b]
  <2>1. /\ Moved(journal', b) = M /\ M \in Int /\ h \in Int
        /\ a \in Int /\ before[b] \in Int
    <3>1. b \in Branch /\ journal' = journal
      BY <1>1
    <3>2. M \in Int /\ h \in Int
      BY <3>1, SameColumns
    <3>3. \A x \in Amounts : x \in Int
      BY AmountFacts
    <3>4. after \in [Branch -> Amounts] /\ before \in [Branch -> Amounts]
      BY <1>4
    <3>5. after[b] \in Int /\ before[b] \in Int
      BY <3>1, <3>3, <3>4
    <3> HIDE DEF h
    <3> QED BY <3>1, <3>2, <3>5 DEF M
  <2>2. Rest(old, b) = 0
    BY <1>2 DEF Rest
  <2>3. Rest(e, b) = a - before[b]
    <3>1. CASE b \in changed
      BY <1>6, <3>1 DEF Rest
    <3>2. CASE b \notin changed
      BY <1>5, <1>6, <2>1, <3>2 DEF Rest
    <3> QED BY <3>1, <3>2
  <2>4. CASE b \in Named(form)
    <3>1. onHand'[b] = a /\ before[b] = h
      BY <1>1, <2>4
    <3> HIDE DEF M, h, a
    <3>2. a - M - (a - h) = h - M - 0
      BY <2>1
    <3> QED BY <2>1, <2>2, <2>3, <3>1, <3>2 DEF M, h
  <2>5. CASE b \notin Named(form)
    <3>1. onHand'[b] = h /\ before[b] = 0 /\ a = 0
      BY <1>1, <1>4, <2>5
    <3> HIDE DEF M, h, a
    <3>2. h - M - (0 - 0) = h - M - 0
      BY <2>1
    <3> QED BY <2>1, <2>2, <2>3, <3>1, <3>2 DEF M, h
  <2> QED BY <2>4, <2>5
<1>10. Grown(e) = 0 /\ Grown(old) = 0
  <2>1. Grown(old) = 0
    BY <1>2, NothingLeft
  <2>2. CASE e.step # "rows"
    BY <1>6, <2>1, <2>2, NothingLeft
  <2>3. CASE e.step = "rows"
    <3>1. \A b \in Branch : Growth(e)[b] = 0
      <4> SUFFICES ASSUME NEW b \in Branch PROVE Growth(e)[b] = 0
        OBVIOUS
      <4>1. CASE b \in changed
        <5>1. ~(e.after[b] > e.before[b])
          BY <1>6, <2>3, <4>1
        <5> QED BY <5>1 DEF Growth
      <4>2. CASE b \notin changed
        BY <1>6, <4>2 DEF Growth
      <4> QED BY <4>1, <4>2
    <3>2. SumOver(Growth(e), Branch) = 0
      BY <3>1, SumZeroRows, SumEmpty
    <3> QED BY <2>1, <3>2 DEF Grown
  <2> QED BY <2>2, <2>3
<1>11. BroughtIn(journal') + Grown(e) - receipts' <= BroughtIn(journal) + Grown(old) - receipts
  BY <1>1, <1>10, SameColumns
<1>12. EditStep(m, e)
  BY <1>1, <1>6, <1>7, <1>8, <1>9, <1>11, MovementFacts DEF EditStep, old
<1> QED BY <1>6, <1>12, EditHolds

\* Every step of the movements.
LEMMA MovementHolds == MovementInv /\ [MovementNext]_movementVars => MovementInv'
<1> SUFFICES ASSUME MovementInv, [MovementNext]_movementVars PROVE MovementInv'
  OBVIOUS
<1>1. CASE UNCHANGED movementVars
  <2>1. /\ onHand' = onHand /\ onRoad' = onRoad /\ journal' = journal
        /\ receipts' = receipts /\ manager' = manager /\ unexplained' = unexplained
    BY <1>1 DEF movementVars, movementHistory
  <2>2. MovementTypeOK' /\ EditsHold'
    BY <2>1 DEF MovementInv, MovementTypeOK, EditsHold
  <2>3. StockExplained'
    BY <2>1, StockExplainedNext DEF MovementInv, StockExplained
  <2>4. ReceiptsCover'
    BY <2>1, ReceiptsCoverNext DEF MovementInv, ReceiptsCover
  <2> QED BY <2>1, <2>2, <2>3, <2>4 DEF MovementInv
<1>2. ASSUME NEW b \in Branch,
             SellOne(b) \/ ReceiveOne(b) \/ \E to \in Branch : SendOne(b, to)
      PROVE  MovementInv'
  <2>1. CASE SellOne(b)
    <3>1. onRoad' \in [Branch -> Nat] /\ Move(b, "SALE", -1)
      BY <2>1, MovementFacts DEF SellOne
    <3> QED BY <3>1, MoveHolds
  <2>2. CASE ReceiveOne(b)
    <3>1. /\ Move(b, "TRANSFER", 1) /\ onRoad[b] > 0
          /\ onRoad' = [onRoad EXCEPT ![b] = onRoad[b] - 1]
      BY <2>2 DEF ReceiveOne
    <3>2. onRoad[b] \in Nat /\ onRoad \in [Branch -> Nat]
      BY MovementFacts
    <3>3. onRoad[b] - 1 \in Nat
      BY <3>1, <3>2
    <3>4. onRoad' \in [Branch -> Nat]
      BY <3>1, <3>2, <3>3
    <3> QED BY <3>1, <3>4, MoveHolds
  <2>3. CASE \E to \in Branch : SendOne(b, to)
    <3> PICK to \in Branch : SendOne(b, to)
      BY <2>3
    <3>1. Move(b, "TRANSFER", -1) /\ onRoad' = [onRoad EXCEPT ![to] = onRoad[to] + 1]
      BY DEF SendOne
    <3>2. onRoad' \in [Branch -> Nat]
      BY <3>1, MovementFacts
    <3> QED BY <3>1, <3>2, MoveHolds
  <2> QED BY <1>2, <2>1, <2>2, <2>3
<1>3. ASSUME NEW m \in Manager,
             \/ \E form \in Forms : ReadStocks(m, form)
             \/ ApplyEdit(m) \/ RefuseEdit(m)
             \/ WriteReceipt(m) \/ LogFails(m)
             \/ \E b \in Branch : WriteMovement(m, b)
      PROVE  MovementInv'
  BY <1>3, ReadHolds, ApplyHolds, StopHolds, ReceiptHolds, WriteHolds
<1> QED BY <1>1, <1>2, <1>3 DEF MovementNext

\* What the page shows is made of these columns.
LEMMA JournalTells == MovementInv => JournalExplainsStock
<1> SUFFICES ASSUME MovementInv PROVE JournalExplainsStock
  OBVIOUS
<1> DEFINE f == [n \in DOMAIN journal |-> Distance(journal[n])]
<1>1. f = Distances(journal)
  BY DEF Distances
<1>2. ASSUME NEW b \in Branch \ unexplained
      PROVE  onHand[b] = InitialUnits + Imported({b}) - Sold({b})
                 + Net(Shown(Visible(Branch, {b}), {"TRANSFER", "ADJUSTMENT"}))
                 + Unwritten(b)
  <2> DEFINE rows == Shown(Visible(Branch, {b}), {"TRANSFER", "ADJUSTMENT"})
             M == Imported({b}) - Sold({b}) + Net(rows)
  <2>1. Visible(Branch, {b}) = {b}
    BY DEF Visible
  <2>2. rows = Listed(journal, b) /\ Upward(rows) = Rising(journal, b)
    BY <2>1 DEF Shown, Listed, RowsOf, Upward, Rising
  <2>3. /\ Imported({b}) = SumOver(f, RowsOf(journal, {b}, {"PURCHASE"}))
        /\ Sold({b}) = SumOver(f, RowsOf(journal, {b}, {"SALE"}))
    BY DEF Imported, Sold, Volume, Shown, RowsOf
  <2>4. Net(rows) = SumOver(f, Rising(journal, b))
                      - SumOver(f, Listed(journal, b) \ Rising(journal, b))
    <3> HIDE DEF rows
    <3> QED BY <2>2 DEF Net, Volume
  <2> HIDE DEF f, rows
  <2>5. Moved(journal, b) = Imported({b}) - Sold({b}) + Net(rows)
    BY <1>1, <2>3, <2>4 DEF Moved
  <2>6. ToWrite(manager, b) = Unwritten(b)
    <3> DEFINE managers == {m \in Manager : b \in manager[m].left}
               ends == [m \in Manager |-> manager[m].after[b]]
               starts == [m \in Manager |-> manager[m].before[b]]
    <3>1. /\ managers \subseteq Manager
          /\ \A m \in Manager \ managers : Ends(manager, b)[m] = 0 /\ Starts(manager, b)[m] = 0
          /\ \A m \in managers : Ends(manager, b)[m] = ends[m] /\ Starts(manager, b)[m] = starts[m]
      BY DEF Ends, Starts
    <3>2. Unwritten(b) = SumOver(ends, managers) - SumOver(starts, managers)
      BY DEF Unwritten
    <3> HIDE DEF managers, ends, starts
    <3>3. /\ SumOver(Ends(manager, b), Manager) = SumOver(Ends(manager, b), managers)
          /\ SumOver(Starts(manager, b), Manager) = SumOver(Starts(manager, b), managers)
      BY <3>1, SumZeroRows
    <3>4. /\ SumOver(Ends(manager, b), managers) = SumOver(ends, managers)
          /\ SumOver(Starts(manager, b), managers) = SumOver(starts, managers)
      BY <3>1, SumCongruence
    <3> QED BY <3>2, <3>3, <3>4 DEF ToWrite
  <2>7. onHand[b] = InitialUnits + Moved(journal, b) + ToWrite(manager, b)
    BY DEF MovementInv, StockExplained
  <2>8. /\ Imported({b}) \in Int /\ Sold({b}) \in Int /\ Net(rows) \in Int
        /\ ToWrite(manager, b) \in Int /\ InitialUnits \in Int
    <3>1. \A T : T \subseteq DOMAIN journal => SumOver(f, T) \in Nat
      <4> SUFFICES ASSUME NEW T, T \subseteq DOMAIN journal PROVE SumOver(f, T) \in Nat
        OBVIOUS
      <4>1. journal \in Seq(MovementRows)
        BY MovementFacts
      <4> DEFINE U == T \cup (IF FALSE THEN {Len(journal) + 1} ELSE {})
      <4>2. CASE journal = <<>>
        <5>1. T = {}
          BY <4>2
        <5> QED BY <5>1, SumEmpty
      <4>3. CASE journal # <<>>
        <5>1. 1 \in DOMAIN journal /\ journal[1] \in MovementRows
          BY <4>1, <4>3
        <5> QED BY <1>1, <4>1, <5>1, ColumnAppended
      <4> QED BY <4>2, <4>3
    <3>2. /\ RowsOf(journal, {b}, {"PURCHASE"}) \subseteq DOMAIN journal
          /\ RowsOf(journal, {b}, {"SALE"}) \subseteq DOMAIN journal
          /\ Rising(journal, b) \subseteq DOMAIN journal
          /\ Listed(journal, b) \ Rising(journal, b) \subseteq DOMAIN journal
      BY DEF RowsOf, Rising, Listed
    <3>3. /\ SumOver(f, RowsOf(journal, {b}, {"PURCHASE"})) \in Nat
          /\ SumOver(f, RowsOf(journal, {b}, {"SALE"})) \in Nat
          /\ SumOver(f, Rising(journal, b)) \in Nat
          /\ SumOver(f, Listed(journal, b) \ Rising(journal, b)) \in Nat
      BY <3>1, <3>2
    <3>4. ToWrite(manager, b) \in Int /\ InitialUnits \in Int
      BY MovementFacts, ToWriteInt, AmountFacts
    <3> QED BY <2>3, <2>4, <3>3, <3>4
  <2> DEFINE I == Imported({b})
             S == Sold({b})
             N == Net(rows)
             U == Unwritten(b)
             h == onHand[b]
  <2>9. h = InitialUnits + (I - S + N) + U /\ I \in Int /\ S \in Int /\ N \in Int /\ U \in Int
        /\ InitialUnits \in Int
    BY <2>5, <2>6, <2>7, <2>8
  <2> HIDE DEF I, S, N, U, h
  <2>10. h = InitialUnits + I - S + N + U
    BY <2>9
  <2> QED BY <2>10 DEF I, S, N, U, h, rows
<1>3. Imported(Branch) <= receipts
  <2>1. Imported(Branch) = BroughtIn(journal)
    BY DEF Imported, Volume, Shown, BroughtIn, RowsOf, Distances
  <2>2. SumOver(GrownBy(manager), Manager) \in Nat
    <3>1. \A m \in Manager : GrownBy(manager)[m] \in Int
      BY MovementFacts, GrowthTypes DEF GrownBy
    <3> QED BY <3>1, MovementAssumption, SumType
  <2> QED BY <2>1, <2>2, SameColumns DEF MovementInv, ReceiptsCover
<1> QED BY <1>2, <1>3 DEF JournalExplainsStock

\* However sales, transfers and edits of a product cross, and wherever an edit
\* fails, the journal explains the stock of every shop that no edit has spoilt,
\* and no import is shown without a receipt.
THEOREM JournalExplains == MovementSpec => []JournalExplainsStock
<1>1. MovementInit => MovementInv
  BY MovementBegins
<1>2. MovementInv /\ [MovementNext]_movementVars => MovementInv'
  BY MovementHolds
<1>3. MovementInv => JournalExplainsStock
  BY JournalTells
<1> QED BY <1>1, <1>2, <1>3, PTL DEF MovementSpec

-----------------------------------------------------------------------------
(* The shops of an employee.  A row is checked when it is written, so a request
   that holds an older row may grant a shop late: the invariant says what rows and
   requests hold when no edit crossed them. *)
\* A row that keeps to the shops of a company.
KeepsTo(u, c) ==
    u.company = c /\ u.access \subseteq ShopsOf(c) /\ u.current \in ShopsOf(c) \cup {NoShop}

Busy(q) == q.step # "idle"

(* Unless a move crossed them, whatever requests and edits hold is about the
   company the employee is in. *)
OneCompany ==
    ~uprooted =>
        /\ KeepsTo(user, user.company)
        /\ \A r \in Request : Busy(request[r]) =>
               KeepsTo(request[r].of, user.company)
        /\ \A r \in Request : request[r].step = "allowed" =>
               request[r].to \in ShopsOf(user.company)
        /\ \A r \in Request : request[r].step = "resolved" =>
               request[r].shops \subseteq ShopsOf(user.company)
        /\ \A e \in Administrator : editing[e].step = "read" =>
               KeepsTo(editing[e].of, user.company)

(* What a request that no edit has crossed may rely on: the row it read has the
   role and the accesses of the employee, but for the shop that requests like
   this one grant. *)
RowHolds(u, row) ==
    /\ row.company = u.company /\ row.admin = u.admin
    /\ row.access # {} => u.access = row.access
    /\ row.access = {} /\ u.access = {} => Granted(u) = Granted(row)
    /\ row.access = {} /\ u.access # {} => u.access = Granted(row)

InPlace(u) == u.current \in (IF Available(u) = {} THEN {NoShop} ELSE Available(u))

Holds(u, q) ==
    /\ RowHolds(u, q.of)
    /\ q.step = "resolved" => q.shops = Available(q.of) /\ Granted(q.of) \subseteq u.access
    /\ q.step \in {"prepared", "allowed", "answered"} => InPlace(q.of)
    /\ q.step = "allowed" => \E s, t \in Available(q.of) : s # t
    /\ q.step = "answered" => q.shops = Available(q.of)

FreshHold ==
    \A r \in Request : Busy(request[r]) /\ request[r].fresh => Holds(user, request[r])

EmployeeInv == EmployeeTypeOK /\ OneCompany /\ FreshHold

LEMMA ShopFacts ==
    ASSUME NEW c
    PROVE  /\ OpenIn(c) \subseteq ShopsOf(c) /\ ShopsOf(c) \subseteq Shop
           /\ OpenIn(c) \subseteq open
           /\ OnlyShop(c) \subseteq OpenIn(c)
           /\ \A s, t \in OnlyShop(c) : s = t
           /\ OnlyShop(c) # {} => OnlyShop(c) = OpenIn(c)
           /\ NoShop \notin ShopsOf(c)
<1>1. OpenIn(c) \subseteq ShopsOf(c) /\ ShopsOf(c) \subseteq Shop /\ NoShop \notin ShopsOf(c)
  BY EmployeeAssumption DEF OpenIn, ShopsOf
<1>2. IsFiniteSet(OpenIn(c))
  BY <1>1, EmployeeAssumption, FS_Subset
<1>3. ASSUME Cardinality(OpenIn(c)) = 1 PROVE \A s, t \in OpenIn(c) : s = t
  <2>1. \E x : OpenIn(c) = {x}
    BY <1>2, <1>3, FS_Singleton
  <2> QED BY <2>1
<1> QED BY <1>1, <1>3 DEF OnlyShop, OpenIn

\* Whoever may choose has two shops to choose from.
LEMMA TwoShops ==
    ASSUME NEW shops \in SUBSET Shop, Cardinality(shops) > 1
    PROVE  \E s, t \in shops : s # t
<1> SUFFICES ASSUME \A s, t \in shops : s = t PROVE FALSE
  OBVIOUS
<1>1. shops = {} \/ \E x : shops = {x}
  OBVIOUS
<1>2. Cardinality(shops) \in {0, 1}
  BY <1>1, FS_EmptySet, FS_Singleton
<1> QED BY <1>2

\* The shops that are worked out for a row, and granted with them.
LEMMA RowFacts ==
    ASSUME NEW u \in Users, open \subseteq Shop
    PROVE  /\ Available(u) \subseteq open /\ Available(u) \in SUBSET Shop
           /\ Granted(u) \subseteq Shop
           /\ u.access # {} => Granted(u) = {} /\ Available(u) = u.access \cap open
           /\ u.access = {} => Granted(u) = IF ~u.admin /\ u.current \in open
                                            THEN {u.current} ELSE OnlyShop(u.company)
           /\ u.access = {} /\ ~u.admin => Available(u) = Granted(u)
           /\ u.access = {} /\ u.admin => Available(u) = OpenIn(u.company)
           /\ KeepsTo(u, u.company) => /\ Available(u) \subseteq ShopsOf(u.company)
                                       /\ Granted(u) \subseteq ShopsOf(u.company)
<1>1. /\ OpenIn(u.company) \subseteq ShopsOf(u.company) /\ ShopsOf(u.company) \subseteq Shop
      /\ OpenIn(u.company) \subseteq open /\ OnlyShop(u.company) \subseteq OpenIn(u.company)
      /\ NoShop \notin Shop
  BY ShopFacts, EmployeeAssumption
<1>2. u.access \subseteq Shop /\ u.admin \in BOOLEAN
  BY DEF Users
<1> QED BY <1>1, <1>2 DEF Available, Granted, KeepsTo

LEMMA EmployeeTypes ==
    ASSUME EmployeeTypeOK, NEW r \in Request
    PROVE  /\ user \in Users /\ open \subseteq Shop
           /\ request \in [Request -> Requests] /\ request[r] \in Requests
           /\ request[r].of \in Users /\ request[r].shops \in SUBSET Shop
           /\ request[r].fresh \in BOOLEAN
           /\ request[r].to \in Shop \cup {NoShop}
           /\ Resting \in Requests /\ Resting.step = "idle" /\ Aside \in Editings
           /\ Aside.step = "idle"
BY DEF EmployeeTypeOK, Requests, Resting, Editings, Aside

LEMMA EmployeeBegins == EmployeeInit => EmployeeInv
<1> SUFFICES ASSUME EmployeeInit PROVE EmployeeInv
  OBVIOUS
<1>1. user \in Users
  BY DEF EmployeeInit
<1>2. Resting \in Requests /\ Resting.step = "idle" /\ Aside \in Editings /\ Aside.step = "idle"
  BY <1>1 DEF Requests, Resting, Editings, Aside
<1>3. EmployeeTypeOK
  <2>1. user \in Users /\ open \subseteq Shop /\ uprooted \in BOOLEAN
    BY <1>1 DEF EmployeeInit
  <2>3. edits \in 0..MaxEdits
    BY EmployeeAssumption DEF EmployeeInit
  <2>2. request \in [Request -> Requests] /\ editing \in [Administrator -> Editings]
    BY <1>2 DEF EmployeeInit
  <2> QED BY <2>1, <2>2, <2>3 DEF EmployeeTypeOK
<1>4. /\ \A r \in Request : request[r].step = "idle"
      /\ \A e \in Administrator : editing[e].step = "idle"
  BY <1>2 DEF EmployeeInit
<1>5. OneCompany
  BY <1>4 DEF OneCompany, KeepsTo, Busy, EmployeeInit
<1>6. FreshHold
  BY <1>4 DEF FreshHold, Busy
<1> QED BY <1>3, <1>5, <1>6 DEF EmployeeInv

\* What the others hold after a step of r that the row of the employee survives.
LEMMA OthersHold ==
    ASSUME EmployeeInv, NEW r \in Request, NEW new \in Requests, StepTo(r, new)
    PROVE  /\ request' \in [Request -> Requests]
           /\ request'[r] = new
           /\ \A q \in Request : q # r =>
                  /\ request'[q].step = request[q].step /\ request'[q].of = request[q].of
                  /\ request'[q].to = request[q].to /\ request'[q].shops = request[q].shops
                  /\ Busy(request[q]) /\ request'[q].fresh =>
                         request[q].fresh /\ (request[r].fresh \/ user' = user)
<1>1. request \in [Request -> Requests] /\ \A q \in Request : request[q].fresh \in BOOLEAN
  BY EmployeeTypes DEF EmployeeInv
<1>2. /\ Stale \in [Request -> Requests]
      /\ \A q \in Request :
             /\ Stale[q].step = request[q].step /\ Stale[q].of = request[q].of
             /\ Stale[q].to = request[q].to /\ Stale[q].shops = request[q].shops
             /\ Busy(request[q]) => ~Stale[q].fresh
  BY <1>1 DEF Stale, Requests, Busy
<1>3. CASE ~request[r].fresh /\ user' # user
  <2>1. request' = [Stale EXCEPT ![r] = new]
    BY <1>3 DEF StepTo
  <2> QED BY <1>1, <1>2, <2>1
<1>4. CASE ~(~request[r].fresh /\ user' # user)
  <2>1. request' = [request EXCEPT ![r] = new]
    BY <1>4 DEF StepTo
  <2> QED BY <1>1, <1>4, <2>1
<1> QED BY <1>3, <1>4

\* A step of r that writes the row of the employee, or does not.
LEMMA StepKeeps ==
    ASSUME EmployeeInv, NEW r \in Request, NEW new \in Requests, StepTo(r, new),
           user' \in Users, UNCHANGED <<open, editing, edits, uprooted>>,
           user'.company = user.company,
           ~uprooted => KeepsTo(user', user.company),
           ~uprooted /\ Busy(new) => KeepsTo(new.of, user.company),
           ~uprooted /\ new.step = "allowed" => new.to \in ShopsOf(user.company),
           ~uprooted /\ new.step = "resolved" => new.shops \subseteq ShopsOf(user.company),
           \A q \in Request : request[r].fresh /\ Busy(request[q]) /\ request[q].fresh
               /\ RowHolds(user, request[q].of) => RowHolds(user', request[q].of),
           request[r].fresh => user.access \subseteq user'.access,
           Busy(new) /\ new.fresh => RowHolds(user', new.of),
           new.fresh /\ new.step = "resolved" =>
               new.shops = Available(new.of) /\ Granted(new.of) \subseteq user'.access,
           new.fresh /\ new.step \in {"prepared", "allowed", "answered"} => InPlace(new.of),
           new.fresh /\ new.step = "allowed" => \E s, t \in Available(new.of) : s # t,
           new.fresh /\ new.step = "answered" => new.shops = Available(new.of)
    PROVE  EmployeeInv'
<1>1. /\ request' \in [Request -> Requests] /\ request'[r] = new
      /\ \A q \in Request : q # r =>
             /\ request'[q].step = request[q].step /\ request'[q].of = request[q].of
             /\ request'[q].to = request[q].to /\ request'[q].shops = request[q].shops
             /\ Busy(request[q]) /\ request'[q].fresh =>
                    request[q].fresh /\ (request[r].fresh \/ user' = user)
  BY OthersHold
<1>2. EmployeeTypeOK'
  BY <1>1 DEF EmployeeInv, EmployeeTypeOK
<1>3. OneCompany'
  <2> SUFFICES ASSUME ~uprooted
               PROVE  /\ KeepsTo(user', user.company)
                      /\ \A q \in Request : Busy(request'[q]) => KeepsTo(request'[q].of, user.company)
                      /\ \A q \in Request : request'[q].step = "allowed" =>
                             request'[q].to \in ShopsOf(user.company)
                      /\ \A q \in Request : request'[q].step = "resolved" =>
                             request'[q].shops \subseteq ShopsOf(user.company)
                      /\ \A e \in Administrator : editing[e].step = "read" =>
                             KeepsTo(editing[e].of, user.company)
    BY DEF OneCompany, KeepsTo, Busy, ShopsOf
  <2>1. OneCompany
    BY DEF EmployeeInv
  <2> QED BY <1>1, <2>1 DEF OneCompany, Busy
<1>4. FreshHold'
  <2>0. open' = open
    OBVIOUS
  <2> SUFFICES ASSUME NEW q \in Request, (Busy(request[q]) /\ request[q].fresh)'
               PROVE  Holds(user, request[q])'
    BY DEF FreshHold, Holds, RowHolds, InPlace, Available, Granted, OnlyShop, OpenIn, Busy
  <2> SUFFICES /\ RowHolds(user', request'[q].of)
               /\ request'[q].step = "resolved" =>
                      /\ request'[q].shops = Available(request'[q].of)
                      /\ Granted(request'[q].of) \subseteq user'.access
               /\ request'[q].step \in {"prepared", "allowed", "answered"} =>
                      InPlace(request'[q].of)
               /\ request'[q].step = "allowed" =>
                      \E s, t \in Available(request'[q].of) : s # t
               /\ request'[q].step = "answered" =>
                      request'[q].shops = Available(request'[q].of)
    <3>1. /\ Available(request[q].of)' = Available(request'[q].of)
          /\ Granted(request[q].of)' = Granted(request'[q].of)
          /\ Granted(user)' = Granted(user')
      BY <2>0 DEF Available, Granted, OnlyShop, OpenIn
    <3>2. RowHolds(user, request[q].of)' <=> RowHolds(user', request'[q].of)
      BY <3>1 DEF RowHolds
    <3>3. InPlace(request[q].of)' <=> InPlace(request'[q].of)
      BY <3>1 DEF InPlace
    <3>4. (\E s, t \in Available(request[q].of) : s # t)'
              <=> \E s, t \in Available(request'[q].of) : s # t
      BY <3>1
    <3> QED BY <3>1, <3>2, <3>3, <3>4 DEF Holds
  <2>x. request'[q].step # "idle" /\ request'[q].fresh
    BY DEF Busy
  <2>1. CASE q = r
    BY <1>1, <2>1, <2>x DEF Busy
  <2>2. CASE q # r
    <3>1. /\ Busy(request[q]) /\ request[q].fresh /\ (request[r].fresh \/ user' = user)
          /\ request'[q].step = request[q].step /\ request'[q].of = request[q].of
          /\ request'[q].shops = request[q].shops
      BY <1>1, <2>2, <2>x DEF Busy
    <3>2. /\ RowHolds(user, request[q].of)
          /\ request[q].step = "resolved" =>
                 /\ request[q].shops = Available(request[q].of)
                 /\ Granted(request[q].of) \subseteq user.access
          /\ request[q].step \in {"prepared", "allowed", "answered"} => InPlace(request[q].of)
          /\ request[q].step = "allowed" => \E s, t \in Available(request[q].of) : s # t
          /\ request[q].step = "answered" => request[q].shops = Available(request[q].of)
      BY <3>1 DEF EmployeeInv, FreshHold, Holds
    <3>3. RowHolds(user', request[q].of) /\ user.access \subseteq user'.access
      BY <3>1, <3>2
    <3>4. RowHolds(user', request'[q].of)
      BY <3>1, <3>3 DEF RowHolds
    <3> QED BY <3>1, <3>2, <3>3, <3>4
  <2> QED BY <2>1, <2>2
<1> QED BY <1>2, <1>3, <1>4 DEF EmployeeInv

\* The steps of the others do not change what a request holds.
LEMMA RestKeeps == EmployeeInv /\ UNCHANGED <<user, open, request>> => FreshHold'
<1>1. ASSUME EmployeeInv, UNCHANGED <<user, open, request>> PROVE FreshHold'
  <2> SUFFICES ASSUME NEW q \in Request, (Busy(request[q]) /\ request[q].fresh)'
               PROVE  Holds(user, request[q])'
    BY DEF FreshHold, Holds, RowHolds, InPlace, Available, Granted, OnlyShop, OpenIn, Busy
  <2>1. open' = open /\ user' = user /\ request' = request
    BY <1>1
  <2>2. Holds(user, request[q])
    BY <1>1, <2>1 DEF EmployeeInv, FreshHold, Busy
  <2> QED BY <2>1, <2>2 DEF Holds, RowHolds, InPlace, Available, Granted, OnlyShop, OpenIn
<1> QED BY <1>1

\* A shop that is granted for a row keeps what the other requests rely on.
LEMMA GrantKeeps ==
    ASSUME NEW now \in Users, NEW u \in Users, NEW row \in Users, NEW then,
           open \subseteq Shop, RowHolds(now, u), RowHolds(now, row),
           then = [now EXCEPT !.access = @ \cup Granted(u)]
    PROVE  RowHolds(then, row)
<1>0. then.company = now.company /\ then.admin = now.admin /\ then.current = now.current
      /\ then.access = now.access \cup Granted(u)
  BY DEF Users
<1>1. CASE Granted(u) \subseteq now.access
  <2>1. then = now
    BY <1>1 DEF Users
  <2> QED BY <2>1
<1>2. CASE ~(Granted(u) \subseteq now.access)
  <2>1. u.access = {} /\ now.access = {}
    BY <1>2, RowFacts DEF RowHolds
  <2>2. row.access = {} /\ Granted(row) = Granted(u)
    BY <2>1 DEF RowHolds
  <2>3. then.access = Granted(row) /\ then.access # {}
    BY <1>0, <1>2, <2>1, <2>2
  <2> QED BY <1>0, <2>2, <2>3 DEF RowHolds
<1> QED BY <1>1, <1>2

LEMMA GrantTypes ==
    ASSUME open \subseteq Shop, NEW now \in Users, NEW u \in Users, NEW then,
           then = [now EXCEPT !.access = @ \cup Granted(u)]
    PROVE  /\ then \in Users /\ then.company = now.company /\ then.current = now.current
           /\ then.access = now.access \cup Granted(u)
<1>1. Granted(u) \subseteq Shop
  BY RowFacts
<1> QED BY <1>1 DEF Users

\* A request reads the row of its employee.
LEMMA ReadUserKeeps ==
    ASSUME EmployeeInv, NEW r \in Request, NEW to \in Shop \cup {NoShop}, ReadUser(r, to)
    PROVE  EmployeeInv'
<1> DEFINE new == [step |-> "read", of |-> user, shops |-> {}, to |-> to, fresh |-> TRUE]
<1>1. user \in Users /\ open \subseteq Shop /\ request \in [Request -> Requests]
  BY EmployeeTypes DEF EmployeeInv
<1>2. new \in Requests
  BY <1>1 DEF Requests
<1>3. user' = user /\ request' = [request EXCEPT ![r] = new]
      /\ UNCHANGED <<open, editing, edits, uprooted>>
  BY DEF ReadUser, SetRequest
<1>4. StepTo(r, new)
  BY <1>3 DEF StepTo
<1>5. RowHolds(user', new.of)
  BY <1>3 DEF RowHolds
<1>6. ~uprooted => KeepsTo(user', user.company) /\ KeepsTo(new.of, user.company)
  BY <1>3 DEF EmployeeInv, OneCompany
<1>7. new.step = "read"
  OBVIOUS
<1> HIDE DEF new
<1> QED BY <1>1, <1>2, <1>3, <1>4, <1>5, <1>6, <1>7, StepKeeps

\* The shops a request may work in are worked out.
LEMMA ResolveKeeps ==
    ASSUME EmployeeInv, NEW r \in Request, ResolveShops(r)
    PROVE  EmployeeInv'
<1> DEFINE u == request[r].of
           new == [request[r] EXCEPT !.step = "resolved", !.shops = Available(u)]
<1>1. user \in Users /\ open \subseteq Shop /\ request[r] \in Requests /\ u \in Users
  BY EmployeeTypes DEF EmployeeInv
<1>2. Busy(request[r])
  BY DEF ResolveShops, Busy
<1>3. /\ user' = [user EXCEPT !.access = @ \cup Granted(u)] /\ StepTo(r, new)
      /\ UNCHANGED <<open, editing, edits, uprooted>>
  BY DEF ResolveShops
<1>4. /\ user' \in Users /\ user'.company = user.company /\ user'.current = user.current
      /\ user'.access = user.access \cup Granted(u)
  BY <1>1, <1>3, GrantTypes
<1>5. Available(u) \in SUBSET Shop
  BY <1>1, RowFacts
<1>6. /\ new \in Requests /\ new.of = u /\ new.step = "resolved" /\ new.shops = Available(u)
      /\ new.fresh = request[r].fresh
  BY <1>1, <1>5 DEF Requests
<1>7. ASSUME ~uprooted
      PROVE  /\ KeepsTo(u, user.company) /\ KeepsTo(user', user.company)
             /\ Available(u) \subseteq ShopsOf(user.company)
  <2>1. KeepsTo(u, user.company) /\ KeepsTo(user, user.company)
    BY <1>2, <1>7 DEF EmployeeInv, OneCompany
  <2>2. /\ Granted(u) \subseteq ShopsOf(user.company)
        /\ Available(u) \subseteq ShopsOf(user.company)
    BY <1>1, <2>1, RowFacts DEF KeepsTo
  <2> QED BY <1>4, <2>1, <2>2 DEF KeepsTo
<1>8. request[r].fresh => RowHolds(user, u)
  BY <1>2 DEF EmployeeInv, FreshHold, Holds
<1>9. \A row \in Users : request[r].fresh /\ RowHolds(user, row) => RowHolds(user', row)
  BY <1>1, <1>3, <1>8, GrantKeeps
<1>10. \A q \in Request : request[q].of \in Users
  BY EmployeeTypes DEF EmployeeInv
<1> HIDE DEF u, new
<1> QED BY <1>1, <1>3, <1>4, <1>6, <1>7, <1>8, <1>9, <1>10, StepKeeps

\* Whoever is resolved and not overtaken is moved to a shop that his row allows.
LEMMA PrepareHolds ==
    ASSUME NEW now \in Users, NEW u \in Users, open \subseteq Shop, RowHolds(now, u),
           Granted(u) \subseteq now.access, NEW s \in CurrentShop(u, Available(u)),
           NEW then \in Users, then.company = now.company, then.admin = now.admin,
           then.access = now.access, then.current = s
    PROVE  /\ \A row \in Users : RowHolds(now, row) => RowHolds(then, row)
           /\ InPlace(then)
           /\ u.current = s => InPlace(u)
<1>0. s \in Shop \cup {NoShop} /\ NoShop \notin open /\ NoShop \notin Available(u)
  BY RowFacts, EmployeeAssumption DEF CurrentShop, Users
<1>1. /\ then \in Users /\ then.company = now.company /\ then.admin = now.admin
      /\ then.access = now.access /\ then.current = s
  OBVIOUS
<1>2. s \in (IF Available(u) = {} THEN {NoShop} ELSE Available(u))
  BY DEF CurrentShop
<1>3. u.current = s => InPlace(u)
  BY <1>2 DEF InPlace
<1>4. CASE now.access # {}
  <2>1. Available(then) = now.access \cap open
    BY <1>1, <1>4, RowFacts
  <2>2. CASE u.access # {}
    <3>1. now.access = u.access
      BY <2>2 DEF RowHolds
    <3>2. Available(then) = Available(u)
      BY <2>1, <2>2, <3>1, RowFacts
    <3> QED BY <1>1, <1>2, <1>3, <1>4, <3>2 DEF InPlace, RowHolds
  <2>3. CASE u.access = {}
    <3>1. now.access = Granted(u)
      BY <1>4, <2>3 DEF RowHolds
    <3>2. Granted(u) \subseteq open
      BY <2>3, RowFacts, ShopFacts DEF Granted
    <3>3. Available(u) = Granted(u)
      <4>1. CASE ~u.admin
        BY <2>3, <4>1, RowFacts
      <4>2. CASE u.admin
        BY <1>4, <2>3, <3>1, <4>2, RowFacts, ShopFacts
      <4> QED BY <4>1, <4>2
    <3>4. Available(then) = Available(u)
      BY <2>1, <3>1, <3>2, <3>3
    <3> QED BY <1>1, <1>2, <1>3, <1>4, <3>4 DEF InPlace, RowHolds
  <2> QED BY <2>2, <2>3
<1>5. CASE now.access = {}
  <2>1. u.access = {} /\ Granted(u) = {} /\ Granted(now) = {}
    BY <1>5 DEF RowHolds
  <2>2. now.company = u.company /\ now.admin = u.admin
    BY DEF RowHolds
  <2>3. OnlyShop(u.company) = {}
    BY <2>1, RowFacts
  <2>4. ~u.admin => s = NoShop
    BY <1>2, <2>1, RowFacts
  <2>5. Granted(then) = {}
    BY <1>0, <1>1, <1>5, <2>2, <2>3, <2>4, RowFacts
  <2>6. Available(then) = Available(u)
    <3>1. CASE u.admin
      BY <1>1, <1>5, <2>1, <2>2, <3>1, RowFacts
    <3>2. CASE ~u.admin
      BY <1>1, <1>5, <2>1, <2>2, <2>5, <3>2, RowFacts
    <3> QED BY <3>1, <3>2
  <2> QED BY <1>1, <1>2, <1>3, <1>5, <2>1, <2>5, <2>6 DEF InPlace, RowHolds
<1> QED BY <1>4, <1>5

\* A request writes its current shop if that has to change.
LEMMA PrepareKeeps ==
    ASSUME EmployeeInv, NEW r \in Request, Prepare(r)
    PROVE  EmployeeInv'
<1> DEFINE u == request[r].of
           switch == u.switch /\ Cardinality(request[r].shops) > 1
<1>1. PICK s \in CurrentShop(u, request[r].shops) :
          /\ user' = IF u.current = s /\ u.switch = switch THEN user
                     ELSE [user EXCEPT !.current = s, !.switch = switch]
          /\ StepTo(r, [request[r] EXCEPT !.step = "prepared",
                 !.of = IF u.current = s /\ u.switch = switch THEN u ELSE user'])
  BY DEF Prepare
<1> DEFINE new == [request[r] EXCEPT !.step = "prepared",
                      !.of = IF u.current = s /\ u.switch = switch THEN u ELSE user']
           switched == [user EXCEPT !.current = s, !.switch = switch]
<1>2. /\ user \in Users /\ open \subseteq Shop /\ request[r] \in Requests /\ u \in Users
      /\ request[r].shops \in SUBSET Shop
  BY EmployeeTypes DEF EmployeeInv
<1>3. Busy(request[r]) /\ request[r].step = "resolved" /\ UNCHANGED <<open, editing, edits, uprooted>>
  BY DEF Prepare, Busy
<1>4. s \in Shop \cup {NoShop} /\ switch \in BOOLEAN
  BY <1>1, <1>2 DEF CurrentShop, Users
<1>5. /\ switched \in Users /\ switched.company = user.company /\ switched.access = user.access
      /\ switched.current = s /\ switched.admin = user.admin
  BY <1>2, <1>4 DEF Users
<1>6. (user' = user /\ new.of = u /\ u.current = s) \/ (user' = switched /\ new.of = switched)
  BY <1>1, <1>2 DEF Requests
<1>7. user' \in Users /\ user'.company = user.company /\ user.access \subseteq user'.access
  BY <1>2, <1>5, <1>6
<1>8. new \in Requests /\ new.step = "prepared" /\ new.fresh = request[r].fresh
  BY <1>2, <1>7 DEF Requests
<1>9. ASSUME ~uprooted PROVE KeepsTo(user', user.company) /\ KeepsTo(new.of, user.company)
  <2>1. KeepsTo(u, user.company) /\ KeepsTo(user, user.company)
    BY <1>3, <1>9 DEF EmployeeInv, OneCompany
  <2>2. s \in ShopsOf(user.company) \cup {NoShop}
    <3>1. request[r].shops \subseteq ShopsOf(user.company)
      BY <1>3, <1>9 DEF EmployeeInv, OneCompany
    <3> QED BY <1>1, <2>1, <3>1 DEF CurrentShop, KeepsTo
  <2>3. KeepsTo(switched, user.company)
    BY <1>5, <2>1, <2>2 DEF KeepsTo
  <2> HIDE DEF switched, new, u
  <2> QED BY <1>6, <2>1, <2>3
<1>10. ASSUME request[r].fresh
       PROVE  /\ \A row \in Users : RowHolds(user, row) => RowHolds(user', row)
              /\ RowHolds(user', new.of) /\ InPlace(new.of)
  <2>1. RowHolds(user, u) /\ request[r].shops = Available(u) /\ Granted(u) \subseteq user.access
    BY <1>3, <1>10 DEF EmployeeInv, FreshHold, Holds
  <2>2. /\ \A row \in Users : RowHolds(user, row) => RowHolds(switched, row)
        /\ InPlace(switched) /\ (u.current = s => InPlace(u))
    <3>2. s \in CurrentShop(u, Available(u))
      BY <2>1
    <3> HIDE DEF switched, switch, u
    <3> QED BY <1>2, <1>4, <1>5, <2>1, <3>2, PrepareHolds
  <2>3. RowHolds(switched, switched)
    BY DEF RowHolds
  <2> HIDE DEF switched, new, switch, u
  <2>4. CASE user' = user /\ new.of = u /\ u.current = s
    BY <2>1, <2>2, <2>4
  <2>5. CASE user' = switched /\ new.of = switched
    BY <2>2, <2>3, <2>5
  <2> QED BY <1>6, <2>4, <2>5
<1>11. \A q \in Request : request[q].of \in Users
  BY EmployeeTypes DEF EmployeeInv
<1>12. StepTo(r, new)
  BY <1>1
<1> HIDE DEF u, switch, new, switched
<1> QED BY <1>3, <1>7, <1>8, <1>9, <1>10, <1>11, <1>12, StepKeeps

\* The shops are worked out again for the context.
LEMMA ServeKeeps ==
    ASSUME EmployeeInv, NEW r \in Request, Serve(r)
    PROVE  EmployeeInv'
<1> DEFINE u == request[r].of
           new == [request[r] EXCEPT !.step = "answered", !.shops = Available(u)]
<1>1. user \in Users /\ open \subseteq Shop /\ request[r] \in Requests /\ u \in Users
  BY EmployeeTypes DEF EmployeeInv
<1>2. Busy(request[r]) /\ request[r].step = "prepared"
  BY DEF Serve, Busy
<1>3. /\ user' = [user EXCEPT !.access = @ \cup Granted(u)] /\ StepTo(r, new)
      /\ UNCHANGED <<open, editing, edits, uprooted>>
  BY DEF Serve
<1>4. /\ user' \in Users /\ user'.company = user.company /\ user'.current = user.current
      /\ user'.access = user.access \cup Granted(u)
  BY <1>1, <1>3, GrantTypes
<1>5. Available(u) \in SUBSET Shop
  BY <1>1, RowFacts
<1>6. /\ new \in Requests /\ new.of = u /\ new.step = "answered" /\ new.shops = Available(u)
      /\ new.fresh = request[r].fresh
  BY <1>1, <1>5 DEF Requests
<1>7. ASSUME ~uprooted
      PROVE  KeepsTo(u, user.company) /\ KeepsTo(user', user.company)
  <2>1. KeepsTo(u, user.company) /\ KeepsTo(user, user.company)
    BY <1>2, <1>7 DEF EmployeeInv, OneCompany
  <2>2. Granted(u) \subseteq ShopsOf(user.company)
    BY <1>1, <2>1, RowFacts DEF KeepsTo
  <2> QED BY <1>4, <2>1, <2>2 DEF KeepsTo
<1>8. request[r].fresh => RowHolds(user, u) /\ InPlace(u)
  BY <1>2 DEF EmployeeInv, FreshHold, Holds
<1>9. \A row \in Users : request[r].fresh /\ RowHolds(user, row) => RowHolds(user', row)
  BY <1>1, <1>3, <1>8, GrantKeeps
<1>10. \A q \in Request : request[q].of \in Users
  BY EmployeeTypes DEF EmployeeInv
<1> HIDE DEF u, new
<1> QED BY <1>1, <1>3, <1>4, <1>6, <1>7, <1>8, <1>9, <1>10, StepKeeps

\* A request that comes to rest.
LEMMA RestingKeeps ==
    ASSUME EmployeeInv, NEW r \in Request, StepTo(r, Resting), user' \in Users,
           UNCHANGED <<open, editing, edits, uprooted>>,
           user'.company = user.company, ~uprooted => KeepsTo(user', user.company),
           request[r].fresh =>
               /\ user.access \subseteq user'.access
               /\ \A q \in Request : Busy(request[q]) /\ request[q].fresh
                      /\ RowHolds(user, request[q].of) => RowHolds(user', request[q].of)
    PROVE  EmployeeInv'
<1>1. Resting \in Requests /\ Resting.step = "idle"
  BY EmployeeTypes DEF EmployeeInv
<1>2. ~Busy(Resting)
  BY <1>1 DEF Busy
<1> QED BY <1>1, <1>2, StepKeeps

\* The shops are worked out again for a switch, which is allowed or not.
LEMMA AllowKeeps ==
    ASSUME EmployeeInv, NEW r \in Request, AllowShop(r)
    PROVE  EmployeeInv'
<1> DEFINE u == request[r].of
           s == request[r].to
           new == [request[r] EXCEPT !.step = "allowed"]
           may == /\ s \in OpenIn(u.company) \cap Available(u)
                  /\ u.switch /\ Cardinality(Available(u)) > 1
<1>1. /\ user \in Users /\ open \subseteq Shop /\ request[r] \in Requests /\ u \in Users
      /\ request[r].shops \in SUBSET Shop
  BY EmployeeTypes DEF EmployeeInv
<1>2. Busy(request[r]) /\ request[r].step = "prepared"
  BY DEF AllowShop, Busy
<1>3. /\ user' = [user EXCEPT !.access = @ \cup Granted(u)]
      /\ StepTo(r, IF may THEN new ELSE Resting)
      /\ UNCHANGED <<open, editing, edits, uprooted>>
  BY DEF AllowShop
<1>4. /\ user' \in Users /\ user'.company = user.company /\ user'.current = user.current
      /\ user'.access = user.access \cup Granted(u)
  BY <1>1, <1>3, GrantTypes
<1>6. /\ new \in Requests /\ new.of = u /\ new.step = "allowed" /\ new.to = s
      /\ new.fresh = request[r].fresh
  BY <1>1 DEF Requests
<1>7. ASSUME ~uprooted
      PROVE  KeepsTo(u, user.company) /\ KeepsTo(user', user.company)
  <2>1. KeepsTo(u, user.company) /\ KeepsTo(user, user.company)
    BY <1>2, <1>7 DEF EmployeeInv, OneCompany
  <2>2. Granted(u) \subseteq ShopsOf(user.company)
    BY <1>1, <2>1, RowFacts DEF KeepsTo
  <2> QED BY <1>4, <2>1, <2>2 DEF KeepsTo
<1>8. request[r].fresh => RowHolds(user, u) /\ InPlace(u)
  BY <1>2 DEF EmployeeInv, FreshHold, Holds
<1>9. \A row \in Users : request[r].fresh /\ RowHolds(user, row) => RowHolds(user', row)
  BY <1>1, <1>3, <1>8, GrantKeeps
<1>10. \A q \in Request : request[q].of \in Users
  BY EmployeeTypes DEF EmployeeInv
<1>11. CASE may
  <2>1. \E x, y \in Available(u) : x # y
    BY <1>1, <1>11, RowFacts, TwoShops
  <2>2. s \in ShopsOf(u.company)
    BY <1>11, ShopFacts
  <2>3. StepTo(r, new)
    BY <1>3, <1>11
  <2>4. ~uprooted => new.to \in ShopsOf(user.company)
    BY <1>6, <1>7, <2>2 DEF KeepsTo
  <2> HIDE DEF u, new, s, may
  <2> QED BY <1>1, <1>3, <1>4, <1>6, <1>7, <1>8, <1>9, <1>10, <2>1, <2>3, <2>4, StepKeeps
<1>12. CASE ~may
  <2>1. StepTo(r, Resting)
    BY <1>3, <1>12
  <2> HIDE DEF u, new, s, may
  <2> QED BY <1>3, <1>4, <1>7, <1>9, <1>10, <2>1, RestingKeeps
<1> QED BY <1>11, <1>12

\* Only an employee whose shops no grant decides has two to choose from.
LEMMA SwitchHolds ==
    ASSUME NEW now \in Users, NEW u \in Users, NEW row \in Users, open \subseteq Shop,
           RowHolds(now, u), RowHolds(now, row), \E s, t \in Available(u) : s # t,
           NEW to \in Shop \cup {NoShop}, NEW then, then = [now EXCEPT !.current = to]
    PROVE  RowHolds(then, row)
<1>1. /\ then \in Users /\ then.company = now.company /\ then.admin = now.admin
      /\ then.access = now.access
  BY DEF Users
<1>2. CASE now.access # {}
  BY <1>1, <1>2 DEF RowHolds
<1>3. CASE now.access = {}
  <2>1. u.access = {}
    BY <1>3 DEF RowHolds
  <2>2. u.admin
    <3> SUFFICES ASSUME ~u.admin PROVE FALSE
      OBVIOUS
    <3>1. Available(u) = IF u.current \in open THEN {u.current} ELSE OnlyShop(u.company)
      BY <2>1, RowFacts
    <3> QED BY <3>1, ShopFacts
  <2>3. now.admin
    BY <2>2 DEF RowHolds
  <2>4. Granted(then) = Granted(now)
    BY <1>1, <1>3, <2>3, RowFacts
  <2> QED BY <1>1, <1>3, <2>4 DEF RowHolds
<1> QED BY <1>2, <1>3

\* An allowed switch is written.
LEMMA SwitchKeeps ==
    ASSUME EmployeeInv, NEW r \in Request, SwitchShop(r)
    PROVE  EmployeeInv'
<1>1. /\ user \in Users /\ open \subseteq Shop /\ request[r] \in Requests
      /\ request[r].of \in Users /\ request[r].to \in Shop \cup {NoShop}
  BY EmployeeTypes DEF EmployeeInv
<1>2. Busy(request[r]) /\ request[r].step = "allowed"
  BY DEF SwitchShop, Busy
<1>3. /\ user' = [user EXCEPT !.current = request[r].to] /\ StepTo(r, Resting)
      /\ UNCHANGED <<open, editing, edits, uprooted>>
  BY DEF SwitchShop
<1>4. /\ user' \in Users /\ user'.company = user.company /\ user'.access = user.access
      /\ user'.current = request[r].to
  BY <1>1, <1>3 DEF Users
<1>5. ~uprooted => KeepsTo(user', user.company)
  BY <1>2, <1>4 DEF EmployeeInv, OneCompany, KeepsTo
<1>6. request[r].fresh => /\ RowHolds(user, request[r].of)
                          /\ \E s, t \in Available(request[r].of) : s # t
  BY <1>2 DEF EmployeeInv, FreshHold, Holds
<1>7. \A row \in Users : request[r].fresh /\ RowHolds(user, row) => RowHolds(user', row)
  BY <1>1, <1>3, <1>6, SwitchHolds
<1>8. \A q \in Request : request[q].of \in Users
  BY EmployeeTypes DEF EmployeeInv
<1> QED BY <1>3, <1>4, <1>5, <1>7, <1>8, RestingKeeps

\* A request is over.
LEMMA EndKeeps ==
    ASSUME EmployeeInv, NEW r \in Request, EndRequest(r)
    PROVE  EmployeeInv'
<1>1. user' = user /\ StepTo(r, Resting) /\ UNCHANGED <<open, editing, edits, uprooted>>
  BY DEF EndRequest, StepTo, SetRequest
<1>2. user \in Users /\ (~uprooted => KeepsTo(user, user.company))
  BY EmployeeTypes DEF EmployeeInv, OneCompany, EmployeeTypeOK
<1> QED BY <1>1, <1>2, RestingKeeps

\* An edit reads the row.
LEMMA ReadForEditKeeps ==
    ASSUME EmployeeInv, NEW e \in Administrator, ReadForEdit(e)
    PROVE  EmployeeInv'
<1>1. /\ editing' = [editing EXCEPT ![e] = [step |-> "read", of |-> user]]
      /\ edits < MaxEdits /\ edits' = edits + 1 /\ UNCHANGED <<user, open, request, uprooted>>
  BY DEF ReadForEdit
<1>2. /\ user \in Users /\ open \subseteq Shop /\ request \in [Request -> Requests]
      /\ editing \in [Administrator -> Editings] /\ edits \in 0..MaxEdits /\ uprooted \in BOOLEAN
  BY DEF EmployeeInv, EmployeeTypeOK
<1>3. EmployeeTypeOK'
  <2>1. edits' \in 0..MaxEdits
    BY <1>1, <1>2, EmployeeAssumption
  <2>2. editing' \in [Administrator -> Editings]
    BY <1>1, <1>2 DEF Editings
  <2> QED BY <1>1, <1>2, <2>1, <2>2 DEF EmployeeTypeOK
<1>4. OneCompany'
  <2> SUFFICES ASSUME ~uprooted
               PROVE  \A a \in Administrator : editing'[a].step = "read" =>
                          KeepsTo(editing'[a].of, user.company)
    BY <1>1 DEF EmployeeInv, OneCompany, KeepsTo, Busy
  <2>1. KeepsTo(user, user.company) /\ \A a \in Administrator : editing[a].step = "read" =>
            KeepsTo(editing[a].of, user.company)
    BY DEF EmployeeInv, OneCompany
  <2> QED BY <1>1, <1>2, <2>1
<1>5. FreshHold'
  BY <1>1, RestKeeps
<1> QED BY <1>3, <1>4, <1>5 DEF EmployeeInv

\* Once an edit has crossed them, nothing is relied on.
LEMMA StaleKeeps ==
    ASSUME EmployeeInv, request' = Stale
    PROVE  /\ request' \in [Request -> Requests]
           /\ \A r \in Request : /\ request'[r].step = request[r].step
                                 /\ request'[r].of = request[r].of
                                 /\ request'[r].to = request[r].to
                                 /\ request'[r].shops = request[r].shops
           /\ FreshHold'
<1>1. request \in [Request -> Requests]
  BY DEF EmployeeInv, EmployeeTypeOK
<1>2. /\ request' \in [Request -> Requests]
      /\ \A r \in Request : /\ request'[r].step = request[r].step
                            /\ request'[r].of = request[r].of
                            /\ request'[r].to = request[r].to
                            /\ request'[r].shops = request[r].shops
                            /\ request'[r].fresh = (request[r].step = "idle")
  BY <1>1 DEF Stale, Requests
<1>3. \A r \in Request : ~(request'[r].step # "idle" /\ request'[r].fresh)
  BY <1>2
<1>4. FreshHold'
  BY <1>3 DEF FreshHold, Busy
<1> QED BY <1>2, <1>4

\* A shop opens or closes.
LEMMA SetShopKeeps ==
    ASSUME EmployeeInv, NEW s \in Shop, SetShopActive(s)
    PROVE  EmployeeInv'
<1>1. /\ edits < MaxEdits /\ edits' = edits + 1 /\ request' = Stale
      /\ open' = IF s \in open THEN open \ {s} ELSE open \cup {s}
      /\ UNCHANGED <<user, editing, uprooted>>
  BY DEF SetShopActive
<1>2. /\ user \in Users /\ open \subseteq Shop
      /\ editing \in [Administrator -> Editings] /\ edits \in 0..MaxEdits /\ uprooted \in BOOLEAN
  BY DEF EmployeeInv, EmployeeTypeOK
<1>3. EmployeeTypeOK'
  <2>1. edits' \in 0..MaxEdits
    BY <1>1, <1>2, EmployeeAssumption
  <2>2. open' \subseteq Shop
    BY <1>1, <1>2
  <2> QED BY <1>1, <1>2, <2>1, <2>2, StaleKeeps DEF EmployeeTypeOK
<1>4. OneCompany'
  BY <1>1, StaleKeeps DEF EmployeeInv, OneCompany, KeepsTo, Busy
<1> QED BY <1>1, <1>3, <1>4, StaleKeeps DEF EmployeeInv

LEMMA BodyTypes ==
    ASSUME NEW b \in Bodies
    PROVE  /\ b.company \in Company \cup {NoChange} /\ b.role \in BOOLEAN \cup {NoChange}
           /\ b.allowed \in {NoChange} \cup SUBSET Shop
           /\ b.current \in Shop \cup {NoShop, NoChange}
           /\ b.switch \in BOOLEAN \cup {NoChange}
BY DEF Bodies, NothingGiven

\* An edit writes the row from what it had read.
LEMMA WriteKeeps ==
    ASSUME EmployeeInv, NEW e \in Administrator, NEW b \in Bodies, WriteEdit(e, b)
    PROVE  EmployeeInv'
<1> DEFINE u == editing[e].of
           allowed == AllowedShops(u, b)
           to == NewCompany(u, b)
<1>1. PICK s \in CurrentShopWritten(u, b), admin \in RoleWritten(u, b) :
          user' = [company |-> to, admin |-> admin,
                   access |-> IF ShopsWritten(u, b) THEN allowed ELSE user.access,
                   current |-> s,
                   switch |-> OrElse(b.switch, u.switch) /\ Cardinality(allowed) > 1]
  BY DEF WriteEdit
<1>2. /\ editing[e].step = "read" /\ Valid(u, b) /\ request' = Stale
      /\ editing' = [editing EXCEPT ![e] = Aside]
      /\ uprooted' = (uprooted \/ (user'.company # user.company /\ Others(e)))
      /\ UNCHANGED <<open, edits>>
  BY DEF WriteEdit
<1>3. /\ user \in Users /\ open \subseteq Shop /\ request \in [Request -> Requests]
      /\ editing \in [Administrator -> Editings] /\ edits \in 0..MaxEdits /\ uprooted \in BOOLEAN
  BY DEF EmployeeInv, EmployeeTypeOK
<1>4. u \in Users
  BY <1>3 DEF Editings
<1>5. /\ u.company \in Company /\ u.access \subseteq Shop /\ u.current \in Shop \cup {NoShop}
      /\ u.admin \in BOOLEAN
  BY <1>4 DEF Users
<1>6. to \in Company
  BY <1>5, BodyTypes DEF NewCompany, OrElse
<1>7. /\ ShopsWritten(u, b) => allowed \subseteq OpenIn(to)
      /\ OpenIn(to) \subseteq ShopsOf(to) /\ ShopsOf(to) \subseteq Shop
  BY <1>2, ShopFacts DEF Valid
<1>8. ShopsWritten(u, b) => s \in allowed \cup {NoShop}
  BY <1>1, <1>2 DEF Valid, CurrentShopWritten
<1>9. ~ShopsWritten(u, b) => s = u.current /\ to = u.company
  BY <1>1 DEF CurrentShopWritten, ShopsWritten, ChangesCompany
<1>10. admin \in BOOLEAN
  <2>1. user.admin \in BOOLEAN
    BY <1>3 DEF Users
  <2> QED BY <1>1, <2>1, BodyTypes DEF RoleWritten
<1>11. /\ user'.company = to /\ user'.current = s
       /\ user'.access = IF ShopsWritten(u, b) THEN allowed ELSE user.access
  BY <1>1
<1>12. user' \in Users
  <2>1. (OrElse(b.switch, u.switch) /\ Cardinality(allowed) > 1) \in BOOLEAN
    OBVIOUS
  <2>2. (IF ShopsWritten(u, b) THEN allowed ELSE user.access) \in SUBSET Shop
    BY <1>3, <1>7 DEF Users
  <2>3. s \in Shop \cup {NoShop}
    BY <1>5, <1>7, <1>8, <1>9
  <2> DEFINE switch == OrElse(b.switch, u.switch) /\ Cardinality(allowed) > 1
             access == IF ShopsWritten(u, b) THEN allowed ELSE user.access
  <2>4. user' = [company |-> to, admin |-> admin, access |-> access, current |-> s,
                 switch |-> switch]
    BY <1>1
  <2>5. switch \in BOOLEAN /\ access \in SUBSET Shop
    BY <2>1, <2>2
  <2> HIDE DEF switch, access, to, u, allowed
  <2> QED BY <1>6, <1>10, <2>3, <2>4, <2>5 DEF Users
<1>13. /\ editing' \in [Administrator -> Editings]
       /\ \A a \in Administrator : editing'[a].step = "read" => a # e /\ editing'[a] = editing[a]
  <2>1. Aside \in Editings /\ Aside.step = "idle"
    BY <1>3 DEF Aside, Editings
  <2> QED BY <1>2, <1>3, <2>1
<1>14. EmployeeTypeOK'
  <2>1. uprooted' \in BOOLEAN
    BY <1>2, <1>3
  <2>2. edits' \in 0..MaxEdits /\ open' \subseteq Shop
    BY <1>2, <1>3
  <2> QED BY <1>2, <1>12, <1>13, <2>1, <2>2, StaleKeeps DEF EmployeeTypeOK
<1>15. OneCompany'
  <2> SUFFICES ASSUME ~uprooted'
               PROVE  /\ KeepsTo(user', to)
                      /\ \A r \in Request : Busy(request'[r]) => KeepsTo(request'[r].of, to)
                      /\ \A r \in Request : request'[r].step = "allowed" =>
                             request'[r].to \in ShopsOf(to)
                      /\ \A r \in Request : request'[r].step = "resolved" =>
                             request'[r].shops \subseteq ShopsOf(to)
                      /\ \A a \in Administrator : editing'[a].step = "read" =>
                             KeepsTo(editing'[a].of, to)
    BY <1>11 DEF OneCompany, KeepsTo, Busy, ShopsOf
  <2>1. ~uprooted /\ ~(to # user.company /\ Others(e))
    BY <1>2, <1>11
  <2>2. /\ KeepsTo(user, user.company) /\ KeepsTo(u, user.company)
        /\ \A r \in Request : Busy(request[r]) => KeepsTo(request[r].of, user.company)
        /\ \A r \in Request : request[r].step = "allowed" =>
               request[r].to \in ShopsOf(user.company)
        /\ \A r \in Request : request[r].step = "resolved" =>
               request[r].shops \subseteq ShopsOf(user.company)
        /\ \A a \in Administrator : editing[a].step = "read" =>
               KeepsTo(editing[a].of, user.company)
    BY <1>2, <2>1 DEF EmployeeInv, OneCompany
  <2>3. KeepsTo(user', to)
    <3>1. CASE ShopsWritten(u, b)
      BY <1>7, <1>8, <1>11, <3>1 DEF KeepsTo
    <3>2. CASE ~ShopsWritten(u, b)
      BY <1>9, <1>11, <2>2, <3>2 DEF KeepsTo
    <3> QED BY <3>1, <3>2
  <2>4. CASE to = user.company
    BY <1>13, <2>2, <2>3, <2>4, <1>2, StaleKeeps DEF Busy
  <2>5. CASE to # user.company
    <3>1. /\ \A r \in Request : request[r].step = "idle"
          /\ \A a \in Administrator : a # e => editing[a].step # "read"
      BY <2>1, <2>5 DEF Others
    <3> QED BY <1>2, <1>13, <2>3, <3>1, StaleKeeps DEF Busy
  <2> QED BY <2>4, <2>5
<1> QED BY <1>2, <1>14, <1>15, StaleKeeps DEF EmployeeInv

\* Every step of the requests and edits of an employee.
LEMMA EmployeeStep == EmployeeInv /\ [EmployeeNext]_employeeVars => EmployeeInv'
<1>1. ASSUME EmployeeInv, EmployeeNext PROVE EmployeeInv'
  BY <1>1, ReadUserKeeps, ResolveKeeps, PrepareKeeps, ServeKeeps, AllowKeeps, SwitchKeeps,
     EndKeeps, ReadForEditKeeps, WriteKeeps, SetShopKeeps DEF EmployeeNext
<1>2. ASSUME EmployeeInv, UNCHANGED employeeVars PROVE EmployeeInv'
  <2>1. FreshHold'
    BY <1>2, RestKeeps DEF employeeVars
  <2>2. EmployeeTypeOK' /\ OneCompany'
    BY <1>2 DEF employeeVars, EmployeeInv, EmployeeTypeOK, OneCompany, KeepsTo, Busy
  <2> QED BY <2>1, <2>2 DEF EmployeeInv
<1> QED BY <1>1, <1>2

\* What a request is served with follows from the invariant.
LEMMA EmployeeHolds == EmployeeInv => WorksInOwnShops
<1> SUFFICES ASSUME EmployeeInv PROVE WorksInOwnShops
  OBVIOUS
<1>1. ShopsOfOwnCompany
  BY DEF EmployeeInv, OneCompany, KeepsTo, ShopsOfOwnCompany
<1>2. ContextHoldsTogether
  <2> SUFFICES ASSUME NEW r \in Request, request[r].step = "answered", request[r].fresh
               PROVE  /\ request[r].shops \subseteq open
                      /\ request[r].of.current \in
                             (IF request[r].shops = {} THEN {NoShop} ELSE request[r].shops)
    BY DEF ContextHoldsTogether
  <2>1. request[r].of \in Users /\ open \subseteq Shop
    BY EmployeeTypes DEF EmployeeInv
  <2>2. request[r].shops = Available(request[r].of) /\ InPlace(request[r].of)
    BY DEF EmployeeInv, FreshHold, Holds, Busy
  <2> QED BY <2>1, <2>2, RowFacts DEF InPlace
<1> QED BY <1>1, <1>2 DEF WorksInOwnShops

\* However requests, edits of the row and switches of the shop cross, an employee
\* is given the shops of the company, and a request that no edit crossed works
\* in one of its own.
THEOREM OwnShops == EmployeeSpec => []WorksInOwnShops
<1> QED BY EmployeeBegins, EmployeeStep, EmployeeHolds, PTL DEF EmployeeSpec

-----------------------------------------------------------------------------
(* The documents together. *)
WarehouseInv ==
    /\ part \in {"count", "stocktaking", "invoice", "journal", "purchase", "employee"}
    /\ InventoryInv /\ StocktakingInv /\ InvoiceInv /\ MovementInv
    /\ PurchaseInv /\ EmployeeInv

LEMMA WarehouseBegins == WarehouseInit => WarehouseInv
BY InventoryBegins, StocktakingBegins, InvoiceBegins, MovementBegins, PurchaseBegins,
   EmployeeBegins DEF WarehouseInit, WarehouseInv

\* A step of one part is a step of its component, and the others stay.
LEMMA PartsStep ==
    [WarehouseNext]_warehouseVars =>
        /\ [InventoryNext]_inventoryVars /\ [StocktakingNext]_stocktakingVars
        /\ [InvoiceNext]_invoiceVars /\ [MovementNext]_movementVars
        /\ [PurchaseNext]_purchaseVars /\ [EmployeeNext]_employeeVars
        /\ part' = part
BY DEF WarehouseNext, warehouseVars, documentVars

LEMMA WarehouseKeeps == WarehouseInv /\ [WarehouseNext]_warehouseVars => WarehouseInv'
<1>1. PurchaseInv /\ [PurchaseNext]_purchaseVars => PurchaseInv'
  BY PurchaseTypesKept, PurchaseStatusKept DEF PurchaseInv
<1> QED BY <1>1, PartsStep, InventoryStep, StocktakingHolds, InvoiceStep, MovementHolds,
           EmployeeStep DEF WarehouseInv

LEMMA WarehouseTells ==
    WarehouseInv => /\ WarehouseTypeOK /\ CountsAreKept /\ PapersMatchStock
                    /\ StatusTellsReceipts /\ WorksInOwnShops
<1> SUFFICES ASSUME WarehouseInv
             PROVE  /\ WarehouseTypeOK /\ CountsAreKept /\ PapersMatchStock
                    /\ StatusTellsReceipts /\ WorksInOwnShops
  OBVIOUS
<1>1. /\ InventoryTypeOK /\ StocktakingTypeOK /\ InvoiceTypeOK /\ MovementTypeOK
      /\ PurchaseTypeOK /\ EmployeeTypeOK
  BY DEF WarehouseInv, InventoryInv, StocktakingInv, InvoiceInv, MovementInv, PurchaseInv,
         EmployeeInv
<1>2. ApprovedMatchesShelf /\ StatusTellsReceipts
  BY DEF WarehouseInv, InventoryInv, PurchaseInv
<1>3. CountShowsScans /\ ReceiptsFollowStatus /\ JournalExplainsStock /\ WorksInOwnShops
  BY CountTells, InvoiceHolds, JournalTells, EmployeeHolds DEF WarehouseInv
<1>4. part \in {"count", "stocktaking", "invoice", "journal", "purchase", "employee"}
  BY DEF WarehouseInv
<1> QED BY <1>1, <1>2, <1>3, <1>4 DEF WarehouseTypeOK, CountsAreKept, PapersMatchStock

LEMMA WarehouseAlways == WarehouseSpec => []WarehouseInv
BY WarehouseBegins, WarehouseKeeps, PTL DEF WarehouseSpec

\* The documents of the warehouse and the employee's requests keep their types.
THEOREM WarehouseTypes == WarehouseSpec => []WarehouseTypeOK
BY WarehouseAlways, WarehouseTells, PTL

\* What was counted, of a shop or of an import, is what the books and the screens
\* say, in the composition of the warehouse.
THEOREM CountsKept == WarehouseSpec => []CountsAreKept
BY WarehouseAlways, WarehouseTells, PTL

\* What came in is what the supplier invoice and the journal of movements say.
THEOREM PapersMatch == WarehouseSpec => []PapersMatchStock
BY WarehouseAlways, WarehouseTells, PTL

=============================================================================
