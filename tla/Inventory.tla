----------------------------- MODULE Inventory ------------------------------
(***************************************************************************)
(* Stock counts of one shop (WarehouseService).  A session snapshots the   *)
(* stock, its positions are counted while the shop keeps trading, and the  *)
(* approval applies to the stock the difference between each count and     *)
(* what was expected at that moment: the snapshot and the movements since. *)
(*                                                                         *)
(* start, count, approve are serializable transactions and cancel is one   *)
(* conditional update: one step each.  submit, requestRecount, approveItem,*)
(* addInventoryItem and markUncountedAsZero read first and write by id     *)
(* later: they are processes of the `staff`.  The optional version a       *)
(* client may send is left out (it only rejects more).                     *)
(*                                                                         *)
(* `shelf` is what really lies in the shop: a count finds it, a sale and a *)
(* receipt change it with the books.  History: a position is `based` when  *)
(* its snapshot fits the movements counted from snapshotAt and no other    *)
(* count has it, and `honest` when its last count found the shelf;         *)
(* `repaired` are the items whose last approval was of such a position,    *)
(* `overwritten` says a status was written over one that was not read.     *)
(***************************************************************************)
EXTENDS Integers, FiniteSets

CONSTANTS
    Count, Item, Staff,
    MaxStock         \* bound: units of one item, in the books or on the shelf

ASSUME InventoryAssumption ==
    /\ IsFiniteSet(Item) /\ Item # {}
    /\ Count # {}
    /\ MaxStock \in Nat

VARIABLES
    session,     \* InventorySession: status, type and scope
    position,    \* InventoryItem, per session and product variant
    moved,       \* sum of the StockMovement rows since the session's snapshotAt
    book, shelf, \* ProductVariantStock.quantity, and the goods themselves
    staff,       \* the requests between their read and their write
    repaired, overwritten

countRows == <<session, position, moved>>
goods == <<book, shelf>>
countHistory == <<repaired, overwritten>>
inventoryVars == <<countRows, goods, staff, countHistory>>

SessionStatus == {"DRAFT", "COUNTING", "REVIEW", "RECOUNT_REQUIRED",
                  "COMPLETED", "CANCELED"}
Active == {"COUNTING", "REVIEW", "RECOUNT_REQUIRED"}
Countable == {"COUNTING", "RECOUNT_REQUIRED"}

Stock == 0 .. MaxStock
Differences == -(2 * MaxStock) .. (2 * MaxStock)

Positions == [state : {"none", "open", "counted", "recount", "approved"},
              snapshot : Stock, delta : Differences, counted : BOOLEAN,
              based : BOOLEAN, honest : BOOLEAN]
NoPosition == [state |-> "none", snapshot |-> 0, delta |-> 0, counted |-> FALSE,
               based |-> TRUE, honest |-> TRUE]

StaffSteps == {"idle", "submit", "recount", "approveItem", "add", "zero"}
StaffRequests == [step : StaffSteps, count : Count, item : Item,
                  seen : SessionStatus, snapshot : Stock, based : BOOLEAN,
                  left : SUBSET Item]     \* positions markUncountedAsZero has read
Free == [step |-> "idle", count |-> CHOOSE c \in Count : TRUE,
         item |-> CHOOSE i \in Item : TRUE, seen |-> "DRAFT", snapshot |-> 0,
         based |-> TRUE, left |-> {}]

InventoryInit ==
    /\ session = [c \in Count |-> [status |-> "DRAFT", full |-> TRUE, scope |-> Item]]
    /\ position = [c \in Count |-> [i \in Item |-> NoPosition]]
    /\ moved = [c \in Count |-> [i \in Item |-> 0]]
    /\ book \in [Item -> Stock] /\ shelf \in [Item -> Stock]
    /\ staff = [r \in Staff |-> Free]
    /\ repaired = {} /\ overwritten = FALSE

-----------------------------------------------------------------------------
\* Trade: a sale or a receipt moves the books, the goods and leaves a movement.
Trade(i, n) ==
    /\ book[i] + n \in Stock /\ shelf[i] + n \in Stock
    /\ book' = [book EXCEPT ![i] = @ + n]
    /\ shelf' = [shelf EXCEPT ![i] = @ + n]
    /\ moved' = [c \in Count |-> IF session[c].status = "DRAFT" THEN moved[c]
                                 ELSE [moved[c] EXCEPT ![i] = @ + n]]
    /\ UNCHANGED <<session, position, staff, countHistory>>

\* updateInventorySession: type and scope of a draft.
EditDraft(c, full, scope) ==
    /\ session[c].status = "DRAFT"
    /\ session' = [session EXCEPT ![c].full = full,
                                  ![c].scope = IF full THEN Item ELSE scope]
    /\ UNCHANGED <<position, moved, goods, staff, countHistory>>

Overlaps(c, d) ==
    /\ session[d].status \in Active
    /\ \/ session[c].full \/ session[d].full
       \/ \E i \in session[c].scope : position[d][i].state # "none"

\* startInventory: a full count takes the items in stock, a partial one its scope.
Start(c) ==
    LET rows == {i \in session[c].scope : book[i] > 0 \/ ~session[c].full}
    IN  /\ session[c].status = "DRAFT"
        /\ ~\E d \in Count : Overlaps(c, d)
        /\ session' = [session EXCEPT ![c].status = "COUNTING"]
        /\ position' = [position EXCEPT ![c] = [i \in Item |->
                IF i \in rows THEN [NoPosition EXCEPT !.state = "open", !.snapshot = book[i]]
                              ELSE NoPosition]]
        /\ UNCHANGED <<moved, goods, staff, countHistory>>

\* The position after counting `found` units of i.
AfterCount(c, i, found) ==
    [position[c][i] EXCEPT !.state = "counted", !.counted = TRUE,
        !.delta = found - (position[c][i].snapshot + moved[c][i]),
        !.honest = found = shelf[i]]

Recorded(c, i, found) ==
    /\ session[c].status \in Countable
    /\ position[c][i].state # "none"
    /\ position' = [position EXCEPT ![c][i] = AfterCount(c, i, found)]

\* countInventoryItem, also after a scan: somebody counts the shelf.
CountItem(c, i) ==
    /\ Recorded(c, i, shelf[i])
    /\ UNCHANGED <<session, moved, goods, staff, countHistory>>

\* cancelInventory.
CancelCount(c) ==
    /\ session[c].status \in Active \cup {"DRAFT"}
    /\ session' = [session EXCEPT ![c].status = "CANCELED"]
    /\ UNCHANGED <<position, moved, goods, staff, countHistory>>

\* Mutant: the books may go below zero.
ApplicableBelowZero(delta) == \A i \in Item : book[i] + delta[i] <= MaxStock

Applicable(delta) == \A i \in Item : book[i] + delta[i] \in Stock

\* approveInventory: every difference is applied to the books.
ApproveCount(c) ==
    LET has == {i \in Item : position[c][i].state # "none"}
        delta == [i \in Item |-> IF i \in has THEN position[c][i].delta ELSE 0]
    IN  /\ session[c].status = "REVIEW"
        /\ has # {}
        /\ \A i \in has : /\ position[c][i].state \in {"counted", "approved"}
                           /\ position[c][i].counted
        /\ Applicable(delta)
        /\ book' = [i \in Item |-> book[i] + delta[i]]
        /\ moved' = [d \in Count |-> IF session[d].status = "DRAFT" THEN moved[d]
                        ELSE [i \in Item |-> moved[d][i] + delta[i]]]
        /\ session' = [session EXCEPT ![c].status = "COMPLETED"]
        /\ repaired' = (repaired \ has) \cup
                {i \in has : position[c][i].based /\ position[c][i].honest}
        /\ UNCHANGED <<position, shelf, staff, overwritten>>

-----------------------------------------------------------------------------
(* The requests that write what they read before. *)
Ask(r, new) ==
    /\ staff[r].step = "idle"
    /\ staff' = [staff EXCEPT ![r] = new]
    /\ UNCHANGED <<countRows, goods, countHistory>>

\* submitInventory: nothing left to count.
AskSubmit(r, c) ==
    /\ session[c].status \in Countable
    /\ \E i \in Item : position[c][i].state # "none"
    /\ \A i \in Item : position[c][i].state \in {"none", "counted", "approved"}
    /\ Ask(r, [Free EXCEPT !.step = "submit", !.count = c, !.seen = session[c].status])

\* requestRecount, approveItem: an item of a session in review.
AskItem(r, step, c, i) ==
    /\ step \in {"recount", "approveItem"}
    /\ session[c].status = "REVIEW"
    /\ position[c][i].state # "none"
    /\ Ask(r, [Free EXCEPT !.step = step, !.count = c, !.item = i, !.seen = "REVIEW"])

\* addInventoryItem: the stock as it is now, for movements counted from the start.
AskAdd(r, c, i) ==
    /\ session[c].status \in Countable
    /\ position[c][i].state = "none"
    /\ Ask(r, [Free EXCEPT !.step = "add", !.count = c, !.item = i,
                !.snapshot = book[i], !.based = moved[c][i] = 0])

\* markUncountedAsZero: the items that are not counted yet.
AskZero(r, c) ==
    LET open == {i \in Item : position[c][i].state = "open"}
    IN  /\ session[c].status = "COUNTING"
        /\ open # {}
        /\ Ask(r, [Free EXCEPT !.step = "zero", !.count = c, !.left = open])

StatusWritten(r, status) ==
    LET c == staff[r].count
    IN  /\ session' = [session EXCEPT ![c].status = status]
        /\ overwritten' = (overwritten \/ session[c].status \notin Active)

Submit(r) ==
    /\ staff[r].step = "submit"
    /\ StatusWritten(r, "REVIEW")
    /\ staff' = [staff EXCEPT ![r] = Free]
    /\ UNCHANGED <<position, moved, goods, repaired>>

RequestRecount(r) ==
    /\ staff[r].step = "recount"
    /\ StatusWritten(r, "RECOUNT_REQUIRED")
    /\ position' = [position EXCEPT ![staff[r].count][staff[r].item] =
            [@ EXCEPT !.state = "recount", !.counted = FALSE, !.delta = 0]]
    /\ staff' = [staff EXCEPT ![r] = Free]
    /\ UNCHANGED <<moved, goods, repaired>>

ApproveItem(r) ==
    /\ staff[r].step = "approveItem"
    /\ position' = [position EXCEPT ![staff[r].count][staff[r].item].state = "approved"]
    /\ staff' = [staff EXCEPT ![r] = Free]
    /\ UNCHANGED <<session, moved, goods, countHistory>>

\* Another count that holds the item is no longer alone with it either.
AddItem(r) ==
    LET c == staff[r].count
        i == staff[r].item
        others == {d \in Count \ {c} : session[d].status \in Active
                                        /\ position[d][i].state # "none"}
        row == [NoPosition EXCEPT !.state = "open", !.snapshot = staff[r].snapshot,
                    !.based = staff[r].based /\ moved[c][i] = 0 /\ others = {}]
    IN  /\ staff[r].step = "add"
        /\ staff' = [staff EXCEPT ![r] = Free]
        /\ position' = IF position[c][i].state # "none" THEN position
                       ELSE [d \in Count |->
                              IF d = c THEN [position[d] EXCEPT ![i] = row]
                              ELSE IF d \in others
                                   THEN [position[d] EXCEPT ![i].based = FALSE]
                                   ELSE position[d]]
        /\ UNCHANGED <<session, moved, goods, countHistory>>

\* One after the other is counted as 0, whatever was counted since; the first
\* failure (the session has moved on) ends the request.
CountAsZero(r) ==
    LET c == staff[r].count
    IN  /\ staff[r].step = "zero"
        /\ \E i \in staff[r].left :
            IF session[c].status \in Countable
            THEN /\ Recorded(c, i, 0)
                 /\ staff' = [staff EXCEPT ![r] =
                        IF staff[r].left = {i} THEN Free
                        ELSE [staff[r] EXCEPT !.left = staff[r].left \ {i}]]
            ELSE /\ staff' = [staff EXCEPT ![r] = Free]
                 /\ UNCHANGED position
        /\ UNCHANGED <<session, moved, goods, countHistory>>

InventoryNext ==
    \/ \E i \in Item, n \in {-1, 1} : Trade(i, n)
    \/ \E c \in Count :
        \/ \E full \in BOOLEAN, scope \in SUBSET Item : EditDraft(c, full, scope)
        \/ Start(c) \/ CancelCount(c) \/ ApproveCount(c)
        \/ \E i \in Item : CountItem(c, i)
        \/ \E r \in Staff :
            \/ AskSubmit(r, c) \/ AskZero(r, c)
            \/ \E i \in Item : AskAdd(r, c, i)
            \/ \E i \in Item, step \in {"recount", "approveItem"} : AskItem(r, step, c, i)
    \/ \E r \in Staff : Submit(r) \/ RequestRecount(r) \/ ApproveItem(r)
                         \/ AddItem(r) \/ CountAsZero(r)

InventorySpec == InventoryInit /\ [][InventoryNext]_inventoryVars

-----------------------------------------------------------------------------
InventoryTypeOK ==
    /\ session \in [Count -> [status : SessionStatus, full : BOOLEAN, scope : SUBSET Item]]
    /\ position \in [Count -> [Item -> Positions]]
    /\ moved \in [Count -> [Item -> -MaxStock .. MaxStock]]
    /\ book \in [Item -> Stock] /\ shelf \in [Item -> Stock]
    /\ staff \in [Staff -> StaffRequests]
    /\ repaired \in SUBSET Item /\ overwritten \in BOOLEAN

(* After an approval the books say what lies in the shop, however much was
   sold and received between the snapshot, the count and the approval, as long
   as the position was counted alone, from its snapshot on, and nobody wrote a
   status over an ended count (warehouse.service.ts:188, 214). *)
ApprovedMatchesShelf ==
    ~overwritten => \A i \in repaired : book[i] = shelf[i]

=============================================================================
