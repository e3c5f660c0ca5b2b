----------------------------- MODULE Transfers ------------------------------
(***************************************************************************)
(* Transfers of goods between two shops (ProductsService.createTransfer,   *)
(* upsertTransferItem, sendTransfer, acceptTransfer, acceptTransferVerified,*)
(* cancelTransfer).  Every handler reads the transfer with its lines first *)
(* and writes later: the sends, accepts and cancels in a serializable      *)
(* transaction that claims the status, the line edits without looking at   *)
(* the status again.  A request is therefore a process with two steps.     *)
(*                                                                         *)
(* A line has a place on the paper; quantity 0 is no line.  The lines of   *)
(* one item have the item's key, with its variant or without one (simple   *)
(* products); a key without a variant is not unique to the database, so    *)
(* two requests can give one simple product two lines, and all of them     *)
(* move its stock.  `sent`, `back` and `arrived` are the units the transfer *)
(* has taken from the departure shop, returned to it, and delivered, line  *)
(* by line; `editedLate` marks a transfer whose lines were written after   *)
(* somebody read them to send it.                                          *)
(***************************************************************************)
EXTENDS Totals

CONSTANTS
    Transfer, Item, Shop, Request,
    Place,           \* the places of lines (bound: lines a transfer can have)
    ItemOf,          \* the item of the line in each place
    Nameless,        \* the places of lines without a variant
    From, To,        \* departure and arrival shop of each transfer
    InitialStock,    \* stock of every item in every shop
    MaxQuantity      \* bound: quantity of a line

ASSUME TransferAssumption ==
    /\ From \in [Transfer -> Shop]
    /\ To \in [Transfer -> Shop]
    /\ \A t \in Transfer : From[t] # To[t]
    /\ Place # {} /\ Transfer # {} /\ IsFiniteSet(Place)
    /\ ItemOf \in [Place -> Item]
    /\ Nameless \subseteq Place
    /\ InitialStock \in Nat
    /\ MaxQuantity \in Nat

VARIABLES
    status,      \* Transfer.status, "NONE" before it is created
    lines,       \* TransferItem.quantity
    stock,       \* ProductVariantStock.quantity
    request,     \* the requests in flight
    sent, back, arrived, posted, reversed, editedLate

document == <<status, lines>>
history == <<sent, back, arrived, posted, reversed>>
vars == <<document, stock, request, history, editedLate>>

Quantities == 0 .. MaxQuantity
Lines == [Place -> Quantities]
NoLines == [w \in Place |-> 0]

Status == {"NONE", "DRAFT", "SENT", "ACCEPTED", "CANCELLED"}
Steps == {"idle", "upsert", "send", "accept", "cancel"}

RequestState == [step : Steps, transfer : Transfer, place : Place,
                 quantity : Quantities,
                 seen : Lines,          \* the lines as they were read
                 seenStatus : Status]   \* the status as it was read

Idle == [step |-> "idle", transfer |-> CHOOSE t \in Transfer : TRUE,
         place |-> CHOOSE w \in Place : TRUE, quantity |-> 0,
         seen |-> NoLines, seenStatus |-> "NONE"]

Init ==
    /\ status = [t \in Transfer |-> "NONE"]
    /\ lines = [t \in Transfer |-> NoLines]
    /\ stock = [i \in Item |-> [s \in Shop |-> InitialStock]]
    /\ request = [r \in Request |-> Idle]
    /\ sent = [t \in Transfer |-> NoLines]
    /\ back = [t \in Transfer |-> NoLines]
    /\ arrived = [t \in Transfer |-> NoLines]
    /\ posted = [t \in Transfer |-> 0]
    /\ reversed = [t \in Transfer |-> 0]
    /\ editedLate = [t \in Transfer |-> FALSE]

-----------------------------------------------------------------------------
Create(t) ==
    /\ status[t] = "NONE"
    /\ status' = [status EXCEPT ![t] = "DRAFT"]
    /\ UNCHANGED <<lines, stock, request, history, editedLate>>

\* findTransferOrThrow and the status check of a handler.
Read(r, t, step, statuses) ==
    /\ request[r].step = "idle"
    /\ status[t] \in statuses
    /\ request' = [request EXCEPT ![r] =
                     [Idle EXCEPT !.step = step, !.transfer = t,
                                  !.seen = lines[t], !.seenStatus = status[t]]]
    /\ UNCHANGED <<document, stock, history, editedLate>>

Done(r) == request' = [request EXCEPT ![r] = Idle]

\* The lines in two places name the same item, both with or both without a variant.
SameKey(w, x) == ItemOf[w] = ItemOf[x] /\ (w \in Nameless <=> x \in Nameless)

Unlisted(quantity, w) == \A x \in Place : SameKey(w, x) => quantity[x] = 0

\* upsertTransferItem up to its transaction: the transfer is a draft, the
\* departure shop has the quantity, and the line is one of the item's, or new.
BeginUpsert(r, t, w, q) ==
    /\ request[r].step = "idle"
    /\ status[t] = "DRAFT"
    /\ q <= stock[ItemOf[w]][From[t]]
    /\ lines[t][w] > 0 \/ Unlisted(lines[t], w)
    /\ request' = [request EXCEPT ![r] =
                     [step |-> "upsert", transfer |-> t, place |-> w,
                      quantity |-> q, seen |-> lines[t], seenStatus |-> status[t]]]
    /\ UNCHANGED <<document, stock, history, editedLate>>

\* Somebody has read the lines of t in order to move stock by them.
LinesInUse(t) ==
    \E r \in Request : /\ request[r].step \in {"send", "accept", "cancel"}
                       /\ request[r].transfer = t

\* The write sets the line in place w of transfer t.
SetLine(r, t, w) ==
    /\ lines' = [lines EXCEPT ![t][w] = request[r].quantity]
    /\ editedLate' = [editedLate EXCEPT ![t] = @ \/ LinesInUse(t) \/ status[t] # "DRAFT"]

\* The line that was read is updated or deleted by its id.
UpdateLine(r) ==
    LET t == request[r].transfer
        w == request[r].place
    IN  /\ request[r].step = "upsert"
        /\ request[r].seen[w] > 0
        /\ lines[t][w] > 0
        /\ SetLine(r, t, w)
        /\ Done(r)
        /\ UNCHANGED <<status, stock, history>>

\* None was read: a line is created in a free place.  The unique key (transfer,
\* product, variant) refuses a second one of a variant, and with no variant none.
CreateLine(r) ==
    LET t == request[r].transfer
    IN  /\ request[r].step = "upsert"
        /\ request[r].seen[request[r].place] = 0
        /\ request[r].quantity > 0
        /\ \E w \in Place :
              /\ SameKey(request[r].place, w)
              /\ lines[t][w] = 0
              /\ w \in Nameless \/ Unlisted(lines[t], w)
              /\ SetLine(r, t, w)
        /\ Done(r)
        /\ UNCHANGED <<status, stock, history>>

BeginSend(r, t) ==
    /\ \E w \in Place : lines[t][w] > 0
    /\ Read(r, t, "send", {"DRAFT"})

BeginAccept(r, t) == Read(r, t, "accept", {"SENT"})

BeginCancel(r, t) == Read(r, t, "cancel", {"DRAFT", "SENT"})

\* claimTransferStatus: the status is still the one the handler expects.
Claimed(r, step, expected) ==
    /\ request[r].step = step
    /\ status[request[r].transfer] = expected

\* The units of item i that the lines in `quantity` hold together.
UnitsOfItem(quantity, i) ==
    SumOver(quantity, {w \in Place : ItemOf[w] = i})

\* Mutant: the decrement without its condition.
InStockUnchecked(t, quantity) == TRUE

\* moveVariantStock with a negative delta: the departure shop has the lines.
InStock(t, quantity) == 
    \A i \in Item : stock[i][From[t]] >= UnitsOfItem(quantity, i)

\* sendTransfer's transaction: claim, then take every line from the stock.
Send(r) ==
    LET t == request[r].transfer
        seen == request[r].seen
    IN  /\ Claimed(r, "send", "DRAFT")
        /\ InStock(t, seen)
        /\ status' = [status EXCEPT ![t] = "SENT"]
        /\ stock' = [i \in Item |->
                        [stock[i] EXCEPT ![From[t]] = @ - UnitsOfItem(seen, i)]]
        /\ sent' = [sent EXCEPT ![t] = [w \in Place |-> @[w] + seen[w]]]
        /\ posted' = [posted EXCEPT ![t] = @ + 1]
        /\ Done(r)
        /\ UNCHANGED <<lines, back, arrived, reversed, editedLate>>

\* Mutant: the verified quantities are not compared with the lines.
ArrivableUnchecked(quantity, seen) == TRUE

Arrivable(quantity, seen) == \A w \in Place : quantity[w] <= seen[w]

\* acceptTransfer and acceptTransferVerified: at most the quantity of each
\* line arrives.  A line deleted meanwhile fails its update by id.
Accept(r, quantity) ==
    LET t == request[r].transfer
        seen == request[r].seen
    IN  /\ Claimed(r, "accept", "SENT")
        /\ Arrivable(quantity, seen)
        /\ \A w \in Place : seen[w] > 0 => lines[t][w] > 0
        /\ status' = [status EXCEPT ![t] = "ACCEPTED"]
        /\ stock' = [i \in Item |->
                        [stock[i] EXCEPT ![To[t]] = @ + UnitsOfItem(quantity, i)]]
        /\ arrived' = [arrived EXCEPT ![t] = [w \in Place |-> @[w] + quantity[w]]]
        /\ Done(r)
        /\ UNCHANGED <<lines, sent, back, posted, reversed, editedLate>>

\* Mutant: the claim accepts any status that can be cancelled.
CancelClaimedLate(r) ==
    request[r].step = "cancel" /\ status[request[r].transfer] \in {"DRAFT", "SENT"}

CancelClaimed(r) == Claimed(r, "cancel", request[r].seenStatus)

\* cancelTransfer claims from the status it has read; a sent transfer gives
\* its lines back to the departure shop.
Cancel(r) ==
    LET t == request[r].transfer
        restored == IF request[r].seenStatus = "SENT" THEN request[r].seen ELSE NoLines
    IN  /\ CancelClaimed(r)
        /\ status' = [status EXCEPT ![t] = "CANCELLED"]
        /\ stock' = [i \in Item |->
                        [stock[i] EXCEPT ![From[t]] = @ + UnitsOfItem(restored, i)]]
        /\ back' = [back EXCEPT ![t] = [w \in Place |-> @[w] + restored[w]]]
        /\ reversed' = [reversed EXCEPT ![t] =
                          IF request[r].seenStatus = "SENT" THEN @ + 1 ELSE @]
        /\ Done(r)
        /\ UNCHANGED <<lines, sent, arrived, posted, editedLate>>

\* A lost claim, missing stock, a line that is gone or taken, a delete of none, a
\* broken connection: the
\* transaction rolls back and the request is answered with an error.
Reject(r) ==
    /\ request[r].step # "idle"
    /\ Done(r)
    /\ UNCHANGED <<document, stock, history, editedLate>>

\* A sale in the departure shop: the stock a send counted on may be gone.
Sell(i, s) ==
    /\ stock[i][s] > 0
    /\ stock' = [stock EXCEPT ![i][s] = @ - 1]
    /\ UNCHANGED <<document, request, history, editedLate>>

Next ==
    \/ \E t \in Transfer : Create(t)
    \/ \E r \in Request, t \in Transfer :
          \/ \E w \in Place, q \in Quantities : BeginUpsert(r, t, w, q)
          \/ BeginSend(r, t)
          \/ BeginAccept(r, t)
          \/ BeginCancel(r, t)
    \/ \E r \in Request :
          \/ UpdateLine(r)
          \/ CreateLine(r)
          \/ Send(r)
          \/ \E quantity \in Lines : Accept(r, quantity)
          \/ Cancel(r)
          \/ Reject(r)
    \/ \E i \in Item, s \in Shop : Sell(i, s)

Spec == Init /\ [][Next]_vars

-----------------------------------------------------------------------------
TypeOK ==
    /\ status \in [Transfer -> Status]
    /\ lines \in [Transfer -> Lines]
    /\ stock \in [Item -> [Shop -> Nat]]
    /\ request \in [Request -> RequestState]
    /\ sent \in [Transfer -> [Place -> Nat]]
    /\ back \in [Transfer -> [Place -> Nat]]
    /\ arrived \in [Transfer -> [Place -> Nat]]
    /\ posted \in [Transfer -> Nat]
    /\ reversed \in [Transfer -> Nat]
    /\ editedLate \in [Transfer -> BOOLEAN]

\* Whatever requests race, a transfer's stock leaves the departure shop once
\* and then either arrives or comes back, never both: what has arrived and
\* come back is nothing until the transfer ended, and belongs to one end.
OneEnding ==
    \A t \in Transfer :
        /\ posted[t] <= 1
        /\ reversed[t] <= posted[t]
        /\ arrived[t] # NoLines => status[t] = "ACCEPTED" /\ back[t] = NoLines
        /\ back[t] # NoLines => status[t] = "CANCELLED"
        /\ status[t] \in {"SENT", "ACCEPTED"} => posted[t] = 1 /\ reversed[t] = 0

\* The promise holds of every transfer whose lines were left alone once a
\* request had read them in order to send it.
ConservedUnlessEditedLate ==
    \A t \in Transfer :
        ~editedLate[t] =>
            /\ \A w \in Place : arrived[t][w] + back[t][w] <= sent[t][w]
            /\ status[t] = "CANCELLED" => back[t] = sent[t]

\* The transfer implements the stock document: DRAFT is open, SENT is posted,
\* a cancelled transfer is reversed when it was posted and closed otherwise.
PhaseOf(t) ==
    CASE status[t] \in {"NONE", "DRAFT"} -> "open"
      [] status[t] = "SENT" -> "posted"
      [] status[t] = "ACCEPTED" -> "closed"
      [] status[t] = "CANCELLED" -> IF posted[t] > 0 THEN "reversed" ELSE "closed"

Document == INSTANCE StockDocument WITH
    Doc <- Transfer, phase <- [t \in Transfer |-> PhaseOf(t)]

IsStockDocument == Document!Spec

=============================================================================
