---------------------------- MODULE Adjustments ----------------------------
(***************************************************************************)
(* What happens to a sale after it is paid (src/sales/sales.service.ts):   *)
(* goods are returned or exchanged, documents are cancelled, and their     *)
(* date is changed.  Every document is a row of one table, a paper here,   *)
(* whose id is its place in the sequence; the client's record keeps totals *)
(* over them.  All of it runs in serializable transactions, which are one  *)
(* step, but for the change of a date: that one is a plain transaction,    *)
(* whose check, write and commit others may come between.                  *)
(*                                                                         *)
(* One shop, one client.  Time is counted in minutes, money in the least   *)
(* unit toFixed(2) keeps; a sale has a flat discount.                      *)
(***************************************************************************)
EXTENDS Totals, Sequences

CONSTANTS
    Good,          \* products
    Clerk,         \* employees, one request in flight each
    RetailPrice,   \* price of a unit
    OpeningStock,  \* units of each good before the first document
    Baskets,       \* bound: what one sale may sell
    Returned,      \* bound: what one return may bring
    Discounts,     \* bound: flat discounts, and what is cut off an exchange
    Deliveries,    \* bound: what comes in or goes out by another paper than a sale's
    MaxPapers,     \* bound: documents
    MaxMoves,      \* bound: receipts, transfers and adjustments
    MaxRedates,    \* bound: requests to change a date
    LastMinute     \* bound: the clock stops here

\* Of the types of a movement the ones written besides sales and returns; a fall
\* in the stock is never booked as a receipt.
MoveTypes == {"PURCHASE", "TRANSFER", "ADJUSTMENT"}
Delivery ==
    {d \in [type : MoveTypes, good : Good, way : {"in", "out"}] : d.type = "PURCHASE" => d.way = "in"}

ASSUME AdjustmentsAssumption ==
    /\ IsFiniteSet(Good)
    /\ RetailPrice \in [Good -> Nat \ {0}]
    /\ OpeningStock \in Nat
    /\ Baskets \subseteq [Good -> Nat] /\ Returned \subseteq [Good -> Nat]
    /\ Discounts \subseteq Nat
    /\ Deliveries \subseteq Delivery
    /\ MaxPapers \in Nat /\ MaxMoves \in Nat /\ MaxRedates \in Nat
    /\ LastMinute \in Nat

VARIABLES
    papers,   \* Sale rows that are no drafts, by id
    moves,    \* StockMovement rows of the shop, of those types
    onHand,   \* stock of each good
    books,    \* Client: totalPurchasesUzs, visitsCount, lastPurchaseAt
    desk,     \* the request each clerk has in flight
    clock,
    redates,  \* requests to change a date, for their bound
    raced,    \* history: papers whose relatives changed while they were redated
    behind    \* history: the client's totals were overwritten by older ones

adjustmentVars == <<papers, moves, onHand, books, desk, clock, redates, raced, behind>>

\* updateSaleDate lets a date be one minute ahead of the clock.
Ahead == 1

Minutes == 0 .. LastMinute + Ahead
Ids == 1 .. MaxPapers
NoPaper == 0
Waiting == [step |-> "idle"]

AdjustmentsInit ==
    /\ papers = <<>>
    /\ moves = <<>>
    /\ onHand = [g \in Good |-> OpeningStock]
    /\ books = [total |-> 0, visits |-> 0, last |-> 0]
    /\ desk = [c \in Clerk |-> Waiting]
    /\ clock = 0
    /\ redates = 0
    /\ raced = {}
    /\ behind = FALSE

-----------------------------------------------------------------------------
\* Number((a / b).toFixed(2)), half up.
RoundDiv(a, b) == (2 * a + b) \div (2 * b)

Positive(n) == IF n > 0 THEN n ELSE 0

Sum(f) == SumOver(f, Good)

\* finalizeSaleItemSnapshots: each line gives up its share of the flat discount.
FinalPrices(units, discount) ==
    LET retail == [g \in Good |-> units[g] * RetailPrice[g]]
    IN  [g \in Good |-> Positive(retail[g] -
            IF Sum(retail) > 0 THEN RoundDiv(discount * retail[g], Sum(retail)) ELSE 0)]

Live(ps, i) == ps[i].status # "cancelled"
Children(ps, b) == {i \in DOMAIN ps : ps[i].base = b}
LiveChildren(ps, b) == {i \in Children(ps, b) : Live(ps, i)}
LiveOfType(ps, types) == {i \in DOMAIN ps : Live(ps, i) /\ ps[i].type \in types}

\* refreshClientSalesAggregates: sales and exchanges less returns, whatever is
\* not cancelled.
Purchases(ps) == LiveOfType(ps, {"sale", "exchange"})

Aggregates(ps) ==
    LET amount == [i \in DOMAIN ps |-> ps[i].payable]
    IN  [total |-> Positive(SumOver(amount, Purchases(ps))
                              - SumOver(amount, LiveOfType(ps, {"return"}))),
         visits |-> Cardinality(Purchases(ps)),
         last |-> IF Purchases(ps) = {} THEN 0
                  ELSE CHOOSE t \in {ps[i].at : i \in Purchases(ps)} :
                          \A i \in Purchases(ps) : ps[i].at <= t]

\* refreshBaseSaleStatus: by what the live adjustments of the sale are.
StatusOf(ps, b) ==
    LET children == LiveChildren(ps, b)
        returned(g) == SumOver([i \in DOMAIN ps |-> ps[i].units[g]],
                               {i \in children : ps[i].type = "return"})
        sold == {g \in Good : ps[b].units[g] > 0}
        fully == \A g \in sold : returned(g) >= ps[b].units[g]
    IN  IF children = {} THEN "paid"
        ELSE IF \A g \in sold : returned(g) = 0 THEN ps[b].status
        ELSE IF \E i \in children : ps[i].type = "exchange"
             THEN IF fully THEN "exchanged" ELSE "partially_exchanged"
             ELSE IF fully THEN "returned" ELSE "partially_returned"

BaseRefreshed(ps, b) == [ps EXCEPT ![b].status = StatusOf(ps, b)]

\* An uncommitted change of a date holds the row; who must write it waits.
Held(i) == \E c \in Clerk : desk[c].step = "dated" /\ desk[c].paper = i

\* A request ends; the ones that have read the papers have read old ones.
Finish(c) ==
    desk' = [k \in Clerk |->
        IF k = c THEN Waiting
        ELSE IF desk[k].step = "dated" THEN [desk[k] EXCEPT !.moved = TRUE]
        ELSE desk[k]]

\* The last thing every document transaction does.
Record(c, ps, stock) ==
    /\ papers' = ps
    /\ onHand' = stock
    /\ books' = Aggregates(ps)
    /\ behind' = FALSE
    /\ Finish(c)
    /\ UNCHANGED <<moves, clock, redates, raced>>

Free(c) == desk[c].step = "idle"

-----------------------------------------------------------------------------
\* A payment: the units leave the stock and the line prices are settled.
Sell(c, basket, discount) ==
    LET retail == Sum([g \in Good |-> basket[g] * RetailPrice[g]])
    IN  /\ Free(c)
        /\ Len(papers) < MaxPapers
        /\ \A g \in Good : onHand[g] >= basket[g]
        /\ Record(c, Append(papers,
               [type |-> "sale", base |-> NoPaper, group |-> NoPaper,
                status |-> "paid", at |-> clock, units |-> basket,
                final |-> FinalPrices(basket, discount),
                payable |-> Positive(retail - discount)]),
               [g \in Good |-> onHand[g] - basket[g]])

\* findBaseSaleForAdjustment, and the row locked and read again.
Adjustable(b) ==
    papers[b].type = "sale" /\ Live(papers, b) /\ ~Held(b)

\* getReturnableQuantities: what was sold less what live returns brought back.
LeftToReturn(b, g) ==
    papers[b].units[g]
        - SumOver([i \in DOMAIN papers |-> papers[i].units[g]],
                  {i \in LiveChildren(papers, b) : papers[i].type = "return"})

\* prepareAdjustmentItems: what comes back was sold and is not back yet.
CanReturn(b, basket) ==
    /\ \E g \in Good : basket[g] > 0
    /\ \A g \in Good : basket[g] <= LeftToReturn(b, g)

\* A unit comes back at the rounded price it was sold for.
UnitPrice(b, g) ==
    IF papers[b].units[g] = 0 THEN 0
    ELSE RoundDiv(papers[b].final[g], papers[b].units[g])

\* createAdjustmentSale of a return.
ReturnPaper(b, basket, group) ==
    LET final == [g \in Good |-> basket[g] * UnitPrice(b, g)]
    IN  [type |-> "return", base |-> b, group |-> group, status |-> "returned",
         at |-> clock, units |-> basket, final |-> final, payable |-> Sum(final)]

BringBack(c, b, basket) ==
    /\ Free(c)
    /\ Len(papers) < MaxPapers
    /\ Adjustable(b)
    /\ CanReturn(b, basket)
    /\ Record(c, BaseRefreshed(Append(papers, ReturnPaper(b, basket, NoPaper)), b),
              [g \in Good |-> onHand[g] + basket[g]])

\* prepareNewExchangeItems: from nothing to the retail price, and no more than
\* the shop has with what comes back.
CanTake(basket, g, price) ==
    /\ price \in 0 .. RetailPrice[g]
    /\ onHand[g] + basket[g] >= 1

\* createAdjustmentSale of an exchange.
ExchangePaper(b, g, price, group) ==
    [type |-> "exchange", base |-> b, group |-> group, status |-> "paid",
     at |-> clock, units |-> [h \in Good |-> IF h = g THEN 1 ELSE 0],
     final |-> [h \in Good |-> IF h = g THEN price ELSE 0], payable |-> price]

\* processExchange: a return and a sale of a unit of g under one group.
Exchange(c, b, basket, g, price) ==
    LET group == Len(papers) + 1
    IN  /\ Free(c)
        /\ group < MaxPapers
        /\ Adjustable(b)
        /\ CanReturn(b, basket)
        /\ CanTake(basket, g, price)
        /\ Record(c, BaseRefreshed(papers \o <<ReturnPaper(b, basket, group),
                                           ExchangePaper(b, g, price, group)>>, b),
                  [h \in Good |-> onHand[h] + basket[h] - IF h = g THEN 1 ELSE 0])

-----------------------------------------------------------------------------
(* removeOrder.                                                            *)

\* Mutant: an exchange is cancelled without the return it came with.
OnlyItself(i) == {i}

\* resolveAdjustmentDeletionGroup: the live papers of the group if both kinds
\* are among them, else a neighbour that could be the other half of an old
\* exchange, else the paper alone.
GroupOf(i) ==
    LET p == papers[i]
        grouped == {j \in LiveChildren(papers, p.base) :
                       p.group # NoPaper /\ papers[j].group = p.group}
        pair == IF p.type = "return" THEN i + 1 ELSE i - 1
        paired == {j \in LiveChildren(papers, p.base) :
                      j = pair /\ papers[j].type # p.type /\ papers[j].at = p.at}
    IN  IF {papers[j].type : j \in grouped} = {"return", "exchange"} THEN grouped
        ELSE {i} \cup paired

\* The documents are claimed, and a sale's adjustments counted again.
Claimed(docs) ==
    \A i \in docs :
        /\ Live(papers, i)
        /\ papers[i].base = NoPaper => LiveChildren(papers, i) = {}

BeginRemoveOrder(c, i) ==
    /\ Free(c)
    /\ Live(papers, i)
    /\ papers[i].base = NoPaper => LiveChildren(papers, i) = {}
    /\ desk' = [desk EXCEPT ![c] =
         [step |-> "remove",
          docs |-> IF papers[i].base = NoPaper THEN {i} ELSE GroupOf(i)]]
    /\ UNCHANGED <<papers, moves, onHand, books, clock, redates, raced, behind>>

\* The stock each document moved is moved back.
Reversed(docs) ==
    LET units(g) == [i \in DOMAIN papers |-> papers[i].units[g]]
    IN  [g \in Good |-> onHand[g]
            + SumOver(units(g), {i \in docs : papers[i].type # "return"})
            - SumOver(units(g), {i \in docs : papers[i].type = "return"})]

RemoveOrder(c) ==
    LET docs == desk[c].docs
        base == papers[CHOOSE i \in docs : TRUE].base
        cancelled == [i \in DOMAIN papers |->
            IF i \in docs THEN [papers[i] EXCEPT !.status = "cancelled"] ELSE papers[i]]
    IN  /\ desk[c].step = "remove"
        /\ Claimed(docs)
        /\ \A i \in docs \cup {base} : ~Held(i)
        /\ \A g \in Good : Reversed(docs)[g] >= 0
        /\ Record(c, IF base = NoPaper THEN cancelled ELSE BaseRefreshed(cancelled, base),
                  Reversed(docs))

-----------------------------------------------------------------------------
(* updateSaleDate.                                                         *)

\* What its checks read of the other papers of the sale.
Relatives(i) ==
    {<<j, papers[j].at>> : j \in LiveChildren(papers, i) \cup
                                 {k \in DOMAIN papers : k = papers[i].base}}

\* Mutant: only a return is compared with its sale.
OrderedForReturn(i, at) ==
    papers[i].base # NoPaper => at >= papers[papers[i].base].at

\* Not before the sale, not after its live returns and exchanges.
Ordered(i, at) ==
    /\ papers[i].base # NoPaper => at >= papers[papers[i].base].at
    /\ \A j \in LiveChildren(papers, i) : at <= papers[j].at

BeginRedate(c, i, at) ==
    /\ Free(c)
    /\ redates < MaxRedates
    /\ at <= clock + Ahead
    /\ Live(papers, i)
    /\ Ordered(i, at)
    /\ desk' = [desk EXCEPT ![c] =
         [step |-> "redate", paper |-> i, at |-> at, seen |-> Relatives(i)]]
    /\ UNCHANGED <<papers, moves, onHand, books, clock, raced, behind>>
    /\ redates' = redates + 1

\* The row is written, by its id, and the client's papers are added up.
Redate(c) ==
    LET r == desk[c]
    IN  /\ r.step = "redate"
        /\ ~Held(r.paper)
        /\ desk' = [desk EXCEPT ![c] =
             [step |-> "dated", paper |-> r.paper, at |-> r.at, seen |-> r.seen,
              moved |-> FALSE,
              books |-> Aggregates([papers EXCEPT ![r.paper].at = r.at])]]
        /\ UNCHANGED <<papers, moves, onHand, books, clock, redates, raced, behind>>

\* The client's record is written, and the transaction commits.
CommitRedate(c) ==
    LET r == desk[c]
    IN  /\ r.step = "dated"
        /\ papers' = [papers EXCEPT ![r.paper].at = r.at]
        /\ books' = r.books
        /\ behind' = r.moved
        /\ raced' = IF Relatives(r.paper) = r.seen THEN raced ELSE raced \cup {r.paper}
        /\ Finish(c)
        /\ UNCHANGED <<moves, onHand, clock, redates>>

-----------------------------------------------------------------------------
\* A failed check, a lost claim, missing stock or an error ends a request.
GiveUp(c) ==
    /\ ~Free(c)
    /\ desk' = [desk EXCEPT ![c] = Waiting]
    /\ UNCHANGED <<papers, moves, onHand, books, clock, redates, raced, behind>>

\* createStockMovementRecord and its likes: a receipt, a transfer that leaves the
\* shop or reaches it, an adjustment.  The row keeps the size of the change.
Move(d) ==
    /\ Len(moves) < MaxMoves
    /\ d.way = "out" => onHand[d.good] > 0
    /\ moves' = Append(moves, [type |-> d.type, good |-> d.good, way |-> d.way, at |-> clock])
    /\ onHand' = [onHand EXCEPT ![d.good] = IF d.way = "in" THEN @ + 1 ELSE @ - 1]
    /\ UNCHANGED <<papers, books, desk, clock, redates, raced, behind>>

Tick ==
    /\ clock < LastMinute
    /\ clock' = clock + 1
    /\ UNCHANGED <<papers, moves, onHand, books, desk, redates, raced, behind>>

ClerkStep(c) ==
    \/ \E basket \in Baskets, d \in Discounts : Sell(c, basket, d)
    \/ \E i \in DOMAIN papers :
          \/ \E basket \in Returned :
                \/ BringBack(c, i, basket)
                \/ \E g \in Good, cut \in Discounts :
                      Exchange(c, i, basket, g, RetailPrice[g] - cut)
          \/ BeginRemoveOrder(c, i)
          \/ \E at \in Minutes : BeginRedate(c, i, at)
    \/ RemoveOrder(c) \/ Redate(c) \/ CommitRedate(c) \/ GiveUp(c)

AdjustmentsNext ==
    \/ \E c \in Clerk : ClerkStep(c)
    \/ \E d \in Deliveries : Move(d)
    \/ Tick

AdjustmentsSpec == AdjustmentsInit /\ [][AdjustmentsNext]_adjustmentVars

-----------------------------------------------------------------------------
PaperRecord ==
    [type : {"sale", "return", "exchange"}, base : Ids \cup {NoPaper},
     group : Ids \cup {NoPaper},
     status : {"paid", "returned", "partially_returned", "exchanged",
               "partially_exchanged", "cancelled"},
     at : Minutes, units : [Good -> Nat], final : [Good -> Nat], payable : Nat]

MoveRecord ==
    {m \in [type : MoveTypes, good : Good, way : {"in", "out"}, at : Minutes] :
        m.type = "PURCHASE" => m.way = "in"}

BooksRecord == [total : Nat, visits : Nat, last : Minutes]

ClerkRecord ==
    {Waiting} \cup [step : {"remove"}, docs : SUBSET Ids]
        \cup [step : {"redate"}, paper : Ids, at : Minutes, seen : SUBSET (Ids \X Minutes)]
        \cup [step : {"dated"}, paper : Ids, at : Minutes, seen : SUBSET (Ids \X Minutes),
              moved : BOOLEAN, books : BooksRecord]

AdjustmentsTypeOK ==
    /\ papers \in Seq(PaperRecord) /\ Len(papers) <= MaxPapers
    /\ moves \in Seq(MoveRecord)
    /\ onHand \in [Good -> Nat]
    /\ books \in BooksRecord
    /\ desk \in [Clerk -> ClerkRecord]
    /\ clock \in Minutes /\ redates \in 0 .. MaxRedates
    /\ raced \subseteq Ids /\ behind \in BOOLEAN

\* However dates are changed and goods come back, a live return or exchange is
\* never dated before its sale, but for the minute a date may be ahead, unless
\* two changes of the same sale's papers ran into each other.
DatesInOrder ==
    \A i \in DOMAIN papers :
        LET b == papers[i].base
        IN  b # NoPaper /\ Live(papers, i) /\ {i, b} \cap raced = {} =>
                papers[i].at + Ahead >= papers[b].at

=============================================================================
