# Verification of the retail back end

A NestJS/Prisma/PostgreSQL back end for shops: tills, stock, transfers between
shops, client debts and loyalty, catalogue, purchasing, counts, users, settings
and reports. These TLA+ modules model the part of it where several requests meet
the same rows; TLC checks them on small instances and TLAPS proves, for every
value of the constants, the theorems of section 5.

Paths below are relative to the repository (`src/` in the project's map is its
root, so `sales/sales.service.ts` here is `src/src/sales/sales.service.ts`
there).

## 1. The system

All state is in PostgreSQL but for four maps in the memory of the server: the
sessions of imports and their locks, the counts of imports, and the time zones
of companies. A request is a handler that reads rows, checks them and writes,
either

* in **one serializable transaction** (`runSerializableTransaction`, retried on
  a serialization failure), or
* in **a READ COMMITTED transaction** (`prisma.$transaction`), or
* in **autocommit statements**, one after another, with other requests in
  between.

What is hard here comes from mixing the three: a handler of the last two kinds
writes what it decided on rows it read earlier, while the first kind claims a
row by its status inside its transaction.

| Component | State | Operations | Interacts with | Must hold |
|---|---|---|---|---|
| Stock ledger (`common/stock-ledger.ts`, `sale-stock-posting.ts`, the variant ledger migration) | `ProductVariantStock`, derived `ProductStock`, `Product.quantity`, low-stock flag | move, set, post a sale; trigger | every document below | never negative; derived rows equal the sums; the flag is set and cleared |
| Serializable transactions (`common/serializable-transaction.ts`) | none | run, retry, give up | all documents | as if serial; gives up after six attempts |
| Point of sale (`sales/sales.service.ts`) | `Sale`, `SaleItem`, payments | open, add/update/remove line, discount, pay, park, resume, delete, cancel, change the payment | ledger, debts, loyalty, receipts | posted once, charged what was written off, cancelled once; takings add up |
| Returns and exchanges (same file) | child `Sale` rows | return, exchange, cancel either, change a date | ledger, debts, loyalty | never more than sold; not of a cancelled sale; dated after their sale |
| Transfers (`products/products.service.ts`) | `Transfer`, `TransferItem` | create, edit lines, send, accept (in part), cancel | ledger of two shops | one ending, goods conserved |
| Client accounts (`clients/clients.service.ts`, `sales.service.ts`) | `ClientDebt`, `ClientDebtRepayment`, `Client.debtUzs`, `Client.balanceUzs`, groups, consent | create debt, repay, credit, revert, earn, spend, take back, refund; edit a card | sales, returns | columns agree, money is counted once; a card says what was asked |
| Catalogue (`products.service.ts`) | `Product`, variants, codes; import sessions, counts of imports | create, edit, variants, codes, import, count, roll back | ledger | an edit does not undo a sale; a code finds one product; an import comes in once |
| Movements (same file) | `StockMovement` | sale, transfer, edit of a product | ledger | the journal explains the stock |
| Orders (`modules/orders`) | `Order`, items, payments | draft, lines, payments, discount, park, resume, complete, cancel | ledger, debts | completed once, paid or owed in full |
| Warehouse (`warehouse`) | inventory sessions, count attempts, revaluations | count, recount, submit, approve, cancel | ledger | the delta is applied once |
| Supplier invoices (`imports`) | invoices, lines, allocations, suppliers | recognise, match, merge, commit, roll back, cancel | ledger, catalogue | posted once |
| Purchase orders (`purchase-orders`) | orders to suppliers | create, edit, receive, close, cancel | ledger | the status tells what came |
| Auth, users, roles, platform | sessions, users, shop access, roles, subscriptions | login, refresh, logout, move, grant, block, daily job | all | tokens rotate; an employee works in his own shops; a payment buys its month |
| Settings, payment types, dictionaries, attributes | directories | CRUD, defaults, merges, audits | catalogue, orders | one default; no twins; links follow the colours |
| Reports, dashboard, analytics, client metrics | none | read page by page, aggregate | papers, ledger | the same figure everywhere |
| Receipts, price tags, Telegram, OCR | snapshots, templates | render, notify, recognise | read-only | - |

`PROJECT.json` lists every component with its status, and under `hazards` each
place in the code where an order of steps nobody wrote a test for matters.

## 2. Modules

```
                Totals ---- TotalsTheorems                       (sums)

StockLedger, Catalogue ----------------------> MCStockLedger     StockLedgerProofs
Transfers, Orders ---------------------------> MCDocuments       DocumentsProofs
SalesPos ------------------------------------> MCSalesPos        SalesPosProofs
SalesPos, Payments,
  Adjustments < ClientMetrics < Reports -----> MCSalesDesk       SalesDeskProofs
ClientAccounts, AuthSessions, ClientCards,
  Dictionaries, Attributes, Roles, Settings -> MCRecords         RecordsProofs
ProductImports, Subscriptions ---------------> MCServer          ServerProofs
Inventory, Stocktaking, SupplierInvoices,
  Movements, PurchaseOrders, Employees ------> MCWarehouse       WarehouseProofs

StockDocument: refined by Transfers and SalesPos
```

`A < B`: B extends A. An `MC` module composes components that share no row (or
none but the stock, which each of them has its own part of): every behaviour is
about one of them, chosen at the start, and the others stay. It gives the
constants of the instance; a composition proves nothing about an interaction,
it only lets one run ask about several components.

**Totals** - `SumOver(f, S)`, the `SUM` of a column over a set of rows, defined
as the number of units (`Cardinality`). A recursive sum would be the same
function, but the prover has no induction over data; unit counting lets the
properties of sums follow from cardinalities. It is meant for columns of
naturals; a negative entry counts as nothing, and no checked instance sums one.

### Stock and catalogue

**StockLedger** - one variable per table column (`variantStock`, `shopStock`,
`productQuantity`, `lowStockFlag`) and the catalogue requests in flight
(`editor`). `Receive`, `TakeOut`, `PostSale`, `CompleteOrder` and
`MoveAndRecount` are the serializable callers of `moveVariantStock`, one step
each, with the trigger's effect in the same step. `updateCatalogProduct` of a
simple product is a process: `BeginEdit` (reads the product),
`WriteProductFields` (writes back, autocommit), then per shop `EditByDelta` or
`ReadForSet`/`CompareAndSet`, and `WritePrices`, then
`SumShops`/`WriteTotal`, `CommitEdit` or `AbortEdit`. Its uncommitted
writes are `pending`, and `locks` are the row locks PostgreSQL holds for it to
the end: another writer of the row waits (its action is not enabled), which is
what READ COMMITTED gives. Two edits that lock each other's rows end by
`AbortEdit`, as PostgreSQL's deadlock detector ends one.

**Catalogue** - cards, their variant rows and codes; two cataloguers who check
codes in one statement and write in another, against the unique indexes.

**ProductImports** - one import of goods: session objects on a `heap`, the one
in memory, the row, and handlers that interleave at every `await`. A session
that is not in memory may be loaded twice. The row's write may fail, and the
server may stop: memory, locks and handlers go, rows stay.

**Stocktaking** - the count of an import: an object in memory, which a scan and
an acceptance find before an `await` and use after it; counting anew puts
another object under the same id, and a restart forgets it.

**Movements** - the journal of one product over the shops. A sale and a transfer
write their row with the stock; an edit of the product commits the stock first
and writes its receipt and its rows afterwards, one by one, and may fail in
between.

### Documents

**StockDocument** - the promise common to all documents that move stock
(architecture.md section 5): posted at most once, reversed at most once, and
only when posted; closed when it is given up, finished or deleted, several at
once by a sweep. `Transfers` and `SalesPos` refine it: their statuses map to
`phase`, their counters to `posted` and `reversed` (`IsStockDocument`).

**Transfers** - the transfer's status and lines, the stock of both shops, what
was sent and what arrived, and requests holding the row they have read. Lines
are written outside the transaction that claims the status, so `WriteLine` may
come after `Send`.

**Orders** - one order and its clerks. `complete` is one step; every other
handler checks the order and then writes in a transaction that does not look at
the status again. What it writes before its commit is in `clerk` and its lines
are locked.

**SalesPos** - a sale's row and lines, the stock of one shop, its returns, and
requests as processes whose steps are the statements of the handler (`Steps`).
`recalculateSale` is the pair `ReadTotals`/`StoreTotals`; `Pay`, `Cancel`,
`MakeReturn`, `CancelReturn` are transactions, one step each. The variables
`settled`, `taken`, `restored`, `posted`, `reversed` and `disturbed` are
history: they record what the payment and the cancel did, for the properties.

**Payments** - how one sale is covered: by methods, from the loyalty balance, on
debt; the later change of the payment; the statistics by method; the receipt.

**Adjustments** - a shop's papers in the order of their ids: sales, returns,
exchanges, their cancels and changes of dates, the client's totals and the shelf.
**ClientMetrics** adds up what the client pages say of the same papers.
**Reports** reads them page by page, without a snapshot, and adds each figure up
as each place of `reports.service.ts` does.

**ClientAccounts** - the debts of a client with all their columns, the cached
total, the loyalty balance and the adjustments (returns, exchanges) that moved
them. Every handler here is one serializable transaction, so the difficulty is
not interleaving inside a handler but the long sequences of legal calls.

**Inventory** - counts of a shop that keeps trading. `shelf` is what really lies
there, `book` what the ledger says. **SupplierInvoices** - one invoice, its desk
of requests, and the stock it brings and takes back. **PurchaseOrders** - one
order to a supplier; every handler is one step.

### People, roles, settings

**AuthSessions** - logins and refreshes that wait for bcrypt between reading
and writing, and the revocation that does not see a session committed
meanwhile. **Employees** - an employee's company, shops and current shop; every
request reads his row, works out his shops and may write them, an edit by an
administrator reads and writes, and no lock is held in between. `fresh` of a
request says that no edit, and no request an edit had overtaken, has written
since it read.
**Roles** - roles, their rows of permissions and the guard. **Subscriptions** -
trial, payment, renewal, the nightly job, blocking. **Settings** - templates
with their defaults, features, time zone and its cache, units, payment types.
**ClientCards** - code, groups and consent. **Dictionaries** - links from goods
and old colours to the shared dictionaries, kept by an audit, the form,
triggers and a rollback. **Attributes** - the five dictionaries of
`product-attributes`, which refuse twins on what they have read.

### Mutants and proofs

Operators marked "Mutant" in a comment belong to no specification: each is a
plausible mistake in the definition that follows it, and putting it in that
definition's place breaks the property it is listed with under `mutants` in
PROJECT.json. They document what each property protects against.

The eight proof modules hold theorems and the definitions their inductive
invariants need, nothing else. Modules that only TLC runs may differ in style
from those that are proved about, but none uses a RECURSIVE operator.

### Abstractions

* A serializable transaction is one step, or none. Its retries change nothing
  observable; that it may give up is covered because no step is ever forced.
* A missing stock row is a quantity of zero (an upsert creates it, a
  conditional update does not match it), except that it cannot be locked.
* Quantities (doubles) and money (decimals) are small integers; ClientAccounts
  counts in the smallest unit of money and rounds to it as `Math.round` does.
* Time is counted in months (subscriptions), minutes (papers) or passwords
  (sessions); tokens are the sessions they name.
* A line deleted and created again is the same line; the code updates by id and
  would reject. This only adds behaviours.
* The percent discount of the till, kits, weighed goods, services, currencies,
  names and texts are left out. The flag that loyalty is active is a percent
  of 0.
* A catalogue payload that is sent but empty is not modelled (a payload with no
  shops is the form saved without stock).
* In ClientAccounts the total of the live returns of a sale is bounded by the
  sale's total: SalesPos shows the quantities are.
* One shop and one cashier in SalesPos; the scope filters by company, shop and
  user are authorisation and are not modelled there.

## 3. Runs

| Run | Question | Bounds |
|---|---|---|
| StockLedger_edits | Do two catalogue forms, sales, orders, receipts and counts keep the tables consistent? Does a code find one product, whoever edits the cards? | 1 product, 2 variants, 2 shops, 2 forms, quantities to 1; 2 cards, 2 variant rows, 2 cataloguers, codes to 1 |
| Documents_requests | Does a transfer end once, conserve its goods and implement StockDocument? Is an order completed once, with its total that of its lines? | 1 transfer, 1 item, 3 requests, stock and lines to 2; 2 products, 1 payment, 2 clerks, lines and payments to 1 |
| SalesPos_documents | Is a sale charged for what is written off, are returns within it, are cancels exact? Does it implement StockDocument? | 1 sale, 1 item, 2 returns, 2 requests, lines to 2, discount to 1, every kind of request |
| SalesPos_till | Does juggling drafts ever post one sale twice? Do takings add up, do dates stay in order, do all reports agree with the shelf and the client's record? | 2 sales, 2 requests, lines and stock to 1; bills to 2, 2 methods, 2 cashiers; 2 goods, 2 clerks, baskets of three units or none, 3 papers, 1 delivery, 2 changes of dates, pages of 1 |
| Warehouse_documents | Do counts, invoices, the journal, orders to suppliers and the shops of an employee stay true to what happened? | 2 counts of 1 item; 2 items and scanners, 2 objects; 2 branches, 1 edit, 2 rows; 2 invoice lines, units to 2; 2 goods, to 2; 2 companies, 3 shops, 2 administrators, 1 request, 2 edits |
| Server_progress | Does an import come in once, through failures and restarts, and end? Does every payment buy its month, is every end noticed? | 2 handlers, 3 objects, 2 commits, 3 requests, 1 restart; 1 employee, 2 clerks, 3 months, 2 payments |
| Records_books | Do debts, cards, sessions, roles, dictionaries and settings say what was asked of them? | 1 client, 1 sale, 2 debts, 2 adjustments, money to 2, cashback 50%; 3 sessions, 2 callers, 1 change of password; 2 colours, 2 values, 1 variant; 2 entries, 2 spellings, 2 clerks; 2 roles, 2 permissions, 2 managers; 2 owners, 3 templates; 2 cards, 2 editors |
| StockLedger_total, SalesPos_recancel, SalesPos_deleted, Imports_rollback, Roles_removal | One statement of the repository each, which the code does not keep | see section 4 |

**Why the bounds are enough.** Every race in these handlers is between two
requests: one between its read and its write, one that commits in between. Two
requests per run show each pair; three (transfers) also show a pair disturbed
by a third. One sale, one transfer, one order, one invoice suffice because no
handler relates two of them, apart from the sweep of open drafts, for which
SalesPos_till has two sales, and the snapshot of a count, which leaves out what
another count has, for which Warehouse_documents has two. Lines and stock of 2
let a return, an arrival or a receipt be partial. Two shops are needed for the
total of a product and for locks taken in different orders; two returns for the
sums over returns; two debts of one sale for "the oldest first"; cashback of
50% of 2 or less is already rounded; three objects for a handler that works on
one another request has replaced twice. Three papers are a sale, an adjustment
of it and its cancel or another sale; a page of one row makes every report
longer than a page. Three sessions are a chain with two heirs asked of one
token. The theorems have no such bounds.

What a bound is named after is counted in a guard, and nothing else is: the
`Max...` constants stop the actions that raise a counter. In Warehouse_documents
one request of the employee is in flight; the theorem OwnShops speaks of any
number.

**What a run leaves out.** SalesPos_documents leaves out the steps in which an
unchecked write by id reopens a cancelled sale (`Reopens` in MCSalesPos): that
they happen, and what comes of it, is SalesPos_recancel. SalesPos_till has no
deletion and no cancel at the till (its papers are cancelled in the part about
reports). In the same run the part about dates has no deliveries and no sale without lines,
the part about reports no changes of dates and one clerk at a time, and a payment
one request for the receipt: the properties of each part look at nothing else,
and `TillTakingsAddUp` and `ReportsTellTheTruth` (SalesDeskProofs) prove them
without these limits.

**Fairness.** `ServerFairness` of Server_progress is weak fairness of the next
step of each handler of an import that has begun (Node's event loop runs it, and
a query returns or fails), of a look at an import by its id (whoever imports
polls it), of a task of the platform that has begun, and of the nightly job
being started. A restart is bounded by `MaxCrashes`, never forced. Nothing else
assumes fairness, since everything else is a safety property: a request may stop
anywhere, which models a crashed process or a lost connection (a transaction in
flight then rolls back or never happened; the autocommit statements before it
stay).

**Deadlock** is checked in the runs of StockLedger and in Imports_rollback, where
something can always happen. Elsewhere `CHECK_DEADLOCK FALSE`: a transfer that
has ended with the shops sold out, a till whose sales are all cancelled, an
account whose debts and adjustments are used up, are the ends of a finite
instance.

**Symmetry** permutes interchangeable requests, sales, forms, shops, counts,
lines, goods, colours and adjustments only: none of them is picked by a CHOOSE on
which a property depends (a request at rest is about a shop or count some CHOOSE
names, and nothing reads that). As a behaviour of a composition is about one part,
`Swap` exchanges the pairs of all parts at once, which keeps the group small. The
run with liveness has none.

### What the properties say

*Stock.* **NeverNegative, ShopFollowsVariants** - no order of statements of
forms and transactions takes a variant below zero or lets a shop row differ from
the sum of its variants. **MovedEditCommitsExactTotal** - an edit that moved
stock commits a product total that is exact at that moment; this holds only
because the first moved row makes the trigger lock the product row, and an edit
that moves nothing has no such protection (section 4). **ScanFindsOneProduct,
NoStockIsHidden** - a code finds one card at most, and no form switches off a
variant row that has goods.

*Documents.* **ConservedUnlessEditedLate** - goods in both shops and on the road
add up, unless a line was written after a send, accept or cancel had read it.
**IsStockDocument** - the refinement; it implies that two of send, accept and
cancel never both end one transfer. **CompletedOnce** counts the completions of
an order against the statuses written over one that was not read;
**OrderAddsUp** says exactly which crossing requests make its total stale.
**PostedAtMostOnce, ReturnsWithinSale, CancelRestoresWhatWasTaken,
SettledUnlessDisturbed** - the till; the last says exactly which writes break
the charge: an unchecked line, discount or totals write that lands during the
payment or after it. **TakingsAddUp, DatesInOrder** - money and dates of paid
papers, with their exceptions. **ReportCountsOnce, ReportsMatchStock,
ReportsMatchBooks** - every figure that is added up in several places is the
same in all of them, is what the shelf and the client's record say, and a report
read while papers are written has every other paper once.

*Warehouse.* **CountsAreKept** - after an approval the books are the shelf, but
for items another count, a late zero or a dishonest count disturbed; the count of
an import shows what clerks were told. **PapersMatchStock** - a committed
invoice has brought in its lines until a late request writes over its status;
the journal explains the stock of every shop no edit has spoilt.
**StatusTellsReceipts** - an order to a supplier. **WorksInOwnShops** - an
employee's shops are of his company unless he was moved under a request or
another edit, and a request nobody wrote over is served with a current shop that
is one of its own open shops.

*People and directories.* **DebtTotalsAgree, CreditsRoundTrip, LoyaltyBacked** -
the accounts. **SessionsSucceedAndEnd** - of all requests with one refresh token
one opens a session, and sessions of an earlier password end, unless a login or
a refresh ran across the change. **AllowsWhatIsWanted** - the guard lets a role
do what was last wished of it, unless two wishes crossed. **DictionariesAgree,
OfficesAgree** - links follow colours, entries have no twins, settings and cards
are what was last asked for; each names the crossings that break it.

*Server.* **ImportedOnce, PaidMonthsCount** and, under fairness, **ImportEnds,
ExpiryIsNoticed**.

## 4. Where the code and its own words differ

Each is a run with `expect: violation`; PROJECT.json quotes the line.

1. **StockLedger_total** - a catalogue save without stock changes writes back
   the `Product.quantity` it read at its start (products.service.ts:5145): a
   sale in between is undone in the product total.
2. **SalesPos_recancel** - `resumeParkedSale` sets a paid and cancelled sale
   open again, and it can be cancelled a second time (sales.service.ts:2251).
3. **SalesPos_deleted** - `removeDraft` deletes a paid sale
   (sales.service.ts:2273).
4. **Imports_rollback** - `rollbackImport` checks the status before it takes the
   lock and not after: two rollbacks of one import take the goods out twice
   (products.service.ts:2622).
5. **Roles_removal** - `RolesService.remove` writes a column the schema lacks and
   a time that does not fit its column: no role is ever removed
   (roles.service.ts:157).

## 5. Proofs

Every theorem is about the specification a run checks, or the component's own,
and holds for all values of the constants that satisfy the component's
`...Assumption`: that the sets that are summed or chosen from are finite or not
empty (methods, bills, goods), that the "nothing" values (`NoSale`, `NoObject`, `NoShop`, ...) are not
members of the sets they stand beside, and that bounds are natural numbers.
TLC evaluates each assumption in the run of its module.

The argument is the same everywhere. The property is not inductive as it stands:
a request commits what it read some steps earlier, and nothing in the property
says that this still holds. The inductive invariant adds what the requests in
flight know. Each module has a lemma per action (or per kind of step), one that
combines them, and one temporal step `Init /\ [][Next]_vars => []Inv`.

**TotalsTheorems** - what sums need, for every finite set of rows: type, empty
set, congruence, splitting off a row, changing one row (`SumUpdate`,
`SumSplit`), adding two columns (`SumAdd`), and summing by groups
(`SumOfSums`). They rest on the library's cardinality theorems; no induction is
used.

**StockLedgerProofs** - `LedgerInvariant`, `TypeCorrect`, `StockNeverNegative`,
`ShopRowsFollow`, `CommitsExactTotal` for the ledger; `ProductTypes`,
`ScansFindOne`, `GoodsStayInSight` for the catalogue and the composition of the
two. What makes a late commit of the ledger safe is the row locks, so `LedgerInv`
adds

* `EditorsApart` - no two edits hold the same row;
* `PendingLocked` - an uncommitted change holds the rows it changes (variant,
  shop, product), and leaves the variant at zero or more when committed;
* `RestingClean` - an edit outside its transaction holds nothing.

There are two general steps (`LockStep` for statements that only lock,
`ChangeStep` for statements that change a quantity), and `MovePreserves` for all
transactions at once, because each of them is a `Move` of one variant in one
shop. `ShopFollowsVariants` is inductive relative to `LedgerInv`: `SumUpdate`
says the sum of a shop changes by what its row does. `SumHolds` adds what makes
the product total exact: an edit that moved stock holds its product's row from
that move on, every other step that changes a variant of the product needs that
row, and so the sum the edit has read is still the sum when it commits.

`CatalogueInv` adds to types and properties

* `CodesApart` - the codes of base variants and of rows never meet; with
  `BasesFollow` (a card has its base variant's code, or is known to be adrift)
  it gives `ScanFindsOneProduct`. That the next code is nobody's rests on
  `LargestExists`, from the library's well-founded order of the naturals;
* `FormsHold` - a request is about a card that is there, and adds and keeps rows
  of that card only;
* `DropsExcused` - goods on a row that a form is about to switch off have come
  since it looked.

A step of the composition is a step of one half and leaves the other alone
(`HalvesApart`).

**DocumentsProofs** - `TransferTypes`, `TransfersEndOnce`, `TransfersConserve`,
`TransferIsStockDocument`, `OrderTypes`, `OrderCompletedOnce`, `OrdersAddUp`,
`DocumentsTypes`. A transfer: each status says what the counters are
(`StatusTells`), and what a request read in order to move is what the lines say
unless they were edited late (`ReadsHold`). The refinement of StockDocument is
proved step by step from the same invariant. An order: the stored total is that
of the lines unless marked stale (`TotalHolds`), and the total a clerk has
computed and not yet committed is that of the lines as they will be, unless
somebody committed in between (`SumHolds`).

**SalesPosProofs** - `SaleTypes`, `SalesPostedAtMostOnce`,
`ReturnsStayWithinSale`, `SalesSettled`; of `DocumentsSpec`, where nobody reopens
a cancelled sale by its id, `CancelsRestore`, `SalesReversedAtMostOnce`,
`SaleIsStockDocument`. A return compares with the lines it
read before its transaction. They are those the payment wrote off because a sale
that is no draft has been posted (`PostedIsNoDraft`), and every write to a
posted sale's lines is marked (`LinesKept`, `RequestHolds`). `ChargeInv` adds
that the amount a request is about to charge is the total of the lines, unless
somebody wrote meanwhile (`DueHolds`). `CancelInv` says of a cancelled sale that
it was posted and reversed once and has put back what it took, of any other sale
in the books that it was never reversed (`CancelHolds`), and of a cancel under
way that the lines it has read are those the payment took, unless an unchecked
write touched them (`CancelRead`). Every step is a payment, a
cancel, or quiet about both (`StepKinds`), so each argument is made three times
and not once per action. The refinement is proved from the same invariant.

**SalesDeskProofs** - of the composition: `SalesDeskTypes`, `TakingsAlwaysAddUp`,
`DatesStayInOrder`, `ReportsCountOnce`, `StockReportsHold`, `BookReportsHold` and
`TillPostsAtMostOnce`; of payments alone, and of papers with their reports alone,
`TillTakingsAddUp` and `ReportsTellTheTruth`, where nothing the run leaves out is
left out.

| Invariant | What it says |
|---|---|
| `PaymentsInv` | what a request has checked adds up to the price it read, and a change of a paid sale's payment to the whole price (`RequestAddsUp`); what is stored adds up unless a listed crossing happened (`PaidHolds`); a draft owes nothing, has spent no bonus and has no split but an early one (`DraftHolds`); a snapshot taken of a paid sale nobody corrected is still what the statistics say (`StillTrue`) |
| `PapersInv` | each paper is priced as its units are (`Priced`); a live return or exchange is of a live sale, and the live returns stay within its units (`OfSale`, `Fits`); the two papers of an exchange live and die together (`Paired`); the shelf is what papers and movements left (`Shelved`); the record is the one the papers give unless an older one was written over it (`books`, `behind`); a removal under way can still be done, and a redating knows the dates and the record it read (`ClerkHolds`); `DatesInOrder` itself, with no date ahead of the clock by more than a minute (`NotAhead`) |
| `ReportInv` | the rows read so far are the beginning of the sorted papers of the period, until one is written (`Beginning`) |

Everything about reports is then arithmetic on one table. A *cell* is a paper
and a product (`Cells`); pieces, final and retail prices, costs and discounts are
columns over it. Each report adds up the same cells in its own order - over
papers, lines, products, suppliers, sellers, days, attributes - and a lemma per
order shows it reaches every cell once, with a return counted negative (`Went`,
`Came`, `SumOfSums` over groups). No induction over data is needed: a report is a
sorted list, and a list with every paper of a set once sums to the set's sum
(`Lists`).

Proving `SumsAgree` corrected it: a sale paid without lines has a total and no
row, so whatever is counted line by line misses one paper (`Bare`), and the latest
purchase of any product may not be the client's latest. The run had no such sale
and so could not show it; it has one now.

**RecordsProofs**, the client's accounts - `AccountTypes`, `AccountsAgree`,
`CreditsGoRound`, `LoyaltyCovered`, all from `AccountInv`. A credit can be given back because a
live return that credited a debt still has a debt of its sale to give it to
(`AdjustmentsHold`), and `Client.debtUzs` stays right because the debts of a sale
are all of its client (`DebtsHold`). The walk over debts "the oldest first" is a
function whose sum is `SumAdd` and `SumUpdate` away from the credit.

**RecordsProofs**, the rest - one invariant per component, each proved for the component's
own specification, and `RecordsInv`, their conjunction, for the composition. All
these handlers read and write later; what an invariant adds is which reading
justifies the write, as long as the histories do not say it is an old one.

| Theorem | Invariant | What it adds to types and property |
|---|---|---|
| SessionTypes, SessionsSucceed | `SessionInv` | a row not yet opened is blank and a session with an heir is revoked, so one token opens one session (`BlankUntilOpened`, `RefreshesHaveSessions`, `OneHeir`); unless something overlapped, a change of password in flight sees every usable session (`OneChange`, `NothingMissed`) |
| RolesAllow | `RoleInv` | who is about to write the permissions of a role has deleted all there were, and is alone unless two crossed (`SettersHold`) |
| LinksFollow | `DictionaryInv` | what a request has asked for is a row or a value of the shop (`EditorsHold`) |
| EntriesAgree | `AttributeInv` | entries are apart by name, mark and code (`EntriesApart`); a new entry's code is the one its twins have or will have (`CodesHold`, `OneCode`); what each request read still holds until something is late for it (`CreateHolds`, `EditHolds`, `ValuesHold`) |
| SettingsKeep | `SettingsInv` | what each errand has read justifies its write if nothing changes (`ErrandsHold`); a kind has one default or somebody is naming one (`TemplatesHold`); the flags asked for are stored (`CompanyHolds`); who stores a zone has put it in the cache (`ZoneHolds`) |
| CardsKeep | `CardInv` | a card's number is taken or the next, and a profile being saved is alone (`FrontsHold`) |
| RecordTypes, RolesAllowAmongRecords, DictionariesHold, OfficesHold, PeopleHold | `RecordsInv` | `AccountInv` of ClientAccounts; a step of the composition is a step or a stutter of every part |

`AttributeInv` found `NoTwins` too strong: it had allowed two colours with one HEX
only when an edit crossed, but the removal of a first entry while two are being
created leaves codes that let the same HEX in twice. TLC shows it when given three
entries; the property now names removals too.

**ServerProofs** - `ServerTypes`, `ImportComesInOnce`, `PaidMonths`. The import:
one handler at a time works under the lock (`OneUnderLock`), each knows what it
is about to do (`CommitsHold`, `RollbacksHold`), after a restart the row still
tells it (`NothingLoaded`), and the session in memory tells that
the goods are in (`GoodsAreTold`), which is what refuses a second commit. The
subscription: while nothing crossed, whoever is under way has read it as it
stands and no paid month begins at or after its end (`PaidBefore`), and a job
that has found a company over stays right, since months only go on
(`SweepsAreDue`).

**WarehouseProofs** - one invariant per component, and `WarehouseInv`, their
conjunction, for the composition (a step of a part is a step of its component).

| Theorem | Invariant | What it adds to types and property |
|---|---|---|
| CountsMatch | `InventoryInv` | a draft has no counts (`DraftsAreEmpty`); the stock a count moves from was a stock (`MovedFromStock`); what staff hold (`StaffHold`); a based position is its snapshot and the movements since, and in no other open count (`BasedHold`, `CountedAlone`); the delta of an honest count is what parts books and shelf (`DeltaHolds`) |
| CountShows | `StocktakingInv` | a request holds the object under the id unless the count was made anew (`ObjectsKept`); that object has what was told (`ToldHolds`) and no more than was scanned (`ScansBound`); what each status of the import says of commits and rollbacks (`CommitsCount`) |
| ReceiptsFollow | `InvoiceInv` | what each status says of receipts and returns until a late write of a closed status (`ReceiptsStand`) |
| JournalExplains | `MovementInv` | an edit that has not moved stock has nothing to write (`EditsHold`); the rows of a shop, with those to come, add up to its stock (`StockExplained`); what is shown as imported, with what is still to be shown, has a receipt (`ReceiptsCover`) |
| PurchaseStatusTells | `PurchaseInv` | nothing: with the types the property is inductive |
| OwnShops | `EmployeeInv` | what requests and edits under way are about to write is of the employee's company (`OneCompany`); the row a fresh request read is the employee's, but for a shop its like has granted (`FreshHold`) |
| WarehouseTypes, CountsKept, PapersMatch | `WarehouseInv` | - |

Proving OwnShops corrected the model. With two requests of one employee its
property was false of the code: a request that holds a row older than an edit can
grant a shop, or write the current shop, after the edit, and the other request is
then served with a current shop that is not among its shops. TLC shows it with
two requests; the property now speaks of requests nobody wrote over since they
read (`fresh`).

**What stays with TLC.** Liveness (`ImportEnds`, `ExpiryIsNoticed`) is beyond the
prover, and the five runs of section 4 show what does not hold. Every invariant
and every action property of the other runs is a theorem.

## 6. Not modelled, and why

* Rendering, OCR, Telegram delivery, uploads, pictures, charts, layout, the
  tiles of the dashboard, ABC analysis, salary plans: input and output, or
  read-only aggregation.
* Access control by company, branch and role beyond Roles and Employees;
  validation of texts and numbers; throttling.
* Archiving, write-offs, repricing, revaluations, kits, search and listing,
  imports of clients, vehicles, photos, profiles, seller bonuses.
* Platform plans, statistics, and the removal of companies and shops.
* One-off scripts, seeds, and the backfill of receipts older than their columns.
* Database failure beyond "a transaction happened or did not".

What reading the code for the model showed and no property states:

* **Roles.** `users.service.ts` (336-560) has a second set of roles
  (`CompanyRole`), which the guard does not read. `updateCompanyRole` with
  `is_active` writes a `status` column it lacks, renaming a code updates a `role`
  column `User` lacks, defaults are made again on each call, and removal checks
  `crmRoleId`.
* **Orders.** `complete` is not reachable over HTTP (`docs/api.md:418`).
* **Till.** `searchForPos` (products.service.ts 1320-1380) has two `OR` keys, so
  the text searched for is ignored. `updatePaymentMethod` validates against the
  whole price, ignoring debt and bonus, works on drafts, and keeps an old split
  when one payment is given. A receipt can be made of a draft and is frozen; its
  balance before is derived from the balance at the first request.
* **Reports.** `sales_supply_price` (3378-3384) reduces to gross profit;
  `getProductImports` counts the whole shelf once per receipt as "left";
  `getInventoryResults` shows write-offs only; `stockBegin` of
  `buildProductPerformanceRowsApi` ignores returns; the product filter of
  `buildReportWhere` keeps whole sales; `loadCustomerFirstPurchaseDates` ignores
  partly returned first purchases; pages use OFFSET without a snapshot. The
  client dashboard counts returned sales in full, and `matchesMetricFilters`
  returns early for the filters "no purchase" and "inactive".
* **Settings.** Comments at company-settings 1296-1298 and receipts 426 promise
  exactly one default template; clearing the flag or two crossing creations do
  not keep it. `updateCompanyPaymentType` can rename or delete 'Долг', which the
  next listing makes again. After a restart dates use the default zone until a
  company is read.
* **Attributes.** Two colours share a HEX when an edit or a removal crosses
  another request; a renamed size keeps its code, so its old name cannot be
  created again; two crossing `setVariantValues` may make two variants equal; an
  entry removed while it is being assigned is taken off the goods silently.
* **Clients.** The code of a client is their count plus one; of two crossing
  creations one fails.
* **Journal.** `logManualStockAdjustments` (products.service.ts 11336-11492) runs
  outside the transaction and compares the previous stock of all shops with the
  shops the form named: a shop it did not name gets a false row to zero, a sale
  between reading and moving is not seen, and a failure leaves stock moved
  without rows. TRANSFER rows are positive at both ends, so what
  `getProductMovement` calls transferred and arrived are always equal.
* **Stocktaking** lives in memory only; accepting ignores what was scanned, and
  after a rollback answers "idempotent" with the old result.

## 7. Plan

The modules of the plan are written and their safety properties proved.

Later: revaluations, write-offs and archiving in the catalogue, the directory of
suppliers, the removal of companies.
