------------------------------ MODULE Reports ------------------------------
(***************************************************************************)
(* The reports over the papers of Adjustments (src/reports): a report      *)
(* reads the papers of a period page by page, without a snapshot, and adds *)
(* up the rows it got.  The same figure is added up in several places, by  *)
(* paper, by line, by product, by supplier and by seller, and each is      *)
(* written here as its code does it.  Averages, percentages and names are  *)
(* left out; so are the filters by shop, product and seller.               *)
(***************************************************************************)
EXTENDS ClientMetrics

CONSTANTS
    SupplyPrice,    \* purchase price of a unit
    SupplierOf,     \* the supplier of a product
    SellerOf,       \* seller of a paper, by its id
    PageSize,       \* REPORT_PAGE_SIZE
    Periods         \* bound: the periods reports are read for

ASSUME ReportsAssumption ==
    /\ SupplyPrice \in [Good -> Nat]
    /\ PageSize \in Nat \ {0}
    /\ Periods \subseteq Minutes \X Minutes

VARIABLE report     \* the report being read

reportVars == <<adjustmentVars, report>>

NoReport == [step |-> "none"]

ReportsInit == AdjustmentsInit /\ report = NoReport

-----------------------------------------------------------------------------
\* buildReportWhere: what is not cancelled, in the period.
Reported == {"paid", "returned", "partially_returned", "exchanged", "partially_exchanged"}

InPeriod(from, to) ==
    {i \in DOMAIN papers : papers[i].status \in Reported /\ papers[i].at \in from .. to}

\* orderBy paidAt desc, id desc.
Before(i, j) ==
    papers[i].at > papers[j].at \/ (papers[i].at = papers[j].at /\ i > j)

Sorted(S) ==
    [k \in 1 .. Cardinality(S) |->
        CHOOSE i \in S : Cardinality({j \in S : Before(j, i)}) = k - 1]

BeginReport(from, to) ==
    /\ report = NoReport
    /\ report' = [step |-> "reading", from |-> from, to |-> to, rows |-> <<>>,
                  moved |-> FALSE]
    /\ UNCHANGED adjustmentVars

\* Mutant: a full page is taken for the last one.
LastPageFull(page) == Len(page) <= PageSize

LastPage(page) == Len(page) < PageSize

\* loadAllReportPages: findMany with skip and take, until a page is not full.
ReadPage ==
    LET sorted == Sorted(InPeriod(report.from, report.to))
        skip == Len(report.rows)
        page == SubSeq(sorted, skip + 1,
                       IF skip + PageSize < Len(sorted) THEN skip + PageSize ELSE Len(sorted))
    IN  /\ report.step = "reading"
        /\ report' = [report EXCEPT !.rows = @ \o page,
                                    !.step = IF LastPage(page) THEN "read" ELSE "reading"]
        /\ UNCHANGED adjustmentVars

Answer ==
    /\ report.step = "read"
    /\ report' = NoReport
    /\ UNCHANGED adjustmentVars

ReportsNext ==
    \/ /\ AdjustmentsNext
       /\ report' = IF report # NoReport /\ papers' # papers
                      THEN [report EXCEPT !.moved = TRUE] ELSE report
    \/ \E p \in Periods : BeginReport(p[1], p[2])
    \/ ReadPage
    \/ Answer

ReportsSpec == ReportsInit /\ [][ReportsNext]_reportVars

-----------------------------------------------------------------------------
(* What is added up of the rows of a report, a sequence of papers or the   *)
(* places of one that a filter left.                                       *)

IsReturn(i) == papers[i].type = "return"

RetailOf(i, g) ==
    IF IsReturn(i) THEN papers[i].final[g] ELSE papers[i].units[g] * RetailPrice[g]

DiscountOf(i, g) == RetailOf(i, g) - papers[i].final[g]
SupplyOf(i, g) == papers[i].units[g] * SupplyPrice[g]

\* The lines of a paper are the goods it has units of.
LinesOf(i) == {g \in Good : papers[i].units[g] > 0}

\* getSaleSign: what returns take away from the rest.
Signed(f, S, back) == SumOver(f, S \ back) - SumOver(f, S \cap back)

\* buildSummaryMetrics: paper by paper, over its lines.
Summary(rows) ==
    LET of(f(_, _)) == [k \in DOMAIN rows |->
                           SumOver([g \in Good |-> f(rows[k], g)], LinesOf(rows[k]))]
        back == {k \in DOMAIN rows : IsReturn(rows[k])}
        all(f(_, _)) == Signed(of(f), DOMAIN rows, back)
    IN  [gross |-> all(RetailOf),
         net |-> all(LAMBDA i, g : papers[i].final[g]),
         discount |-> all(DiscountOf),
         supply |-> all(SupplyOf),
         units |-> all(LAMBDA i, g : papers[i].units[g]),
         papers |-> Cardinality(DOMAIN rows),
         returns |-> Cardinality(back),
         exchanges |-> Cardinality({k \in DOMAIN rows : papers[rows[k]].type = "exchange"})]

\* getSaleItemFacts: the lines of the papers of a period, in one query.
Facts(from, to) == UNION {{<<i, g>> : g \in LinesOf(i)} : i \in InPeriod(from, to)}

\* buildSummaryMetricsFromFacts: line by line; papers are counted once.
SummaryFromFacts(facts) ==
    LET back == {x \in facts : IsReturn(x[1])}
        all(f(_, _)) == Signed([x \in facts |-> f(x[1], x[2])], facts, back)
        of(type) == {x[1] : x \in {y \in facts : papers[y[1]].type = type}}
    IN  [gross |-> all(RetailOf),
         net |-> all(LAMBDA i, g : papers[i].final[g]),
         discount |-> all(DiscountOf),
         supply |-> all(SupplyOf),
         units |-> all(LAMBDA i, g : papers[i].units[g]),
         papers |-> Cardinality({x[1] : x \in facts}),
         returns |-> Cardinality(of("return")),
         exchanges |-> Cardinality(of("exchange"))]

\* flattenSaleItems.
Flat(rows) == UNION {{<<k, g>> : g \in LinesOf(rows[k])} : k \in DOMAIN rows}

\* aggregateProductsDetailed; aggregateProducts is its difference.
ProductRow(rows, g) ==
    LET lines == {x \in Flat(rows) : x[2] = g}
        back == {x \in lines : IsReturn(rows[x[1]])}
        units == [x \in lines |-> papers[rows[x[1]]].units[g]]
    IN  [sold |-> SumOver(units, lines \ back),
         returned |-> SumOver(units, back),
         revenue |-> Signed([x \in lines |-> RetailOf(rows[x[1]], g)], lines, back),
         net |-> Signed([x \in lines |-> papers[rows[x[1]]].final[g]], lines, back),
         supply |-> Signed([x \in lines |-> SupplyOf(rows[x[1]], g)], lines, back),
         left |-> onHand[g]]

\* buildProductGeneralTotals, of the rows getProductGeneralTableApi shows.
GeneralTotals(rows) ==
    LET lines == Flat(rows)
        back == {x \in lines : IsReturn(rows[x[1]])}
        units == [x \in lines |-> papers[rows[x[1]]].units[x[2]]]
        final == [x \in lines |-> papers[rows[x[1]]].final[x[2]]]
        full == {x \in lines : DiscountOf(rows[x[1]], x[2]) = 0}
    IN  [sold |-> SumOver(units, lines \ back),
         returned |-> SumOver(units, back),
         netUnits |-> Signed(units, lines, back),
         returnedSum |-> SumOver(final, back),
         net |-> Signed(final, lines, back),
         undiscounted |-> Signed(final, full, back)]

\* buildSupplierSalesRows: what is left of a product is counted once however many
\* lines it has.
SupplierRow(rows, s) ==
    LET lines == {x \in Flat(rows) : SupplierOf[x[2]] = s}
        back == {x \in lines : IsReturn(rows[x[1]])}
    IN  [products |-> Cardinality({x[2] : x \in lines}),
         net |-> Signed([x \in lines |-> papers[rows[x[1]]].final[x[2]]], lines, back),
         units |-> Signed([x \in lines |-> papers[rows[x[1]]].units[x[2]]], lines, back),
         left |-> SumOver(onHand, {x[2] : x \in lines})]

\* aggregateSuppliers: the same, with what came back counted again by itself.
SupplierShare(rows, s) ==
    LET lines == {x \in Flat(rows) : SupplierOf[x[2]] = s}
        back == {x \in lines : IsReturn(rows[x[1]])}
        units == [x \in lines |-> papers[rows[x[1]]].units[x[2]]]
    IN  [sold |-> Signed(units, lines, back),
         gross |-> Signed([x \in lines |-> RetailOf(rows[x[1]], x[2])], lines, back),
         returns |-> SumOver(units, back)]

\* aggregateSellersFromSales: the papers of each seller.
RowsOfSeller(rows, s) ==
    [k \in {n \in DOMAIN rows : SellerOf[rows[n]] = s} |-> rows[k]]

\* aggregateSellers: their summary; salaries are left out.
SellerRow(rows, s) == Summary(RowsOfSeller(rows, s))

\* buildGeneralShopPlot: the papers of each moment.
RowsAt(rows, at) == [k \in {n \in DOMAIN rows : papers[rows[n]].at = at} |-> rows[k]]

MomentsOf(rows) == {papers[rows[k]].at : k \in DOMAIN rows}

\* toGeneralReportMetrics: the purchase price of what was sold is worked out from
\* the other figures.
Metrics(summary) ==
    LET profit == summary.net - summary.supply
    IN  [gross |-> summary.gross, discount |-> summary.discount, net |-> summary.net,
         profit |-> profit,
         supply |-> Positive(summary.gross - summary.net - summary.discount + profit),
         sold |-> summary.units, orders |-> summary.papers, returns |-> summary.returns]

\* getGeneralReportTable: a summary for each moment that has papers.
GeneralTable(rows) == [t \in MomentsOf(rows) |-> Metrics(Summary(RowsAt(rows, t)))]

\* groupSalesByDay: the same from the papers' own amounts.
SalesByDay(rows) ==
    [t \in MomentsOf(rows) |->
        Signed([k \in DOMAIN rows |-> Sum(papers[rows[k]].final)],
               {k \in DOMAIN rows : papers[rows[k]].at = t},
               {k \in DOMAIN rows : IsReturn(rows[k])})]

\* getSalesByAttribute: a row for the goods that share the value of an attribute.
AttributeRow(rows, goods) ==
    LET lines == {x \in Flat(rows) : x[2] \in goods}
        back == {x \in lines : IsReturn(rows[x[1]])}
        units == [x \in lines |-> papers[rows[x[1]]].units[x[2]]]
    IN  [sold |-> SumOver(units, lines \ back),
         returned |-> SumOver(units, back),
         revenue |-> Signed([x \in lines |-> papers[rows[x[1]]].final[x[2]]], lines, back)]

\* A sum of numbers of which some may be negative.
SumSigned(f) ==
    Signed([x \in DOMAIN f |-> IF f[x] < 0 THEN 0 - f[x] ELSE f[x]], DOMAIN f,
           {x \in DOMAIN f : f[x] < 0})

\* getProductSalesReportApi: the best products have a row each, the others one.
TopAndOthers(rows, top) ==
    LET net == [g \in Good |-> AttributeRow(rows, {g}).revenue]
    IN  [top |-> [g \in top |-> net[g]], others |-> SumSigned([g \in Good \ top |-> net[g]])]

\* getProductPerformanceReportApi: the same, of the detailed rows.
Performance(rows, top) ==
    LET row == [g \in Good |-> ProductRow(rows, g)]
    IN  [top |-> [g \in top |-> row[g].net],
         others |-> SumSigned([g \in Good \ top |-> row[g].net]),
         othersSold |-> SumSigned([g \in Good \ top |-> row[g].sold])]

\* calculateProductMetric: what went out, exchanges with it; returns are skipped.
SoldMetric(rows, field) ==
    LET lines == {x \in Flat(rows) : ~IsReturn(rows[x[1]])}
        units == [x \in lines |-> papers[rows[x[1]]].units[x[2]]]
        cut == {x \in lines : DiscountOf(rows[x[1]], x[2]) > 0}
    IN  CASE field = "sold_with_discount" -> SumOver(units, cut)
          [] field = "sold_qty" -> SumOver(units, lines)
          [] OTHER -> SumOver([x \in lines |-> papers[rows[x[1]]].final[x[2]]], lines)

\* getGeneralProductReport: the ranking of the products that went out.
Ranking(rows) ==
    [g \in Good |-> SumOver([k \in DOMAIN rows |-> papers[rows[k]].units[g]],
                            {k \in DOMAIN rows : ~IsReturn(rows[k])})]

\* getOrderReturns: the lines that came back.
OrderReturns(rows) ==
    LET lines == {x \in Flat(rows) : IsReturn(rows[x[1]])}
    IN  [count |-> Cardinality(lines),
         units |-> SumOver([x \in lines |-> papers[rows[x[1]]].units[x[2]]], lines),
         amount |-> SumOver([x \in lines |-> papers[rows[x[1]]].final[x[2]]], lines)]

\* getCustomers: what the customer took, without what came back.
CustomerRow(rows) ==
    LET bought == {k \in DOMAIN rows : ~IsReturn(rows[k])}
    IN  [count |-> Cardinality(bought),
         amount |-> SumOver([k \in bought |-> Sum(papers[rows[k]].final)], bought)]

\* getAbcAnalysis: the segment of a product, by the share of the products that
\* sell no less, its own included.
Segment(rows, g) ==
    LET net == [h \in Good |-> ProductRow(rows, h).net]
        total == SumSigned(net)
        running == SumSigned([h \in {k \in Good : k = g \/ net[k] > net[g]} |-> net[h]])
    IN  IF total <= 0 \/ 100 * running <= 80 * total THEN "A"
        ELSE IF 100 * running <= 95 * total THEN "B" ELSE "C"

-----------------------------------------------------------------------------
(* Stock in the reports.                                                   *)

\* buildStockMovementWhere and sumMovementsByProduct.
Moved(g, type, from) ==
    Cardinality({k \in DOMAIN moves :
        moves[k].good = g /\ moves[k].type = type /\ moves[k].at >= from})

\* Mutant: goods that came back are not taken off.
StartWithoutReturns(rows, g, from) ==
    onHand[g] - Moved(g, "PURCHASE", from) + ProductRow(rows, g).sold
        + Moved(g, "WRITE_OFF", from) + Moved(g, "TRANSFER", from)

\* buildProductEffectiveness: the stock at the start of a period that ends now.
\* Transfers are added, whichever way they went; nobody writes a WRITE_OFF row.
StartStock(rows, g, from) ==
    onHand[g] - Moved(g, "PURCHASE", from) - ProductRow(rows, g).returned
        + ProductRow(rows, g).sold + Moved(g, "WRITE_OFF", from) + Moved(g, "TRANSFER", from)

\* buildProductPerformanceRowsApi adds back what was sold and leaves returns out.
BeginStock(rows, g, from) ==
    onHand[g] + ProductRow(rows, g).sold + Moved(g, "WRITE_OFF", from)
        - Moved(g, "PURCHASE", from)

\* buildImportReportRows, getProductImports: of a receipt, what is no longer in
\* the shop counts as sold.
ImportRow(g, quantity) ==
    LET sold == Positive(quantity - onHand[g])
    IN  [sold |-> sold, left |-> Positive(quantity - sold)]

\* buildStockReportRows, buildProductStocks: a row for each good of the shop.
StockRow(g) ==
    [quantity |-> onHand[g], supply |-> onHand[g] * SupplyPrice[g],
     retail |-> onHand[g] * RetailPrice[g]]

\* getProductGeneralReportApi: what went out and came back beside what is left.
ProductReport(rows) ==
    LET totals == GeneralTotals(rows)
        stock(f(_)) == SumOver([g \in Good |-> f(StockRow(g))], Good)
    IN  [sold |-> totals.sold, returned |-> totals.returned, net |-> totals.net,
         left |-> stock(LAMBDA r : r.quantity),
         leftSupply |-> stock(LAMBDA r : r.supply),
         leftRetail |-> stock(LAMBDA r : r.retail)]

\* loadProductMovements: the movements of a type since a moment.
MovesSince(type, from) ==
    {k \in DOMAIN moves : moves[k].type = type /\ moves[k].at >= from}

\* getImportReportTotalsApi: the rows of the receipts, each of one unit.
ImportTotals(from) ==
    LET receipts == MovesSince("PURCHASE", from)
        row == [k \in receipts |-> ImportRow(moves[k].good, 1)]
    IN  [imported |-> Cardinality(receipts),
         sold |-> SumOver([k \in receipts |-> row[k].sold], receipts),
         left |-> SumOver([k \in receipts |-> row[k].left], receipts)]

\* getProductImports: the same receipts; what is left is the whole shelf, once
\* for each of them.
ImportSummary(from) ==
    LET receipts == MovesSince("PURCHASE", from)
        price(f) == SumOver([k \in receipts |-> f[moves[k].good]], receipts)
    IN  [imported |-> Cardinality(receipts),
         sold |-> SumOver([k \in receipts |-> Positive(1 - onHand[moves[k].good])], receipts),
         purchase |-> price(SupplyPrice), revenue |-> price(RetailPrice), left |-> price(onHand)]

-----------------------------------------------------------------------------
(* getGeneralCustomerReport.                                               *)

CustomerRows(from, to) == {i \in InPeriod(from, to) : ~IsReturn(i)}

\* loadCustomerFirstPurchaseDates: of the papers ever paid or returned in full,
\* and of the ones in the period.
FirstPurchases(selected) ==
    {papers[i].at : i \in selected \cup
        {j \in DOMAIN papers : papers[j].status \in {"paid", "returned"} /\ ~IsReturn(j)}}

CustomerType(from, to) ==
    LET selected == CustomerRows(from, to)
    IN  IF \E t \in FirstPurchases(selected) : \A i \in selected : t < papers[i].at
        THEN "returned" ELSE "new"

-----------------------------------------------------------------------------
\* There are papers and nothing is under way: giving up leaves such a state.
AtRest == papers # <<>> /\ report = NoReport /\ \A c \in Clerk : Free(c)

Everything == Sorted(InPeriod(0, LastMinute + Ahead))

RowsRecord ==
    [step : {"reading", "read"}, from : Minutes, to : Minutes, rows : Seq(Ids),
     moved : BOOLEAN]

ReportsTypeOK ==
    /\ AdjustmentsTypeOK
    /\ report \in {NoReport} \cup RowsRecord

\* A report over several pages has every paper of its period once, unless a
\* paper was written since its first page.
ReportCountsOnce ==
    report.step = "read" /\ ~report.moved =>
        /\ Len(report.rows) = Cardinality(InPeriod(report.from, report.to))
        /\ {report.rows[k] : k \in DOMAIN report.rows} = InPeriod(report.from, report.to)

\* The rows of some types that brought goods, or took them away.
Shifted(types, way) ==
    {k \in DOMAIN moves : moves[k].type \in types /\ moves[k].way = way}

Flow(g, types, way, from) ==
    Cardinality({k \in Shifted(types, way) : moves[k].good = g /\ moves[k].at >= from})

Net(g, types, from) == Flow(g, types, "in", from) - Flow(g, types, "out", from)

\* Whatever was sold, brought back, exchanged, cancelled, received, sent away and
\* adjusted, the stock a report gives for the start of its period is the stock
\* there was, but for two kinds of movement in the period: a transfer that
\* reached the shop is on it twice, and an adjustment is taken for stock there
\* had always been.  The performance table knows of receipts only, so there
\* transfers are on it as well, and what came back.
StockWasThere(from) ==
    LET rows == Sorted(InPeriod(from, LastMinute + Ahead))
        earlier == Sorted(InPeriod(0, from - 1))
    IN  \A g \in Good :
            LET was == OpeningStock
                    - ProductRow(earlier, g).sold + ProductRow(earlier, g).returned
                    + Net(g, MoveTypes, 0) - Net(g, MoveTypes, from)
                received == Moved(g, "PURCHASE", 0)
            IN  /\ StartStock(rows, g, from) =
                      was + 2 * Flow(g, {"TRANSFER"}, "in", from) + Net(g, {"ADJUSTMENT"}, from)
                /\ ImportRow(g, received).left <= StockRow(g).quantity
                /\ BeginStock(rows, g, from) =
                      was + ProductRow(rows, g).returned
                          + Net(g, {"TRANSFER", "ADJUSTMENT"}, from)

\* What the documents of all time bring and take away is what is left; and
\* receipts are never said to have sold more than what left the shop.
StockAddsUp ==
    LET whole == ProductReport(Everything)
        imports == ImportTotals(0)
        gone == Cardinality(Shifted(MoveTypes, "out"))
    IN  /\ whole.left + whole.sold - whole.returned
              = Cardinality(Good) * OpeningStock + imports.imported
                + Cardinality(Shifted({"TRANSFER", "ADJUSTMENT"}, "in")) - gone
        /\ imports.sold <= Positive(whole.sold - whole.returned) + gone
        /\ imports.sold = ImportSummary(0).sold

ReportsMatchStock ==
    AtRest => StockAddsUp /\ \A from \in Minutes : StockWasThere(from)

\* The client's record, the sums of the reports and the halves of an exchange
\* agree: what the client is said to have bought is what the reports say was
\* sold, to the rounding of each line, unless an older total was written over
\* it; and an exchange is undone as a whole.
ClientAgrees ==
    LET net == Summary(Everything).net
        slack == Cardinality(Facts(0, LastMinute + Ahead))
    IN  ~behind => /\ books.visits = Summary(Everything).papers - Summary(Everything).returns
                   /\ books.total <= Positive(net) + slack
                   /\ Positive(net) <= books.total + slack

ExchangesWhole ==
    \A i, j \in DOMAIN papers :
        papers[i].group # NoPaper /\ papers[i].group = papers[j].group =>
            (Live(papers, i) <=> Live(papers, j))

\* A draft without lines can be paid too.
Bare == {i \in InPeriod(0, LastMinute + Ahead) : LinesOf(i) = {}}

\* One figure, added up in many ways; but what is counted line by line misses
\* the papers that have none.
SumsAgree ==
    LET rows == Everything
        summary == Summary(rows)
        totals == GeneralTotals(rows)
        product == [g \in Good |-> ProductRow(rows, g)]
        suppliers == {SupplierOf[g] : g \in Good}
        sellers == {SellerOf[i] : i \in Ids}
        back == OrderReturns(rows)
        net == summary.net
    IN  /\ SummaryFromFacts(Facts(0, LastMinute + Ahead)) =
              [summary EXCEPT !.papers = @ - Cardinality(Bare)]
        /\ SumSigned([g \in Good |-> product[g].net]) = net
        /\ SumSigned([s \in suppliers |-> SupplierRow(rows, s).net]) = net
        /\ SumSigned([s \in suppliers |-> SupplierShare(rows, s).gross]) = summary.gross
        /\ SumSigned([s \in suppliers |-> SupplierShare(rows, s).returns]) = back.units
        /\ SumSigned([s \in sellers |-> SellerRow(rows, s).net]) = net
        /\ SumSigned([t \in MomentsOf(rows) |-> GeneralTable(rows)[t].net]) = net
        /\ SumSigned(SalesByDay(rows)) = net
        /\ totals.net = net /\ totals.netUnits = summary.units
        /\ CustomerRow(rows).amount - back.amount = net
        /\ CustomerRow(rows).count = summary.papers - summary.returns
        /\ back.amount = totals.returnedSum /\ back.units = totals.returned
        /\ SoldMetric(rows, "sold_qty") = totals.sold
        /\ Sum(Ranking(rows)) = totals.sold
        /\ \A g, h \in Good :
              product[g].net > product[h].net /\ Segment(rows, h) = "A" =>
                  Segment(rows, g) = "A"
        /\ \A top \in SUBSET Good :
              LET sales == TopAndOthers(rows, top)
                  performance == Performance(rows, top)
              IN  /\ SumSigned(sales.top) + sales.others = net
                  /\ SumSigned(performance.top) + performance.others = net
                  /\ AttributeRow(rows, top).revenue + AttributeRow(rows, Good \ top).revenue = net

\* A customer who comes back is known as one, unless part of everything bought
\* before has been returned or exchanged, and nobody else is.
CustomersKnown ==
    \A from \in Minutes :
        LET earlier == {i \in Purchases(papers) : papers[i].at < from}
            type == CustomerType(from, LastMinute + Ahead)
        IN  CustomerRows(from, LastMinute + Ahead) # {} =>
              /\ earlier = {} => type = "new"
              /\ (\E i \in earlier : papers[i].status \in {"paid", "returned"}) =>
                    type = "returned"

ReportsMatchBooks ==
    AtRest => ClientAgrees /\ MetricsAgree /\ ExchangesWhole /\ SumsAgree /\ CustomersKnown

=============================================================================
