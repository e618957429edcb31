---------------------------- MODULE SalesReport ----------------------------
(***************************************************************************)
(* What the sales report counts (internal/reports/sales.go, sales_sql.go,  *)
(* repo.go) and how the page presents it (internal/admin/reports.go).      *)
(* AggregateSales is the program's own reference definition; Sales is what *)
(* the SQL does: group by the raw value, then map the key and merge.       *)
(* Amounts are integers; a day, a product and a point are small numbers.   *)
(***************************************************************************)
EXTENDS Integers, Sequences, FiniteSets, FiniteSetsExt, SequencesExt

CONSTANTS MaxSales,        \* bound: orders in the range
          SalePoints,      \* points of sale
          PointLabels,     \* display names a point may have; "" is no name
          Baskets,         \* bound: the item lists an order may have
          ReportDays,      \* bound: the days of the report, 1..n
          Brand,           \* products.brand of a product, "" when it has none
          TopCategory,     \* top-level category of a product
          TopLimit         \* reportsTopLimit

ASSUME ReportAssumption ==
    /\ IsFiniteSet(ReportDays) /\ TopLimit \in Nat
    /\ \A b \in Baskets : /\ b \in Seq(Range(b))
                          /\ \A i \in DOMAIN b : /\ b[i].qty \in Nat \ {0} /\ b[i].price \in Nat
                                                /\ b[i].product \in DOMAIN Brand

VARIABLES book,    \* the orders of the range
          labels   \* points_of_sale.name

reportVars == <<book, labels>>

NoPoint == "none"

ReportInit == book = <<>> /\ labels \in [SalePoints -> PointLabels]

-----------------------------------------------------------------------------
(* Orders come into the range and change, as the order module has it.      *)

Lines(o) == DOMAIN book[o].items
LineRevenue(o, i) == book[o].items[i].price * book[o].items[i].qty
ItemCount(o) == SumFunction([i \in Lines(o) |-> book[o].items[i].qty])
TotalAmount(o) == book[o].fee + SumFunction([i \in Lines(o) |-> LineRevenue(o, i)])

(* External to this module: an order is placed, cancelled or paid.         *)
OrderChanges ==
    /\ UNCHANGED labels
    /\ \/ /\ Len(book) < MaxSales
          /\ \E d \in ReportDays, b \in Baskets, p \in SalePoints \cup {NoPoint},
                online \in BOOLEAN, fee \in {0, 1} :
                book' = Append(book, [day |-> d, items |-> b, point |-> p, fee |-> fee,
                                      status |-> "placed", online |-> online, paid |-> FALSE])
       \/ \E o \in DOMAIN book : book[o].status = "placed" /\ book' = [book EXCEPT ![o].status = "cancelled"]
       \/ \E o \in DOMAIN book : book[o].online /\ ~book[o].paid /\ book' = [book EXCEPT ![o].paid = TRUE]

ReportNext == OrderChanges

ReportSpec == ReportInit /\ [][ReportNext]_reportVars

-----------------------------------------------------------------------------
(* The reference: AggregateSales over the orders in memory.                *)

\* Mutant: an online order counts before it is paid.
CountsAsSaleMut(o) == book[o].status # "cancelled"

CountsAsSale(o) == book[o].status # "cancelled" /\ (book[o].online => book[o].paid)
sales == {o \in DOMAIN book : CountsAsSale(o)}

pointKey(p) ==
    IF p = NoPoint THEN "unknown" ELSE IF labels[p] = "" THEN p ELSE labels[p]

Row(orders, items, revenue) == [orders |-> orders, items |-> items, revenue |-> revenue]

(* An order's day and point, a line's product.                             *)
dayOf == [o \in DOMAIN book |-> book[o].day]
pointOf == [o \in DOMAIN book |-> book[o].point]
products == [p \in DOMAIN Brand |-> p]

orderTotals(S) ==
    Row(Cardinality(S), SumFunction([o \in S |-> ItemCount(o)]), SumFunction([o \in S |-> TotalAmount(o)]))

(* Whole orders under a key: counts, summed quantities, order totals.      *)
aggregateByOrder(key) ==
    [k \in {key[o] : o \in sales} |->
        orderTotals({o \in sales : key[o] = k})]

(* Lines under a key: distinct orders, quantities, price times quantity.   *)
saleLines == UNION {{o} \X Lines(o) : o \in sales}
aggregateByItem(key) ==
    [k \in {key[book[l[1]].items[l[2]].product] : l \in saleLines} |->
        LET S == {l \in saleLines : key[book[l[1]].items[l[2]].product] = k}
        IN  Row(Cardinality({l[1] : l \in S}),
                SumFunction([l \in S |-> book[l[1]].items[l[2]].qty]),
                SumFunction([l \in S |-> LineRevenue(l[1], l[2])]))]

AggregateSales(groupBy) ==
    CASE groupBy = "day" -> aggregateByOrder(dayOf)
      [] groupBy = "point" -> aggregateByOrder([o \in DOMAIN book |-> pointKey(book[o].point)])
      [] groupBy = "product" -> aggregateByItem(products)

-----------------------------------------------------------------------------
(* The queries.                                                            *)

(* querySalesRows: the mapped keys of the groups, equal ones merged.       *)
querySalesRows(rows, mapKey) ==
    [k \in {mapKey[g] : g \in DOMAIN rows} |->
        LET S == {g \in DOMAIN rows : mapKey[g] = k}
        IN  Row(SumFunction([g \in S |-> rows[g].orders]),
                SumFunction([g \in S |-> rows[g].items]),
                SumFunction([g \in S |-> rows[g].revenue]))]

(* salesByOrder groups by the raw column; SaleConditionSQL is CountsAsSale *)
(* over NULLs: an unpaid online order has no 'paid' status to compare.     *)
salesByOrder(column) ==
    LET S == {o \in DOMAIN book : book[o].status # "cancelled" /\ (~book[o].online \/ book[o].paid)}
    IN  [g \in {column[o] : o \in S} |->
            orderTotals({o \in S : column[o] = g})]

Sales(groupBy) ==
    CASE groupBy = "day" -> querySalesRows(salesByOrder(dayOf), [d \in ReportDays |-> d])
      [] groupBy = "point" -> querySalesRows(salesByOrder(pointOf), [p \in SalePoints \cup {NoPoint} |-> pointKey(p)])
      [] groupBy = "product" -> querySalesRows(aggregateByItem(products), products)

BrandSales == aggregateByItem(Brand)
CategorySales == aggregateByItem(TopCategory)

-----------------------------------------------------------------------------
(* The page.                                                               *)

Total(rows, field) == SumFunction([k \in DOMAIN rows |-> rows[k][field]])

(* Sums of the day rows, and the mean order.                               *)
buildStatCards(dayRows) ==
    [revenue |-> Total(dayRows, "revenue"), orders |-> Total(dayRows, "orders"),
     items |-> Total(dayRows, "items")]

Round(a, b) == (2 * a + b) \div (2 * b)

(* One bar per day of the range, against the tallest; a day that sold      *)
(* anything keeps a visible sliver.                                        *)
buildBars(dayRows) ==
    LET revenue(d) == IF d \in DOMAIN dayRows THEN dayRows[d].revenue ELSE 0
        peak == Max({0} \cup {revenue(d) : d \in ReportDays})
        pct(d) == IF peak = 0 THEN 0 ELSE Round(100 * revenue(d), peak)
    IN  [d \in ReportDays |-> IF revenue(d) > 0 THEN Max({2, pct(d)}) ELSE pct(d)]

(* Ranked by a field, key order among equals, cut after the limit.         *)
Ranked(rows, keys, field, limit) ==
    LET score(k) == rows[keys[k]][field]
        better(j, k) == score(j) > score(k) \/ (score(j) = score(k) /\ j < k)
        at(n) == CHOOSE k \in DOMAIN keys :
                    Cardinality({j \in DOMAIN keys : better(j, k)}) = n - 1
    IN  [n \in 1..Min({limit, Len(keys)}) |-> keys[at(n)]]

buildTopProducts(productRows) ==
    Ranked(productRows, SetToSeq(DOMAIN productRows), "items", TopLimit)
buildTopBrands(brandRows) ==
    Ranked(brandRows, SetToSeq(DOMAIN brandRows), "revenue", TopLimit)
buildPointBars(pointRows) ==
    Ranked(pointRows, SetToSeq(DOMAIN pointRows), "revenue", Cardinality(DOMAIN pointRows))

-----------------------------------------------------------------------------
(* The SQL report is the reference report for every grouping, also when    *)
(* points share a display name; every section of the page adds up to the   *)
(* same money: brands, categories and products to the goods, days and      *)
(* points to the goods with the delivery fees; a day with sales has a bar; *)
(* nothing unlisted outsells the list of top products or brands.           *)
ReportAddsUp ==
    LET day == Sales("day")
        fees == SumFunction([o \in sales |-> book[o].fee])
        goods == Total(Sales("product"), "revenue")
        unbeaten(list, rows, field) ==
            \A k \in DOMAIN rows \ ToSet(list), n \in DOMAIN list :
                rows[k][field] <= rows[list[n]][field]
    IN  /\ \A g \in {"day", "point", "product"} : Sales(g) = AggregateSales(g)
        /\ Total(BrandSales, "revenue") = goods /\ Total(CategorySales, "revenue") = goods
        /\ buildStatCards(day).revenue = goods + fees
        /\ Total(Sales("point"), "revenue") = goods + fees
        /\ buildStatCards(day).orders = Cardinality(sales)
        /\ buildStatCards(day).items = Total(Sales("product"), "items")
        /\ \A d \in ReportDays : buildBars(day)[d] > 0 <=>
              d \in DOMAIN day /\ day[d].revenue > 0
        /\ unbeaten(buildTopProducts(Sales("product")), Sales("product"), "items")
        /\ unbeaten(buildTopBrands(BrandSales), BrandSales, "revenue")
        /\ unbeaten(buildPointBars(Sales("point")), Sales("point"), "revenue")
=============================================================================
