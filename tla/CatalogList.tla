----------------------------- MODULE CatalogList -----------------------------
(***************************************************************************)
(* What visitors and staff see of the catalogue: the shop's, the API's and *)
(* the panel's product lists with their filters, order, pages and facets   *)
(* (internal/catalog/product.go, facets.go, search.go), the product page   *)
(* and the quick-buy window (internal/web/catalog_view.go).  The tables    *)
(* stand still while a visitor walks through them.  Products may have been *)
(* created at one instant, and their ids are in no relation to it; the     *)
(* number of a size or colour is its place in the collation; a search word *)
(* matches a text whose word it is.                                        *)
(***************************************************************************)
EXTENDS ShopDirectory, SequencesExt

CONSTANTS UnitsSold,        \* product_sales: product -> units
          CreatedAt,        \* products.created_at: product -> instant
          ShopQueries,      \* query strings of the shop, the API and the panel
          ListPageSize,     \* shopPageSize, DefaultPageSize, page_size
          MaxSearchTokens,
          MaxPage           \* bound: math.MaxInt32 / pageSize

VARIABLES visit,   \* the list on the screen, and the pages walked through
          detail   \* the product page, or the quick-buy window

listVars == <<visit, detail>>

NoVisit == [kind |-> "none"]
ListInit == visit = NoVisit /\ detail = NoVisit

-----------------------------------------------------------------------------
(* The category forest.                                                    *)

SubtreeIDs(cats, roots) ==
    LET level[n \in 0..Cardinality(DOMAIN cats)] ==
            IF n = 0 THEN roots
            ELSE level[n - 1] \cup {c \in DOMAIN cats : cats[c].parent \in level[n - 1]}
    IN  level[Cardinality(DOMAIN cats)]

(* Roots and what hangs from them: a circle of categories hangs from none. *)
buildTree(cats) == SubtreeIDs(cats, {c \in DOMAIN cats : cats[c].parent = ""})

findCategory(cats, slug) ==
    SubtreeIDs(cats, {c \in buildTree(cats) : cats[c].slug = slug})

(* The API's list takes the category itself, its facets the subtree.       *)
ResolveID(cats, slug) == {c \in DOMAIN cats : cats[c].slug = slug}

(* An unknown category of the panel filters nothing; a subcategory stands  *)
(* for itself, a category for everything below it.                         *)
resolveCategoryFilter(cats, slug, sub) ==
    LET top == {c \in buildTree(cats) : cats[c].slug = slug}
        chosen == {c \in DOMAIN cats : cats[c].slug = sub /\ cats[c].parent \in top}
    IN  IF chosen # {} THEN chosen ELSE SubtreeIDs(cats, top)

-----------------------------------------------------------------------------
(* Which products a list holds.                                            *)

variantPrices(p) ==
    IF VariantsOf(shop, p) = {} THEN {shop.products[p].price}
    ELSE {effectivePrice(shop, v) : v \in VariantsOf(shop, p)}
minPriceExpr(p) == Min(variantPrices(p))
maxPriceExpr(p) == Max(variantPrices(p))

searchTokens(words) == {words[i] : i \in 1..Min({Len(words), MaxSearchTokens})}
searchCondition(p, words) ==
    searchTokens(words) \subseteq
        {lower(shop.products[p].name), lower(shop.products[p].brand)}
            \cup {lower(shop.variants[v].sku) : v \in VariantsOf(shop, p)}

ActivePoints == {pt \in DOMAIN directory.points : directory.points[pt].active}
soldAtActivePoint(v) == \E pt \in ActivePoints : quantityAt(shop, v, pt) > 0

(* Size, colour and stock must meet in one variant.                        *)
hasVariant(p, f) ==
    \E v \in VariantsOf(shop, p) :
        /\ f.size \in {NoText, shop.variants[v].size}
        /\ f.color \in {NoText, shop.variants[v].color}
        /\ f.inStock => soldAtActivePoint(v)

buildListConditions(f) ==
    {p \in DOMAIN shop.products :
        /\ shop.products[p].active
        /\ f.ids = {} \/ shop.products[p].category \in f.ids
        /\ f.lo # NoPrice => maxPriceExpr(p) >= f.lo
        /\ f.hi # NoPrice => minPriceExpr(p) <= f.hi
        /\ searchCondition(p, f.words)
        /\ (f.size # NoText \/ f.color # NoText \/ f.inStock) => hasVariant(p, f)}

buildAdminListConditions(f) ==
    {p \in DOMAIN shop.products :
        /\ f.ids = {} \/ shop.products[p].category \in f.ids
        /\ searchCondition(p, f.words)
        /\ f.oos # "" => \A v \in VariantsOf(shop, p) : quantityAt(shop, v, f.oos) = 0}

newer(a, b) == CreatedAt[a] > CreatedAt[b] \/ (CreatedAt[a] = CreatedAt[b] /\ a < b)

listOrderBy(sort, a, b) ==
    CASE sort = "price_asc" ->
            minPriceExpr(a) < minPriceExpr(b) \/ (minPriceExpr(a) = minPriceExpr(b) /\ a < b)
      [] sort = "price_desc" ->
            minPriceExpr(a) > minPriceExpr(b) \/ (minPriceExpr(a) = minPriceExpr(b) /\ a < b)
      [] sort = "popular" -> UnitsSold[a] > UnitsSold[b] \/ (UnitsSold[a] = UnitsSold[b] /\ newer(a, b))
      [] OTHER -> newer(a, b)

\* Mutant: the offset of the page after.
safeOffsetMut(page) == page * ListPageSize

(* The clamp keeps (page - 1) * pageSize inside an int32.                  *)
safeOffset(page) == IF page <= 1 THEN 0 ELSE (Min({page, MaxPage}) - 1) * ListPageSize

(* LIMIT and OFFSET of the ordered rows.                                   *)
List(rows, page) ==
    SubSeq(rows, safeOffset(page) + 1, Min({safeOffset(page) + ListPageSize, Len(rows)}))
ordered(found, sort) == SetToSortSeq(found, LAMBDA a, b : listOrderBy(sort, a, b))

(* The panel's query orders by created_at alone: every time it runs, rows  *)
(* of one instant may come in any order.                                   *)
adminOrders(found) ==
    {rows \in SetToSeqs(found) :
        \A i, j \in DOMAIN rows : i < j => CreatedAt[rows[i]] >= CreatedAt[rows[j]]}

(* The filter options of a scope: category and search, nothing else.       *)
Facets(scope) ==
    LET vs == UNION {VariantsOf(shop, p) : p \in scope}
        prices == UNION {variantPrices(p) : p \in scope}
    IN  [sizes |-> {shop.variants[v].size : v \in vs} \ {NoText},
         colors |-> {shop.variants[v].color : v \in vs} \ {NoText},
         lo |-> IF prices = {} THEN NoPrice ELSE Min(prices),
         hi |-> IF prices = {} THEN NoPrice ELSE Max(prices)]

-----------------------------------------------------------------------------
(* The lists of the site, the API and the panel.                           *)

(* A list without filters.                                                 *)
Anything ==
    [ids |-> {}, size |-> NoText, color |-> NoText, lo |-> NoPrice, hi |-> NoPrice, words |-> <<>>,
     inStock |-> FALSE, oos |-> ""]

(* Zero is no bound, and bounds the wrong way round are swapped.           *)
parseShopParams(q) ==
    IF q.lo > 0 /\ q.hi > 0 /\ q.lo > q.hi THEN [q EXCEPT !.lo = q.hi, !.hi = q.lo] ELSE q
listFilter(q, ids) ==
    [Anything EXCEPT !.ids = ids, !.size = q.size, !.color = q.color, !.words = q.words, !.inStock = q.inStock,
                     !.lo = IF q.lo > 0 THEN q.lo ELSE NoPrice, !.hi = IF q.hi > 0 THEN q.hi ELSE NoPrice]
parseListFilter(q, ids) ==
    [Anything EXCEPT !.ids = ids, !.size = q.size, !.color = q.color, !.words = q.words, !.inStock = q.inStock,
                     !.lo = q.lo, !.hi = q.hi]

(* Only a point that exists is taken over.                                 *)
resolveProductsPoint(q) == IF q.point \in DOMAIN directory.points THEN q.point ELSE ""
adminFilter(q, point, ids) ==
    [Anything EXCEPT !.ids = ids, !.words = q.words, !.oos = IF q.oos THEN point ELSE ""]

totalPages(total) == IF total = 0 THEN 1 ELSE (total + ListPageSize - 1) \div ListPageSize

(* The photo of a card: a general one before those of a colour.            *)
PrimaryForProducts(p) ==
    LET general == SelectSeq(imagesOf(shop, p), LAMBDA img : img[2] = NoText)
        all == general \o imagesOf(shop, p)
    IN  IF all = <<>> THEN NoKey ELSE all[1][1]

(* "from" when the variants differ in price.                               *)
ProductCard(p) ==
    [id |-> p, price |-> minPriceExpr(p), from |-> maxPriceExpr(p) > minPriceExpr(p),
     photo |-> PrimaryForProducts(p)]

(* The pages walked through so far, as long as they follow each other.     *)
walked(rows, page) ==
    IF visit.kind # "none" /\ page = visit.page + 1 THEN visit.walk \o List(rows, page) ELSE List(rows, page)
walkedFrom(page) == IF visit.kind # "none" /\ page = visit.page + 1 THEN visit.first ELSE page

(* The page asked for is looked up as asked, and shown as the last one if  *)
(* there is no such page.                                                  *)
buildShopData(q, f, rows, scope) ==
    visit' = [kind |-> "web", q |-> q, page |-> Min({q.page, totalPages(Len(rows))}),
              first |-> walkedFrom(q.page), total |-> Len(rows), walk |-> walked(rows, q.page),
              cards |-> [i \in DOMAIN List(rows, q.page) |-> ProductCard(List(rows, q.page)[i])],
              filter |-> f, facets |-> Facets(scope),
              hasNext |-> q.page < totalPages(Len(rows))]

(* The site's shop and category pages; an unknown category is not found.   *)
shopPage(q, f) ==
    /\ q.slug = "" \/ f.ids # {}
    /\ buildShopData(q, f, ordered(buildListConditions(f), q.sort),
                     buildListConditions([Anything EXCEPT !.ids = f.ids]))
shopAction(q) ==
    shopPage(q, listFilter(parseShopParams(q),
                           IF q.slug = "" THEN {} ELSE findCategory(directory.categories, q.slug)))

(* GET /api/v1/products: no links, the app counts pages by the total.      *)
apiList(q, f, rows) ==
    /\ q.slug = "" \/ f.ids # {}
    /\ visit' = [kind |-> "api", q |-> q, page |-> q.page, first |-> walkedFrom(q.page), total |-> Len(rows),
                 walk |-> walked(rows, q.page), filter |-> f, hasNext |-> q.page * ListPageSize < Len(rows)]
apiAction(q) ==
    LET f == parseListFilter(q, IF q.slug = "" THEN {} ELSE ResolveID(directory.categories, q.slug))
    IN  apiList(q, f, ordered(buildListConditions(f), q.sort))

(* GET /admin/products: the rows with their stock, at one point too.       *)
StockAtPoint(p, points) ==
    MapThenSumSet(LAMBDA c : quantityAt(shop, c[1], c[2]), VariantsOf(shop, p) \X points)
buildProductRow(p, point) ==
    [id |-> p, stock |-> StockAtPoint(p, DOMAIN directory.points),
     atPoint |-> IF point = "" THEN NoRow ELSE StockAtPoint(p, {point})]
productsListPage(q, point, f, rows) ==
    visit' = [kind |-> "admin", q |-> q, page |-> q.page, first |-> walkedFrom(q.page), total |-> Len(rows),
              walk |-> walked(rows, q.page), filter |-> f, hasNext |-> q.page < totalPages(Len(rows)),
              cards |-> [i \in DOMAIN List(rows, q.page) |-> buildProductRow(List(rows, q.page)[i], point)]]
adminAction(q) ==
    LET f == adminFilter(q, resolveProductsPoint(q), resolveCategoryFilter(directory.categories, q.slug, q.sub))
    IN  \E rows \in adminOrders(buildAdminListConditions(f)) :
            productsListPage(q, resolveProductsPoint(q), f, rows)

listPage(kind, q) ==
    \/ kind = "web" /\ shopAction(q)
    \/ kind = "api" /\ apiAction(q)
    \/ kind = "admin" /\ adminAction(q)

(* A list is opened at any page; then its link to the next page is         *)
(* followed.                                                               *)
browse ==
    /\ detail = NoVisit
    /\ \/ visit = NoVisit /\ \E q \in ShopQueries : \E kind \in q.kinds : listPage(kind, q)
       \/ visit # NoVisit /\ visit.hasNext /\ listPage(visit.kind, [visit.q EXCEPT !.page = visit.page + 1])
    /\ UNCHANGED <<shop, directoryVars, detail>>

-----------------------------------------------------------------------------
(* The product page and the quick-buy window.                              *)

ListByProduct(p) ==
    SetToSortSeq(VariantsOf(shop, p), LAMBDA v, w :
        LET a == shop.variants[v]
            b == shop.variants[w]
        IN  a.size[2] < b.size[2] \/ (a.size[2] = b.size[2] /\ a.color[2] < b.color[2]))

(* What all points hold of a variant, closed ones too.                     *)
qtyByVariant(v) == MapThenSumSet(LAMBDA pt : quantityAt(shop, v, pt), DOMAIN directory.points)

(* With no choice yet the first variant in stock, else the first listed.   *)
defaultQuickBuySelection(vs, size, color) ==
    LET stocked == SelectSeq(vs, LAMBDA v : qtyByVariant(v) > 0)
        first == IF size = NoText /\ color = NoText /\ stocked # <<>> THEN stocked[1] ELSE vs[1]
    IN  IF vs = <<>> THEN <<size, color>>
        ELSE <<IF size = NoText THEN shop.variants[first].size ELSE size,
               IF color = NoText THEN shop.variants[first].color ELSE color>>

findVariant(vs, chosen) ==
    LET hits == SelectSeq(vs, LAMBDA v : <<shop.variants[v].size, shop.variants[v].color>> = chosen)
    IN  IF hits = <<>> THEN NoId ELSE hits[1]

\* Mutant: the goods of closed points are offered too.
buildAvailabilityMut(v) ==
    {pt \in DOMAIN directory.points : v # NoId /\ quantityAt(shop, v, pt) > 0}

(* The active points that hold the variant.                                *)
buildAvailability(v) == {pt \in ActivePoints : v # NoId /\ quantityAt(shop, v, pt) > 0}

(* The photos of the colour, else the general ones, else all.              *)
ForColor(images, color) ==
    LET tagged == SelectSeq(images, LAMBDA img : img[2] = color)
        general == SelectSeq(images, LAMBDA img : img[2] = NoText)
    IN  IF tagged # <<>> THEN tagged ELSE IF general # <<>> THEN general ELSE images

(* A size is offered when its variant in the chosen colour is in stock.    *)
sizeOptions(vs, chosen) ==
    {s \in {shop.variants[vs[i]].size : i \in DOMAIN vs} :
        LET v == findVariant(vs, <<s, chosen[2]>>) IN v # NoId /\ qtyByVariant(v) > 0}
buildColorOptions(vs, chosen) ==
    {c \in {shop.variants[vs[i]].color : i \in DOMAIN vs} :
        LET v == findVariant(vs, <<chosen[1], c>>) IN v # NoId /\ qtyByVariant(v) > 0}

buildProductData(kind, p, q, vs, chosen, v) ==
    detail' = [kind |-> kind, id |-> p, asked |-> q, chosen |-> chosen, variant |-> v,
               price |-> IF v = NoId THEN shop.products[p].price ELSE effectivePrice(shop, v),
               inStock |-> IF kind = "product" THEN buildAvailability(v) # {}
                           ELSE v # NoId /\ qtyByVariant(v) > 0,
               sizes |-> sizeOptions(vs, chosen), colors |-> buildColorOptions(vs, chosen),
               photos |-> ForColor(imagesOf(shop, p), chosen[2])]

(* A product that is switched off is not found.                            *)
chosenProduct(kind, p, q, vs, chosen) ==
    buildProductData(kind, p, q, vs, chosen, findVariant(vs, chosen))
product(kind, p, q) ==
    chosenProduct(kind, p, q, ListByProduct(p),
                  defaultQuickBuySelection(ListByProduct(p), q.size, q.color))
openProduct ==
    /\ visit = NoVisit /\ detail = NoVisit
    /\ \E p \in {p \in DOMAIN shop.products : shop.products[p].active}, kind \in {"product", "quickbuy"},
          q \in {[size |-> r.size, color |-> r.color] : r \in ShopQueries} : product(kind, p, q)
    /\ UNCHANGED <<shop, directoryVars, visit>>

(* A click on an offered size.                                             *)
pickSize ==
    /\ detail # NoVisit
    /\ \E s \in detail.sizes :
          product(detail.kind, detail.id, [size |-> s, color |-> detail.chosen[2]])
    /\ UNCHANGED <<shop, directoryVars, visit>>

ListNext == browse \/ openProduct \/ pickSize

-----------------------------------------------------------------------------
createdOf(rows, t) == Cardinality({i \in DOMAIN rows : CreatedAt[rows[i]] = t})

(* Whoever follows "next" to the end of a list of the shop or the API sees *)
(* every product that matches exactly once.  On the panel, whose order has *)
(* no tiebreak (ListForAdmin), the pages are newest first, hold matching   *)
(* products only and as many of every instant as match, so a product whose *)
(* instant is its own is seen exactly once; products of one instant can    *)
(* take each other's place.  The cards of a list by price rise by the      *)
(* price they show; the size and colour filters the shop offers never lead *)
(* to an empty list, and its price range covers every card; a row of the   *)
(* panel's out-of-stock list shows no stock at that point.                 *)
ListingComplete ==
    visit # NoVisit =>
        /\ visit.first = 1 /\ ~visit.hasNext /\ visit.kind # "admin" =>
              /\ Len(visit.walk) = visit.total
              /\ Cardinality(ToSet(visit.walk)) = visit.total
              /\ ToSet(visit.walk) = buildListConditions(visit.filter)
        /\ visit.first = 1 /\ ~visit.hasNext /\ visit.kind = "admin" =>
              LET matching == buildAdminListConditions(visit.filter) IN
              /\ ToSet(visit.walk) \subseteq matching
              /\ \A p \in matching :
                    createdOf(visit.walk, CreatedAt[p])
                        = Cardinality({m \in matching : CreatedAt[m] = CreatedAt[p]})
              /\ \A i, j \in DOMAIN visit.walk :
                    i < j => CreatedAt[visit.walk[i]] >= CreatedAt[visit.walk[j]]
        /\ visit.kind = "web" =>
              /\ \A s \in visit.facets.sizes :
                    buildListConditions([Anything EXCEPT !.ids = visit.filter.ids, !.size = s]) # {}
              /\ \A c \in visit.facets.colors :
                    buildListConditions([Anything EXCEPT !.ids = visit.filter.ids, !.color = c]) # {}
              /\ \A i \in DOMAIN visit.cards :
                    visit.facets.lo <= visit.cards[i].price /\ visit.cards[i].price <= visit.facets.hi
              /\ visit.q.sort = "price_asc" => \A i, j \in DOMAIN visit.cards :
                    i < j => visit.cards[i].price <= visit.cards[j].price
        /\ visit.kind = "admin" => \A i \in DOMAIN visit.cards :
              /\ visit.filter.oos # "" => visit.cards[i].atPoint = 0
              /\ visit.cards[i].atPoint <= visit.cards[i].stock

(* The pages agree on what can be bought: the product page says "in stock" *)
(* of a size and colour exactly when the shop's in-stock filter for them   *)
(* lists the product, shows the price that variant sells for, and - unless *)
(* a closed point still holds goods - opens with something in stock if     *)
(* there is anything, offers only sizes that are, and agrees with the      *)
(* quick-buy window.  The gallery shows a photo whenever the card does.    *)
PagesAgree ==
    detail # NoVisit =>
        LET listed == detail.id \in buildListConditions([Anything EXCEPT
                          !.size = detail.chosen[1], !.color = detail.chosen[2], !.inStock = TRUE])
            goodsBehindClosedDoors ==
                \E v \in VariantsOf(shop, detail.id), pt \in DOMAIN directory.points \ ActivePoints :
                    quantityAt(shop, v, pt) > 0
        IN  /\ detail.kind = "product" => detail.inStock = (detail.variant # NoId /\ listed)
            /\ detail.variant # NoId => detail.price = effectivePrice(shop, detail.variant)
            /\ (detail.photos # <<>>) = (PrimaryForProducts(detail.id) # NoKey)
            /\ ~goodsBehindClosedDoors =>
                  /\ detail.inStock = (detail.variant # NoId /\ listed)
                  /\ detail.asked = [size |-> NoText, color |-> NoText]
                        /\ detail.id \in buildListConditions([Anything EXCEPT !.inStock = TRUE])
                     => detail.inStock
                  /\ \A s \in detail.sizes : detail.id \in buildListConditions([Anything EXCEPT
                        !.size = s, !.color = detail.chosen[2], !.inStock = TRUE])
=============================================================================
