----------------------------- MODULE MCCatalog ------------------------------
(***************************************************************************)
(* One instance of the catalogue: its import, its form, the shop's         *)
(* directory, its lists and the customers' carts, each explored by itself  *)
(* (part says which, Parts what a run may choose).  A part may have bounds  *)
(* of its own, stated with it.                                             *)
(***************************************************************************)
EXTENDS CatalogImport, ProductForm, CatalogList, ShopCart

CONSTANT Parts

VARIABLE part
catalogVars == <<part, shop, importVars, formVars, directoryVars, listVars, cartVars>>

W(x) == <<x, 0>>

-----------------------------------------------------------------------------
(* Imports: a new model without an article, one with articles of two       *)
(* spellings, one whose variant is in the tables under another spelling,   *)
(* and a file whose headers are wrong.                                     *)

MCCategories ==
    [c1 |-> [slug |-> W("boots"), name |-> W("Boots")], c2 |-> [slug |-> W("shoes"), name |-> W("Shoes")]]
AllColumns ==
    <<"article", "name", "brand", "category", "price", "override", "size", "color", "sku", "quantity", "stock">>
Rec(r) == [col \in DOMAIN BlankRow |-> IF col \in DOMAIN r THEN r[col] ELSE BlankRow[col]]
Model == [article |-> NoText, name |-> W("boot"), category |-> W("boots"), price |-> Number(1000)]
Row(size, more) == Rec(more @@ [size |-> W(size), color |-> W("red")] @@ Model)
File(rows) == [format |-> "csv", headers |-> AllColumns, records |-> rows]
MCFiles == <<
    File(<<Row("42", [quantity |-> Number(2)])>>),
    File(<<Row("42", [article |-> W("A"), sku |-> W("s"), override |-> Number(0), price |-> Number(1204),
                      stock |-> ("B" :> Number(1))]),
           Row("43", [article |-> <<"A", 1>>, override |-> Number(700)])>>),
    File(<<Row("42", [quantity |-> Number(2), override |-> Number(0), price |-> Number(904)]),
           Row("43", [quantity |-> Number(3), sku |-> W("s")]),
           Row("44", [name |-> W("shoe"), category |-> W("shoes")])>>),
    [File(<<Rec(Model)>>) EXCEPT !.headers = <<"name", "price", "price">>]>>
MCPoints == <<"A", "B">>

Boot(price) ==
    [category |-> "c1", name |-> <<"boot", 1>>, brand |-> NoText, code |-> NoText, price |-> price, active |-> TRUE]
Stored ==
    [EmptyTables EXCEPT !.products = <<Boot(100)>>, !.productIds = 1, !.variantIds = 1,
        !.variants = <<[product |-> 1, size |-> W("42"), color |-> <<"red", 1>>, sku |-> NoText, override |-> 77]>>,
        !.stock = (<<1, "A">> :> 1)]

(* Two uploads side by side; or one member's checks and real runs while    *)
(* points close, time passes and the process restarts.                     *)
ImportsSideBySide ==
    /\ <<activePoints', tokenKey', importNow', signed', checks'>> = <<activePoints, tokenKey, importNow, signed, checks>>
    /\ \A u \in Uploads : /\ upload'[u].count <= 1 /\ upload'[u].kind # "apply" /\ upload'[u].point = ""
                          /\ upload'[u].kind = "check" => upload'[u].pc = "queue"
    /\ importTokens'["s1"] = ImportBurst
ImportScreen ==
    /\ \A u \in Uploads \ {"u1"} : upload'[u].pc = "idle" /\ upload'[u].count = 0
    /\ \A u \in Uploads : upload'[u].kind # "json" /\ (upload'[u].kind = "check" => upload'[u].count = 1)
    /\ Cardinality(checks') <= 1 /\ activePoints' # {"A"} /\ (activePoints' = {} => tokenKey' = 0)

-----------------------------------------------------------------------------
(* The form: one page edited twice while others sell and write; or two     *)
(* pages that are edited once, while others only move stock, whose         *)
(* snapshots of a product do not end with its row.                         *)

MCOwn == [e1 |-> "", e2 |-> "A"]
MCRows == {[size |-> W("43"), color |-> W("red")], [size |-> NoText, color |-> NoText]}
MCImages == {<< <<11, NoText>> >>}
MCSkus == {W("t")}
MCTexts == {<<"c2", W("api"), W("acme")>>}
MCQtys == {-1, 0, 2}
MCPrices == {4, 500}
FormTables == [Stored EXCEPT !.variants[1].override = 0, !.variants[1].color = W("red")]

FormAlone == forms'["e2"].pc = "closed" /\ moves' <= 1
FormTwo ==
    /\ moves' <= 1 /\ (moves' # moves => <<shop.products, shop.variants>> = <<shop'.products, shop'.variants>>)
    /\ \A e \in Editors : forms'[e].edits <= 1 /\ forms'[e].snap.read # {"product"}

-----------------------------------------------------------------------------
(* The directory: pictures of categories, banner and products (one slug to *)
(* an id, no points moved); or points and their goods.                     *)

DirectoryPictures ==
    /\ directory'.points = directory.points /\ shop'.stock = shop.stock
    /\ \A s \in Savers : /\ saves'[s].pc \notin {"point", "delete"} /\ saves'[s].parent = ""
                         /\ saves'[s].slug = saves'[s].id
                         /\ saves'[s].kind = "banner" => saves'[s].row.category # "c1"
    /\ saves' # saves
DirectoryPoints ==
    /\ keys' = 0
    /\ \A s \in Savers : saves'[s].kind = "none"

-----------------------------------------------------------------------------
(* The lists: three products of which two have variants and two were       *)
(* created at one instant; point B is closed.                              *)

MCUnits == <<2, 0, 2>>
MCCreated == <<1, 1, 2>>
Query(more) ==
    more @@ [kinds |-> {"web", "api", "admin"}, slug |-> "", sub |-> "", size |-> NoText, color |-> NoText, lo |-> NoPrice,
             hi |-> NoPrice, words |-> <<>>, inStock |-> FALSE, sort |-> "", page |-> 1, point |-> "", oos |-> FALSE]
MCQueries ==
    {Query([slug |-> s, sort |-> o]) : s \in {"", "c1", "c2"}, o \in {"", "price_asc", "price_desc", "popular"}}
        \cup {Query([size |-> s, color |-> c, inStock |-> i, kinds |-> {"web", "api"}]) :
                 s \in {NoText, <<"42", 1>>, <<"43", 2>>}, c \in {NoText, <<"red", 2>>}, i \in BOOLEAN}
        \cup {Query([lo |-> l, hi |-> h, kinds |-> {"web"}]) : l \in {0, 250}, h \in {0, 150}}
        \cup {Query([words |-> <<"boot", "s", "none">>]), Query([words |-> <<"shoe">>, page |-> 9])}
        \cup {Query([slug |-> "c1", sub |-> "c2", point |-> pt, oos |-> TRUE, kinds |-> {"admin"}]) : pt \in {"A", "Z"}}

ListTables(price, override, stock, active, images) ==
    [EmptyTables EXCEPT
        !.products = << [Boot(100) EXCEPT !.brand = W("acme")],
                        [Boot(price) EXCEPT !.category = "c2", !.active = active],
                        [Boot(200) EXCEPT !.name = W("shoe"), !.category = "c2"] >>,
        !.variants = <<[product |-> 1, size |-> <<"43", 2>>, color |-> <<"red", 2>>, sku |-> W("s"), override |-> override],
                       [product |-> 1, size |-> <<"42", 1>>, color |-> <<"red", 2>>, sku |-> NoText, override |-> NoPrice],
                       [product |-> 2, size |-> <<"42", 1>>, color |-> <<"blue", 1>>, sku |-> NoText, override |-> 150]>>,
        !.stock = stock, !.images = images, !.productIds = 3, !.variantIds = 3]
MCStocks ==
    {[c \in {<<v, pt>> : v \in {1, 2}, pt \in {"A", "B"}} |-> IF c \in held1 THEN 1 ELSE 0] :
        held1 \in SUBSET {<<1, "A">>, <<1, "B">>, <<2, "A">>}}
MCPhotos == {<<>>, (1 :> << <<11, <<"red", 2>> >>, <<12, NoText>> >>)}
MCListings ==
    {ListTables(price, override, stock, active, images) :
        price \in {100, 300}, override \in {NoPrice, 50}, stock \in MCStocks, active \in BOOLEAN, images \in MCPhotos}

-----------------------------------------------------------------------------
(* The cart: two requests at a time (which are alike, so w1 comes first; a *)
(* zone is edited while something is ordered), one of the variants edited, *)
(* and once an order is in, one more submit of the form by itself.         *)

Buys(zone, online) ==
    [kind |-> "submit", key |-> "k", delivery |-> zone # "none", address |-> "home",
     zone |-> IF zone = "none" THEN "" ELSE zone, online |-> online]
MCVisitInputs ==
    {[kind |-> "add", variant |-> "v1", qty |-> 1], [kind |-> "buy", variant |-> "v2", qty |-> 1],
     [kind |-> "adjust", variant |-> "v1", delta |-> 1],
     Buys("none", FALSE), Buys("", FALSE), Buys("z1", TRUE), Buys("z2", FALSE),
     [Buys("z1", TRUE) EXCEPT !.kind = "order", !.key = ""] @@ [lines |-> << <<"v1", 1>>, <<"v1", 2>> >>],
     [Buys("none", FALSE) EXCEPT !.kind = "order"] @@ [lines |-> << <<"v2", 1>>, <<"v2", 1>> >>],
     [kind |-> "zoneUpdate", zone |-> "z1", terms |-> <<3, 0>>], [kind |-> "zoneToggle", zone |-> "z1"]}
MCTerms == {<<2, 3>>, <<1, 0>>}
CartStart ==
    /\ basket["v1"] = 1 /\ (basket["v2"] = 0 <=> zoneRows["z2"].stored)
    /\ zoneRows["z1"] # zoneRow(<<1, 0>>, TRUE) /\ zoneRows["z2"] # zoneRow(<<2, 3>>, TRUE)
    /\ zoneRows["z2"].stored => zoneRows["z1"].stored
CartBounds ==
    /\ goods'["v2"] = goods["v2"]
    /\ visitCount' = 1 => ask'["w2"].pc = "idle"
    /\ visitCount' = 2 /\ (\E r \in Visits : ask'[r].in.kind \in {"zoneUpdate", "zoneToggle"}) =>
           \E r \in Visits : ask'[r].in.kind \in {"submit", "order"}
    /\ visitCount' = 3 =>
           /\ ask' # ask /\ bought' # <<>>
           /\ ask'["w1"].in.kind \in {"none", "submit"}
           /\ visitCount = 2 => ask'["w1"].pc = "list" /\ ask'["w2"].pc \in {"idle", "landed", "empty"}

-----------------------------------------------------------------------------
CatalogInit ==
    /\ part \in Parts
    /\ ImportInit /\ FormInit /\ DirectoryInit /\ ListInit /\ CartInit
    /\ part = "cart" \/ (basket = NoItems /\ \A z \in ZoneIds : ~zoneRows[z].stored)
    /\ part = "cart" => CartStart
    /\ directory.points["B"].active <=> part # "lists"
    /\ shop \in CASE part = "imports" -> {EmptyTables, Stored}
                  [] part \in {"form", "forms"} -> {FormTables}
                  [] part = "lists" -> MCListings
                  [] OTHER -> {Stored}

CatalogNext ==
    /\ UNCHANGED part
    /\ \/ /\ part \in {"imports", "screen"}
          /\ ImportNext
          /\ part = "imports" => ImportsSideBySide
          /\ part = "screen" => ImportScreen
          /\ UNCHANGED <<formVars, directoryVars, listVars, cartVars>>
       \/ /\ part \in {"form", "forms"}
          /\ FormNext
          /\ part = "form" => FormAlone
          /\ part = "forms" => FormTwo
          /\ UNCHANGED <<importVars, directoryVars, listVars, cartVars>>
       \/ /\ part \in {"pictures", "points"}
          /\ DirectoryNext
          /\ part = "pictures" => DirectoryPictures
          /\ part = "points" => DirectoryPoints
          /\ UNCHANGED <<importVars, formVars, listVars, cartVars>>
       \/ /\ part = "cart" /\ CartNext /\ CartBounds
          /\ UNCHANGED <<shop, importVars, formVars, directoryVars, listVars>>
       \/ part = "lists" /\ ListNext /\ UNCHANGED <<importVars, formVars, cartVars>>

CatalogSpec == CatalogInit /\ [][CatalogNext]_catalogVars
=============================================================================
