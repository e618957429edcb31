----------------------------- MODULE ImportPlan -----------------------------
(***************************************************************************)
(* How an import file becomes models to import                             *)
(* (internal/catalog/import_parse.go, import_plan.go).  A file is a format, *)
(* a header row and records; a number cell is a kind and a value (prices   *)
(* in tenths of a tyiyn, so that rounding shows).  Messages are their keys. *)
(***************************************************************************)
EXTENDS CatalogTables, SequencesExt

CONSTANTS Categories,      \* category id -> its slug and its name
          ImportFiles,     \* bound: the files that are uploaded
          MaxImportPrice,  \* NUMERIC(10,2)
          MaxImportQty

(* A file that is read has a first record, a second and so on.             *)
ASSUME PlanAssumption ==
    /\ MaxImportQty \in Nat
    /\ \A f \in DOMAIN ImportFiles : ImportFiles[f].records \in Seq(Range(ImportFiles[f].records))

None == [kind |-> "none", n |-> 0]
Number(n) == [kind |-> "number", n |-> n]
Garbled == [kind |-> "text", n |-> 0]
Bad == -2

BlankRow ==
    [article |-> NoText, name |-> NoText, brand |-> NoText, category |-> NoText,
     price |-> None, override |-> None, size |-> NoText, color |-> NoText,
     sku |-> NoText, quantity |-> None, stock |-> <<>>]

-----------------------------------------------------------------------------
(* Reading the file.                                                       *)

(* Unknown headers are ignored; a column given twice, or a required one    *)
(* that is missing, refuses the file.                                      *)
Unknown == "?"
canonicalHeaders(headers) ==
    /\ \A i, j \in DOMAIN headers : headers[i] = headers[j] => i = j \/ headers[i] = Unknown
    /\ {"name", "category", "price"} \subseteq ToSet(headers)

(* A column the header does not name is empty in every row.                *)
buildRow(headers, record) ==
    [col \in DOMAIN BlankRow |->
        IF col \in ToSet(headers) THEN record[col] ELSE BlankRow[col]]

parseRows(file) ==
    [i \in DOMAIN file.records |-> buildRow(file.headers, file.records[i])]

isBlank(row) ==
    /\ [row EXCEPT !.stock = <<>>] = BlankRow
    /\ \A p \in DOMAIN row.stock : row.stock[p] = None

(* Blanks are trimmed and runs of them collapsed, a size's comma becomes a *)
(* dot; the case of the letters stays (spelling 1), layout goes (2).       *)
normalizeText(text) == IF text[2] = 2 THEN <<text[1], 0>> ELSE text

(* Rounded to the tyiyn before the range is checked.                       *)
parsePrice(cell) ==
    LET n == (cell.n + 5) \div 10
    IN  IF cell.kind = "number" /\ cell.n >= 0 /\ n <= MaxImportPrice THEN n ELSE Bad
parseQuantity(cell) ==
    IF cell.kind = "number" /\ cell.n \in 0..MaxImportQty THEN cell.n ELSE Bad

-----------------------------------------------------------------------------
(* One row.                                                                *)

(* "quantity" goes to the target point, a stock column to its own point.   *)
rowStock(row, target, activePoints) ==
    LET own == [p \in {q \in DOMAIN row.stock \cap activePoints :
                          row.stock[q] # None /\ parseQuantity(row.stock[q]) # Bad} |->
                   parseQuantity(row.stock[p])]
    IN  IF row.quantity = None \/ parseQuantity(row.quantity) = Bad \/ target = ""
        THEN own
        ELSE [p \in DOMAIN own \cup {target} |->
                 IF p \in DOMAIN own THEN own[p] ELSE parseQuantity(row.quantity)]

parseRow(row, target, activePoints) ==
    LET size == normalizeText(row.size)
        color == normalizeText(row.color)
        hasVariant == size # NoText /\ color # NoText
        price == parsePrice(row.price)
        override == parsePrice(row.override)
        columns == {p \in DOMAIN row.stock : row.stock[p] # None}
        counted == {p \in columns : parseQuantity(row.stock[p]) # Bad}
        quantity == row.quantity # None /\ parseQuantity(row.quantity) # Bad
        wrong ==
          [price |-> row.price # None /\ price <= 0,
           variant_price |-> row.override # None /\ override = Bad,
           variant_needs_size_and_color |-> (size # NoText) # (color # NoText),
           sku_without_variant |-> size = NoText /\ color = NoText /\ row.sku # NoText,
           quantity |-> row.quantity # None /\ ~quantity,
           point_stock |-> columns # counted,
           stock_without_variant |-> ~hasVariant /\ (quantity \/ counted # {}),
           no_active_point |-> hasVariant /\ quantity /\ target = "",
           point_inactive |-> hasVariant /\ ~(counted \subseteq activePoints)]
    IN  [article |-> normalizeText(row.article), name |-> normalizeText(row.name),
         brand |-> normalizeText(row.brand), category |-> normalizeText(row.category),
         price |-> IF row.price # None /\ price > 0 THEN price ELSE NoPrice,
         priceBad |-> wrong.price,
         override |-> IF row.override # None /\ override # Bad THEN override ELSE NoPrice,
         hasVariant |-> hasVariant, size |-> size, color |-> color,
         sku |-> IF hasVariant THEN row.sku ELSE NoText,
         stock |-> IF hasVariant THEN rowStock(row, target, activePoints) ELSE <<>>,
         errs |-> {e \in DOMAIN wrong : wrong[e]}]

-----------------------------------------------------------------------------
(* Models.                                                                 *)

(* The article, else brand, name and category, else the row by itself.     *)
groupKey(raw, line) ==
    CASE raw.article # NoText -> <<"article", lower(raw.article), "", "", 0>>
      [] raw.article = NoText /\ raw.name # NoText /\ raw.category # NoText ->
            <<"name", lower(raw.brand), lower(raw.name), lower(raw.category), 0>>
      [] OTHER -> <<"alone", "", "", "", line>>

(* An id, an exact slug, or the one category with that name.               *)
ResolveCategory(cell) ==
    LET slugs == {c \in DOMAIN Categories : Categories[c].slug = cell}
        names == {c \in DOMAIN Categories : lower(Categories[c].name) = lower(cell)}
    IN  CASE cell[1] \in DOMAIN Categories -> cell[1]
          [] slugs # {} -> CHOOSE c \in slugs : TRUE
          [] Cardinality(names) = 1 -> CHOOSE c \in names : TRUE
          [] OTHER -> ""

(* The first row of the group that has the field.                          *)
pick(G, raw, field) ==
    LET S == {i \in G : raw[i][field] # NoText}
    IN  IF S = {} THEN NoText ELSE raw[Min(S)][field]

basePrice(G, raw) ==
    LET S == {i \in G : raw[i].price # NoPrice}
    IN  IF S = {} THEN NoPrice ELSE raw[Min(S)].price

(* An override cell decides, and 0 in it is none; else a price of its own. *)
priceOverride(row, base) ==
    CASE row.override # NoPrice -> IF row.override > 0 THEN row.override ELSE NoPrice
      [] row.override = NoPrice /\ row.price # base /\ base # NoPrice -> row.price
      [] OTHER -> NoPrice

(* Some rows of the file, or models, in the order they have in it.         *)
inOrder(S) == CHOOSE s \in [1..Cardinality(S) -> S] : \A i, j \in DOMAIN s : i < j => s[i] < s[j]

(* A group of several rows needs a variant in each, all different.  What   *)
(* the model as a whole lacks is an error of its first row.                *)
assemble(G, raw, categoryId) ==
    LET base == basePrice(G, raw)
        name == pick(G, raw, "name")
        lacking == [no_name |-> name = NoText,
                    no_category |-> categoryId = "",
                    no_price |-> base = NoPrice /\ \A i \in G : ~raw[i].priceBad]
        double(i) == \E j \in G : j < i /\ raw[i].hasVariant /\ raw[j].hasVariant
                        /\ lower(raw[j].size) = lower(raw[i].size)
                        /\ lower(raw[j].color) = lower(raw[i].color)
        errs(i) == raw[i].errs
            \cup (IF i = Min(G) THEN {e \in DOMAIN lacking : lacking[e]} ELSE {})
            \cup (IF Cardinality(G) > 1 /\ ~raw[i].hasVariant THEN {"multi_row_needs_variant"} ELSE {})
            \cup (IF double(i) THEN {"duplicate_variant"} ELSE {})
        row(i) == [line |-> i, hasVariant |-> raw[i].hasVariant, size |-> raw[i].size,
                   color |-> raw[i].color, sku |-> raw[i].sku, stock |-> raw[i].stock,
                   override |-> IF raw[i].hasVariant THEN priceOverride(raw[i], base) ELSE NoPrice,
                   errs |-> errs(i)]
    IN  [product |-> [code |-> raw[Min(G)].article, category |-> categoryId, name |-> name,
                      brand |-> pick(G, raw, "brand"), price |-> base],
         rows |-> [n \in 1..Cardinality(G) |-> row(inOrder(G)[n])]]

failed(m) == \E n \in DOMAIN m.rows : m.rows[n].errs # {}

(* An SKU given twice is an error of the later row.                        *)
markDuplicateSKUs(cells) ==
    [i \in DOMAIN cells |->
        IF \E j \in DOMAIN cells : j < i /\ cells[j].sku = cells[i].sku /\ cells[i].sku # NoText
        THEN [cells[i] EXCEPT !.errs = @ \cup {"sku_duplicate_in_file"}] ELSE cells[i]]

(* The rows of one model, told by its first row.                           *)
groups(key) ==
    [i \in {i \in DOMAIN key : \A j \in DOMAIN key : key[j] = key[i] => i <= j} |->
        {j \in DOMAIN key : key[j] = key[i]}]

(* Looked up once per lower-case cell, for the first model that has it.    *)
resolveCategories(group, cell) ==
    [i \in DOMAIN group |->
        IF cell[i] = NoText THEN ""
        ELSE ResolveCategory(cell[Min({j \in DOMAIN group : lower(cell[j]) = lower(cell[i])})])]

(* A row by itself has no name or no category: it is never looked up.      *)
categoryCells(raw, group) ==
    [i \in DOMAIN group |->
        IF groupKey(raw[i], i)[1] = "alone" THEN NoText ELSE pick(group[i], raw, "category")]

assembleAll(raw, group, categoryIds) ==
    LET model(i) == assemble(group[i], raw, categoryIds[i])
        order == inOrder(DOMAIN group)
    IN  [n \in DOMAIN order |-> model(order[n])]

planGroups(raw, group) == assembleAll(raw, group, resolveCategories(group, categoryCells(raw, group)))
planRows(raw) == planGroups(raw, groups([i \in DOMAIN raw |-> groupKey(raw[i], i)]))
readRows(rows, target, points) ==
    [i \in {i \in DOMAIN rows : ~isBlank(rows[i])} |-> parseRow(rows[i], target, points)]

(* The models of a file in the order of their first rows.                  *)
plan(file, target, points) == planRows(markDuplicateSKUs(readRows(parseRows(file), target, points)))
=============================================================================
