----------------------------- MODULE ProductForm -----------------------------
(***************************************************************************)
(* The admin panel's product form (internal/admin/products.go,             *)
(* product_form_parse.go, product_store.go) and stock screen               *)
(* (stock_page.go) while customers buy and other staff write through the   *)
(* API (internal/httpapi/admin_catalog*.go), the row menu and the bulk bar *)
(* (products_ops.go); with the journal of these writes (audit_hooks.go,    *)
(* internal/audit).  A transaction is one step: it commits or rolls back   *)
(* as a whole, and each of its writes is guarded by the value it finds;    *)
(* but the form's save first takes a snapshot for the journal, which may   *)
(* fail, and the tables may move before the transaction locks its rows.    *)
(* A typed price is in tenths of a tyiyn, so that rounding shows.          *)
(***************************************************************************)
EXTENDS CatalogTables, SequencesExt

CONSTANTS Editors,        \* staff with a page open
          OwnPoint,       \* Editors -> the point of a point_staff member, or ""
          FormPoints,     \* points of sale
          FormQtys,       \* bound: quantities that are typed, Blank for none
          FormPrices,     \* bound: prices that are typed, Blank for none
          NewRows,        \* bound: sizes and colors of rows added in the browser
          FormSkus,       \* bound: SKUs given through the API
          FormTexts,      \* bound: <<category, name, brand>> given through the API
          FormImages,     \* bound: photo lists
          MaxStockQty,    \* maxStockQty
          MaxFormPrice,   \* maxPrice
          MaxEdits,       \* bound: edits of one page
          MaxSubmits,     \* bound: submits of one page
          MaxPages,       \* bound: pages one editor opens
          MaxMoves        \* bound: sales and writes by others

ASSUME FormAssumption == MaxStockQty \in Nat /\ MaxFormPrice \in Nat

VARIABLES forms,     \* the page each editor has open
          journal,   \* what the last write put into audit_log
          toggle,    \* a product read by productToggleActive, not yet written
          cellSet,   \* an API stock write that found no row, not yet inserted
          moves

formVars == <<forms, journal, toggle, cellSet, moves>>

Blank == -1
Garbage == -2
NewKey == 1000      \* a row added in the browser

NoSnapshot == [read |-> {}, product |-> <<>>, variants |-> <<>>]
NoForm ==
    [pc |-> "closed", kind |-> "none", product |-> NoId, point |-> "", fields |-> <<>>, images |-> <<>>,
     rows |-> <<>>, snap |-> NoSnapshot, touched |-> {}, edits |-> 0, submits |-> 0, pages |-> 0]
NoToggle == [id |-> NoId, row |-> <<>>]
NoCell == [pc |-> "none", v |-> NoId, point |-> "", qty |-> 0, guarded |-> FALSE]
NoEntries == [full |-> FALSE, entries |-> {}]

FormInit ==
    /\ forms = [e \in Editors |-> NoForm]
    /\ journal = NoEntries /\ toggle = NoToggle /\ cellSet = NoCell /\ moves = 0

-----------------------------------------------------------------------------
(* Pages.                                                                  *)

shownCell(t, v, point) == [val |-> quantityAt(t, v, point), orig |-> storedAt(t, v, point)]

(* A stored override that is not positive is shown as blank.               *)
buildVariantRows(t, variants, points) ==
    [v \in DOMAIN variants |->
        [id |-> v, size |-> variants[v].size, color |-> variants[v].color,
         price |-> IF variants[v].override > 0 THEN 10 * variants[v].override ELSE Blank,
         priceOrig |-> IF variants[v].override = NoPrice THEN Blank ELSE 10 * variants[v].override,
         hasPriceOrig |-> TRUE,
         cells |-> [p \in points |-> shownCell(t, v, p)]]]

(* Product and variants first, their stock in a later query.               *)
productEditPage(e) ==
    \/ /\ forms[e].pc = "closed" /\ forms[e].pages < MaxPages /\ OwnPoint[e] = ""
       /\ \E p \in DOMAIN shop.products :
             forms' = [forms EXCEPT ![e] =
                 [NoForm EXCEPT !.pc = "stock", !.kind = "form", !.product = p, !.pages = forms[e].pages + 1,
                                !.fields = [shop.products[p] EXCEPT !.price = 10 * @],
                                !.rows = [v \in VariantsOf(shop, p) |-> shop.variants[v]]]]
       /\ UNCHANGED <<shop, journal, toggle, cellSet, moves>>
    \/ /\ forms[e].pc = "stock"
       /\ forms' = [forms EXCEPT ![e].pc = "open", ![e].images = imagesOf(shop, forms[e].product),
                                 ![e].rows = buildVariantRows(shop, @, FormPoints)]
       /\ UNCHANGED <<shop, journal, toggle, cellSet, moves>>

(* An empty form: nothing is stored yet.                                   *)
productNewPage(e) ==
    /\ forms[e].pc = "closed" /\ forms[e].pages < MaxPages /\ OwnPoint[e] = ""
    /\ forms' = [forms EXCEPT ![e] =
          [NoForm EXCEPT !.pc = "open", !.kind = "form", !.pages = forms[e].pages + 1,
                         !.fields = [category |-> "", name |-> NoText, brand |-> NoText, code |-> NoText,
                                     price |-> NoPrice, active |-> TRUE]]]
    /\ UNCHANGED <<shop, journal, toggle, cellSet, moves>>

(* point_staff are pinned to their own point whatever they ask for.        *)
resolveStockPoint(e, requested) == IF OwnPoint[e] # "" THEN OwnPoint[e] ELSE requested

listStock(t) ==
    {v \in DOMAIN t.variants : t.products[t.variants[v].product].active}

stockPage(e) ==
    /\ forms[e].pc = "closed" /\ forms[e].pages < MaxPages
    /\ \E requested \in FormPoints :
          LET point == resolveStockPoint(e, requested)
          IN  forms' = [forms EXCEPT ![e] =
                 [NoForm EXCEPT !.pc = "open", !.kind = "page", !.point = point, !.pages = forms[e].pages + 1,
                    !.rows = buildVariantRows(shop, [v \in listStock(shop) |-> shop.variants[v]], {point})]]
    /\ UNCHANGED <<shop, journal, toggle, cellSet, moves>>

-----------------------------------------------------------------------------
(* What the staff member does in the browser.  touched remembers it.       *)

(* The form with its edit, and what the edit touched.                      *)
edits(f) ==
    {<<[f EXCEPT !.rows[k].cells[p].val = q], <<k, p>>>> :
        k \in DOMAIN f.rows, p \in IF f.kind = "page" THEN {f.point} ELSE FormPoints, q \in FormQtys}
    \cup IF f.kind = "page" THEN {} ELSE
         {<<[f EXCEPT !.rows[k].price = a], <<k, "price">>>> : k \in DOMAIN f.rows, a \in FormPrices}
    \cup {<<[f EXCEPT !.rows = Without(@, {k})], <<k, "row">>>> : k \in DOMAIN f.rows}
    \cup {<<[f EXCEPT !.rows = Put(@, NewKey,
                [id |-> NoId, size |-> r.size, color |-> r.color, price |-> Blank, priceOrig |-> Blank,
                 hasPriceOrig |-> FALSE,
                 cells |-> [p \in FormPoints |-> [val |-> Blank, orig |-> NoRow]]])],
            <<NewKey, "row">>>> : r \in NewRows}
    \cup {<<[f EXCEPT !.fields.price = a, !.fields.name = <<"typed", 0>>, !.fields.category = "c1"],
            <<f.product, "fields">>>> : a \in FormPrices}
    \cup {<<[f EXCEPT !.images = i], <<f.product, "images">>>> : i \in FormImages}

Edit(e) ==
    /\ forms[e].pc = "open" /\ forms[e].edits < MaxEdits
    /\ \E x \in edits(forms[e]) :
          /\ x[1] # forms[e]
          /\ forms' = [forms EXCEPT ![e] = [x[1] EXCEPT !.touched = @ \cup {x[2]}, !.edits = @ + 1]]
    /\ UNCHANGED <<shop, journal, toggle, cellSet, moves>>

-----------------------------------------------------------------------------
(* Reading a submission.                                                   *)

parseStockQty(val) == IF val \in 0..MaxStockQty THEN val ELSE Garbage

(* A cleared cell that had stock is an error; one that had none is left.   *)
parseStockCell(c) ==
    LET qty == parseStockQty(c.val)
    IN  IF c.val = Blank /\ c.orig = NoRow THEN [ok |-> TRUE, changed |-> FALSE, qty |-> 0]
        ELSE [ok |-> qty # Garbage, qty |-> qty,
              changed |-> ~((c.orig = NoRow /\ qty = 0) \/ c.orig = qty)]

parseAmount(a) == (a + 5) \div 10
parseFormPrice(a) ==
    LET n == parseAmount(a)
    IN  IF a >= 0 /\ n > 0 /\ n <= MaxFormPrice THEN n ELSE Garbage
parseVariantPrice(a) == IF a = Blank THEN NoPrice ELSE parseFormPrice(a)

variantPriceChanged(override, orig) ==
    IF orig = Blank THEN override # NoPrice ELSE override # parseAmount(orig)

rowHasStock(row) == \E p \in DOMAIN row.cells : row.cells[p].val \notin {Blank, 0}

(* The rows that count, the changed cells, and whether it all parses.      *)
stockChanges(rows) ==
    {<<k, p>> \in UNION {{k} \X DOMAIN rows[k].cells : k \in DOMAIN rows} :
        parseStockCell(rows[k].cells[p]).changed}
cellsParse(rows) ==
    \A k \in DOMAIN rows : \A p \in DOMAIN rows[k].cells : parseStockCell(rows[k].cells[p]).ok

parseProductForm(f) ==
    LET rows == [k \in {k \in DOMAIN f.rows :
                          \/ f.rows[k].size # NoText \/ f.rows[k].color # NoText
                          \/ f.rows[k].id # NoId \/ rowHasStock(f.rows[k])} |-> f.rows[k]]
        override(k) == parseVariantPrice(rows[k].price)
    IN  [ok |-> /\ parseFormPrice(f.fields.price) # Garbage
                /\ \A k \in DOMAIN rows : /\ rows[k].size # NoText /\ rows[k].color # NoText
                                          /\ override(k) # Garbage
                /\ cellsParse(rows),
         price |-> parseFormPrice(f.fields.price),
         rows |-> rows,
         variants |-> [k \in DOMAIN rows |->
             [id |-> rows[k].id, size |-> rows[k].size, color |-> rows[k].color, override |-> override(k),
              priceSet |-> \/ rows[k].id = NoId \/ ~rows[k].hasPriceOrig
                           \/ variantPriceChanged(override(k), rows[k].priceOrig)]],
         stock |-> stockChanges(rows)]

-----------------------------------------------------------------------------
(* productStore.Save: one transaction as a function of the tables.         *)

validateProductInput(fields) == fields.category # "" /\ fields.name # NoText

(* The form never writes is_active nor the article.                        *)
upsertProductTx(t, p, fields, price) ==
    IF p = NoId
    THEN putProduct(t, t.productIds + 1, [fields EXCEPT !.price = price])
    ELSE putProduct(t, p, [t.products[p] EXCEPT !.category = fields.category, !.name = fields.name,
                                                !.brand = fields.brand, !.price = price])

updateVariantTx(old, row) ==
    [old EXCEPT !.size = row.size, !.color = row.color,
                !.override = IF row.priceSet THEN row.override ELSE @]

(* Variants that are not in the form go first, then the rows in order.     *)
syncVariantsTx(t, p, rows) ==
    LET existing == VariantsOf(t, p)
        gone == existing \ {rows[k].id : k \in DOMAIN rows}
        kept == FoldLeft(deleteVariant, t, SetToSeq(gone))
        write(acc, k) ==
            LET row == rows[k]
                old == row.id \in existing
                id == IF old THEN row.id ELSE acc.tables.variantIds + 1
                new == IF old THEN updateVariantTx(acc.tables.variants[id], row)
                       ELSE [product |-> p, size |-> row.size, color |-> row.color, sku |-> NoText,
                             override |-> row.override]
            IN  IF ~acc.ok \/ variantTaken(acc.tables, id, new) THEN [acc EXCEPT !.ok = FALSE]
                ELSE [acc EXCEPT !.tables = putVariant(@, id, new), !.ids = Put(@, k, id)]
    IN  FoldLeft(write, [ok |-> gone \cap t.sold = {}, tables |-> kept, ids |-> <<>>],
                 SetToSortSeq(DOMAIN rows, <))

\* Mutant: the cell is written whatever it holds by now.
writeStockCellTxMut(t, v, point, qty, orig) == putStock(t, v, point, qty)

(* Only over the value the page was rendered with; t when it is not.       *)
writeStockCellTx(t, v, point, qty, orig) ==
    IF storedAt(t, v, point) = orig THEN putStock(t, v, point, qty) ELSE t

(* Every cell is tried, and one conflict undoes them all.                  *)
applyStockChangesTx(t, rows, ids, changes) ==
    LET live == {c \in changes : c[1] \in DOMAIN ids}
        write(acc, c) ==
            LET cell == rows[c[1]].cells[c[2]]
                after == writeStockCellTx(acc.tables, ids[c[1]], c[2], cell.val, cell.orig)
            IN  IF after = acc.tables THEN [acc EXCEPT !.conflicts = @ \cup {c}]
                ELSE [acc EXCEPT !.tables = after]
    IN  FoldLeft(write, [tables |-> t, conflicts |-> {}], SetToSeq(live))

replaceImagesTx(t, p, images) == [t EXCEPT !.images = Put(@, p, images)]

Save(t, f) ==
    LET in == parseProductForm(f)
        p == IF f.product = NoId THEN t.productIds + 1 ELSE f.product
        upserted == upsertProductTx(t, f.product, f.fields, in.price)
        synced == syncVariantsTx(upserted, p, in.variants)
        stocked == applyStockChangesTx(synced.tables, in.rows, synced.ids, in.stock)
    IN  CASE ~in.ok \/ ~validateProductInput(f.fields) -> [outcome |-> "invalid", tables |-> t]
          [] in.ok /\ validateProductInput(f.fields) /\ ~synced.ok -> [outcome |-> "refused", tables |-> t]
          [] in.ok /\ synced.ok /\ stocked.conflicts # {} ->
                [outcome |-> "conflict", tables |-> t, conflicts |-> stocked.conflicts, ids |-> synced.ids]
          [] OTHER -> [outcome |-> "saved", tables |-> replaceImagesTx(stocked.tables, p, f.images),
                       ids |-> synced.ids, product |-> p]

-----------------------------------------------------------------------------
(* The journal.                                                            *)

entry(what, id, point, from, to) == [what |-> what, id |-> id, point |-> point, from |-> from, to |-> to]

(* RecordTx: a failed write is rolled back to its savepoint and logged.    *)
RecordTx(entries) == \E written \in BOOLEAN :
    journal' = IF written THEN [full |-> TRUE, entries |-> entries] ELSE NoEntries

productChanges(old, new) == {x \in {"category", "name", "brand", "price"} : old[x] # new[x]}

(* SnapshotTx: what a save finds before its writes (of a variant's row only *)
(* size, color and override are used).  Either read may fail on the        *)
(* savepoint, and the save goes on without what was not read; what the     *)
(* variants' had read until it broke off is kept (loadVariantSnapshotsTx). *)
SnapshotTx(t, p) ==
    LET product == [NoSnapshot EXCEPT !.read = {"product"}, !.product = t.products[p]]
    IN  IF p = NoId THEN {NoSnapshot}
        ELSE {NoSnapshot, product} \cup
             {[product EXCEPT !.read = {"product", "variants"},
                              !.variants = [v \in part |-> t.variants[v]]] :
                 part \in SUBSET VariantsOf(t, p)}

\* Mutant: a row that carries an id counts as kept, even if its variant is gone.
productSaveEntriesMut(f, rows, ids, p) ==
    LET kept == {ids[k] : k \in {k \in DOMAIN rows : rows[k].id # NoId}}
        added == {ids[k] : k \in DOMAIN rows} \ kept
    IN  {entry("product.update", p, "", 0, 0)}
        \cup {entry("variant.create", v, "", 0, 0) : v \in added}
        \cup {entry("variant.delete", v, "", 0, 0) : v \in DOMAIN f.snap.variants \ kept}

(* What the form did to the product and its variants, told apart by the    *)
(* snapshot.  Without the product's an update is told whatever it changed; *)
(* without the variants' an edited, deleted or restored one is not told.   *)
productSaveEntries(f, rows, ids, p) ==
    LET snap == f.snap
        kept == {k \in DOMAIN rows : rows[k].id # NoId /\ ids[k] \in DOMAIN snap.variants}
        untold == {k \in DOMAIN rows : rows[k].id # NoId /\ "variants" \notin snap.read}
        changed(k) == updateVariantTx(snap.variants[ids[k]], rows[k]) # snap.variants[ids[k]]
        written == [f.fields EXCEPT !.price = parseFormPrice(@)]
    IN  (IF f.product = NoId THEN {entry("product.create", p, "", 0, 0)}
         ELSE IF "product" \in snap.read /\ productChanges(snap.product, written) = {} THEN {}
         ELSE {entry("product.update", p, "", 0, 0)})
        \cup {entry("variant.update", ids[k], "", 0, 0) : k \in {k \in kept : changed(k)}}
        \cup {entry("variant.create", ids[k], "", 0, 0) : k \in DOMAIN rows \ (kept \cup untold)}
        \cup {entry("variant.delete", v, "", 0, 0) : v \in DOMAIN snap.variants \ {ids[k] : k \in kept}}

stockEntriesTx(rows, ids, changes) ==
    {entry("stock.update", ids[c[1]], c[2], Max({0, rows[c[1]].cells[c[2]].orig}), rows[c[1]].cells[c[2]].val) :
        c \in {c \in changes : c[1] \in DOMAIN ids}}

-----------------------------------------------------------------------------
(* Submitting.                                                             *)

(* The conflicting cells show, and are compared with, what is stored now;  *)
(* everything else comes back as it was submitted.                         *)
markStockConflicts(t, f, out) ==
    [f EXCEPT !.pc = "open", !.snap = NoSnapshot, !.submits = @ + 1, !.touched = @ \ out.conflicts,
        !.rows = [k \in DOMAIN @ |-> [@[k] EXCEPT !.cells = [p \in DOMAIN @ |->
            IF <<k, p>> \in out.conflicts THEN shownCell(t, out.ids[k], p) ELSE @[p]]]]]

refusedSave(f) == [f EXCEPT !.pc = "open", !.snap = NoSnapshot, !.submits = @ + 1]

(* What does not parse never reaches the store; else its transaction opens *)
(* with the snapshot ...                                                   *)
submitProduct(e) ==
    /\ forms[e].pc = "open" /\ forms[e].kind = "form" /\ forms[e].submits < MaxSubmits
    /\ LET f == forms[e] IN
       \/ /\ Save(shop, f).outcome = "invalid"
          /\ forms' = [forms EXCEPT ![e] = refusedSave(f)]
       \/ /\ Save(shop, f).outcome # "invalid"
          /\ \E snap \in SnapshotTx(shop, f.product) :
                forms' = [forms EXCEPT ![e].pc = "saving", ![e].snap = snap]
    /\ UNCHANGED <<shop, journal, toggle, cellSet, moves>>

(* ... and goes on to lock, write, journal and commit.                     *)
saveProduct(e) ==
    /\ forms[e].pc = "saving"
    /\ LET f == forms[e]
           out == Save(shop, f)
           in == parseProductForm(f)
       IN  /\ shop' = out.tables
           /\ CASE out.outcome = "saved" ->
                     /\ forms' = [forms EXCEPT ![e] = [NoForm EXCEPT !.pages = f.pages]]
                     /\ RecordTx(productSaveEntries(f, in.variants, out.ids, out.product)
                                 \cup stockEntriesTx(in.rows, out.ids, in.stock))
                [] out.outcome = "conflict" ->
                     /\ forms' = [forms EXCEPT ![e] = markStockConflicts(shop, f, out)]
                     /\ UNCHANGED journal
                [] OTHER -> /\ forms' = [forms EXCEPT ![e] = refusedSave(f)]
                            /\ UNCHANGED journal
    /\ UNCHANGED <<toggle, cellSet, moves>>

(* The page is listed anew: changed cells as submitted, conflicts fresh.   *)
renderStockPage(t, f, overlay) ==
    LET fresh == buildVariantRows(t, [v \in listStock(t) |-> t.variants[v]], {f.point})
    IN  [f EXCEPT !.submits = @ + 1, !.touched = @ \cap overlay,
            !.rows = [v \in DOMAIN fresh |->
                IF <<v, f.point>> \in overlay THEN [fresh[v] EXCEPT !.cells = f.rows[v].cells] ELSE fresh[v]]]

stockSave(e) ==
    /\ forms[e].pc = "open" /\ forms[e].kind = "page" /\ forms[e].submits < MaxSubmits
    /\ LET f == forms[e]
           changes == stockChanges(f.rows)
           ids == [v \in DOMAIN f.rows |-> v]
           out == applyStockChangesTx(shop, f.rows, ids, changes)
           gone == \E c \in changes : c[1] \notin DOMAIN shop.variants /\ f.rows[c[1]].cells[c[2]].orig = NoRow
       IN  IF ~cellsParse(f.rows) \/ gone
           THEN /\ forms' = [forms EXCEPT ![e] = renderStockPage(shop, f, changes)]
                /\ UNCHANGED <<shop, journal>>
           ELSE IF out.conflicts # {}
           THEN /\ forms' = [forms EXCEPT ![e] = renderStockPage(shop, f, changes \ out.conflicts)]
                /\ UNCHANGED <<shop, journal>>
           ELSE /\ forms' = [forms EXCEPT ![e] = [NoForm EXCEPT !.pages = f.pages]]
                /\ shop' = out.tables
                /\ IF changes = {} THEN UNCHANGED journal ELSE RecordTx(stockEntriesTx(f.rows, ids, changes))
    /\ UNCHANGED <<toggle, cellSet, moves>>

-----------------------------------------------------------------------------
(* The row menu and the bulk bar.                                          *)

(* The product is read, and written back whole with is_active negated.     *)
productToggleActive ==
    \/ /\ toggle = NoToggle /\ moves < MaxMoves /\ moves' = moves + 1
       /\ \E p \in DOMAIN shop.products : toggle' = [id |-> p, row |-> shop.products[p]]
       /\ UNCHANGED <<shop, forms, journal, cellSet>>
    \/ /\ toggle # NoToggle /\ toggle' = NoToggle
       /\ shop' = putProduct(shop, toggle.id,
             [toggle.row EXCEPT !.active = ~@, !.code = shop.products[toggle.id].code])
       /\ RecordTx({entry("product.active", toggle.id, "", 0, 0)})
       /\ UNCHANGED <<forms, cellSet, moves>>

(* The rows are locked in the order of their ids; those that already are   *)
(* as asked stay alone.                                                    *)
lockProductsTx(ids) == ids \cap DOMAIN shop.products
bulkWrite(ids, field, val) ==
    LET changed == {p \in lockProductsTx(ids) : shop.products[p][field] # val}
    IN  /\ shop' = [shop EXCEPT !.products =
                      [p \in DOMAIN @ |-> IF p \in changed THEN [@[p] EXCEPT ![field] = val] ELSE @[p]]]
        /\ IF changed = {} THEN UNCHANGED journal
           ELSE RecordTx({entry("product.bulk", p, "", 0, 0) : p \in changed})
BulkSetActive(ids, active) == bulkWrite(ids, "active", active)
BulkSetCategory(ids, category) == bulkWrite(ids, "category", category)

productsBulk ==
    /\ moves < MaxMoves /\ moves' = moves + 1
    /\ \E ids \in SUBSET DOMAIN shop.products :
          /\ ids # {}
          /\ \/ \E active \in BOOLEAN : BulkSetActive(ids, active)
             \/ BulkSetCategory(ids, "c2")
    /\ UNCHANGED <<forms, toggle, cellSet>>

-----------------------------------------------------------------------------
(* The API, each handler one statement, and its line in the journal.       *)

(* Soft delete: is_active = false.                                         *)
deleteProduct(p) ==
    /\ shop' = [shop EXCEPT !.products[p].active = FALSE]
    /\ RecordTx({entry("product.delete", p, "", 0, 0)})

(* Every column but the article; a body without is_active makes the        *)
(* product active.                                                         *)
productRequest(p, x, price, active) ==
    [shop.products[p] EXCEPT !.category = x[1], !.name = x[2], !.brand = x[3], !.price = price, !.active = active]
createProduct(price) ==
    LET id == shop.productIds + 1
    IN  /\ shop' = putProduct(shop, id, [category |-> "c1", name |-> <<"new", 0>>, brand |-> NoText,
                                         code |-> NoText, price |-> price, active |-> TRUE])
        /\ RecordTx({entry("product.create", id, "", 0, 0)})
updateProduct(p, x, price, active) ==
    /\ shop' = putProduct(shop, p, productRequest(p, x, price, active))
    /\ RecordTx({entry("product.update", p, "", 0, 0)})

(* An override must be positive; size and color are given.                 *)
validVariantInput(row) ==
    row.size # NoText /\ row.color # NoText /\ (row.override = NoPrice \/ row.override > 0)
variantRequest(p, r, sku, override) ==
    [product |-> p, size |-> r.size, color |-> r.color, sku |-> sku, override |-> override]
createVariant(p, r, sku, override) ==
    LET id == shop.variantIds + 1
        new == variantRequest(p, r, sku, override)
    IN  /\ validVariantInput(new) /\ ~variantTaken(shop, id, new)
        /\ shop' = putVariant(shop, id, new)
        /\ RecordTx({entry("variant.create", id, "", 0, 0)})

(* Only through the product it belongs to; every column is replaced.       *)
variantForProduct(p, v) == v \in VariantsOf(shop, p)
updateVariant(p, v, r, sku, override) ==
    LET new == variantRequest(p, r, sku, override)
    IN  /\ variantForProduct(p, v) /\ validVariantInput(new) /\ ~variantTaken(shop, v, new)
        /\ shop' = putVariant(shop, v, new)
        /\ RecordTx({entry("variant.update", v, "", 0, 0)})

(* One that was ever ordered stays: order_items refer to it.               *)
removeVariant(p, v) ==
    /\ variantForProduct(p, v) /\ v \notin shop.sold
    /\ shop' = deleteVariant(shop, v)
    /\ RecordTx({entry("variant.delete", v, "", 0, 0)})

replaceImages(p, images) ==
    /\ shop' = replaceImagesTx(shop, p, images)
    /\ RecordTx({entry("product.images", p, "", 0, 0)})

adminCatalogHandlers ==
    /\ moves < MaxMoves /\ moves' = moves + 1
    /\ \/ \E price \in FormPrices : price >= 0 /\ createProduct(parseAmount(price))
       \/ \E p \in DOMAIN shop.products :
             \/ deleteProduct(p)
             \/ \E x \in FormTexts, price \in FormPrices, active \in BOOLEAN :
                    price >= 0 /\ updateProduct(p, x, parseAmount(price), active)
             \/ \E r \in NewRows, sku \in FormSkus, a \in FormPrices : createVariant(p, r, sku, parseVariantPrice(a))
             \/ \E v \in VariantsOf(shop, p) : removeVariant(p, v)
             \/ \E v \in VariantsOf(shop, p), sku \in FormSkus, a \in FormPrices :
                   \E r \in NewRows \cup {shop.variants[v]} : updateVariant(p, v, r, sku, parseVariantPrice(a))
             \/ \E images \in FormImages : replaceImages(p, images)
    /\ UNCHANGED <<forms, toggle, cellSet>>

(* adminStockStore.Set: a stored row is locked, compared and written; with *)
(* none stored the insert comes later, and one inserted meanwhile wins     *)
(* over a caller who said what was expected.                               *)
setStock(v, point, qty, expected) ==
    LET stored == storedAt(shop, v, point)
    IN  CASE expected # NoRow /\ expected # Max({0, stored}) -> UNCHANGED <<shop, journal, cellSet>>
          [] stored # NoRow /\ expected \in {NoRow, stored} ->
                /\ shop' = putStock(shop, v, point, qty)
                /\ IF stored = qty THEN UNCHANGED journal
                   ELSE RecordTx({entry("stock.update", v, point, stored, qty)})
                /\ UNCHANGED cellSet
          [] OTHER ->
                /\ cellSet' = [pc |-> "insert", v |-> v, point |-> point, qty |-> qty, guarded |-> expected # NoRow]
                /\ UNCHANGED <<shop, journal>>

insertStock ==
    /\ cellSet.pc = "insert" /\ cellSet' = NoCell
    /\ IF \/ cellSet.v \notin DOMAIN shop.variants
          \/ cellSet.guarded /\ storedAt(shop, cellSet.v, cellSet.point) # NoRow
       THEN UNCHANGED <<shop, journal>>
       ELSE /\ shop' = putStock(shop, cellSet.v, cellSet.point, cellSet.qty)
            /\ RecordTx({entry("stock.update", cellSet.v, cellSet.point, 0, cellSet.qty)})
    /\ UNCHANGED <<forms, toggle, moves>>

(* point_staff may write only at their own point.                          *)
updateStockHandler ==
    /\ moves < MaxMoves /\ moves' = moves + 1 /\ cellSet.pc = "none"
    /\ \E e \in Editors, v \in DOMAIN shop.variants, point \in FormPoints,
          qty \in FormQtys, expected \in FormQtys \cup {NoRow} :
          /\ OwnPoint[e] \in {"", point} /\ qty >= 0
          /\ setStock(v, point, qty, expected)
    /\ UNCHANGED <<forms, toggle>>

(* An order of one piece (see Checkout).                                   *)
sale ==
    /\ moves < MaxMoves /\ moves' = moves + 1
    /\ \E c \in DOMAIN shop.stock :
          /\ shop.stock[c] > 0
          /\ shop' = [shop EXCEPT !.stock[c] = @ - 1, !.sold = @ \cup {c[1]}]
    /\ UNCHANGED <<forms, journal, toggle, cellSet>>

FormNext ==
    \/ \E e \in Editors : \/ productEditPage(e) \/ productNewPage(e) \/ stockPage(e)
                          \/ Edit(e) \/ submitProduct(e) \/ saveProduct(e) \/ stockSave(e)
    \/ productToggleActive \/ productsBulk \/ adminCatalogHandlers
    \/ updateStockHandler \/ insertStock \/ sale

-----------------------------------------------------------------------------
Saved(e) == forms[e].pc \in {"open", "saving"} /\ forms'[e].pc = "closed"

(* Where a row of the form is in the tables after the save: an existing    *)
(* variant's own id, and for the others the variant of that size and color. *)
rowIs(t, f, k, v) ==
    IF f.rows[k].id \in DOMAIN shop.variants THEN v = f.rows[k].id
    ELSE <<t.variants[v].size, t.variants[v].color>> = <<f.rows[k].size, f.rows[k].color>>
         /\ v \notin DOMAIN shop.variants

(* The product is as the page shows it.                                    *)
asShown(t, f) ==
    LET p == IF f.product = NoId THEN t.productIds ELSE f.product
        in == parseProductForm(f)
    IN  /\ \A c \in {"category", "name", "brand"} : t.products[p][c] = f.fields[c]
        /\ t.products[p].price = in.price
        /\ imagesOf(t, p) = f.images
        /\ {<<t.variants[v].size, t.variants[v].color>> : v \in VariantsOf(t, p)}
               = {<<in.rows[k].size, in.rows[k].color>> : k \in DOMAIN in.rows}

(* A page that was opened long ago overwrites nobody's stock nor price of  *)
(* a variant, and nothing it does not show: a stock cell that a save       *)
(* changes was edited, held what the page said, and holds what was typed;  *)
(* every quantity typed in a save that succeeds is stored; an override     *)
(* that changes was edited, or was a 0 that is shown as none; the active   *)
(* flag, articles and SKUs are never touched.  The rest of the product -   *)
(* category, name, brand, base price, photos, which variants there are and *)
(* their sizes and colors - ends exactly as the page shows it, also over   *)
(* what others wrote since (upsertProductTx, syncVariantsTx,               *)
(* replaceImagesTx).  A conflict writes nothing, and the page it returns   *)
(* does not conflict again unless stock moves again.                       *)
FormGuardsStockAndOverrides ==
    [][\A e \in Editors :
        LET f == forms[e]
        IN  /\ Saved(e) =>
               /\ \A v \in DOMAIN shop'.variants, p \in FormPoints :
                     quantityAt(shop, v, p) # quantityAt(shop', v, p) =>
                        \E k \in DOMAIN f.rows :
                           /\ rowIs(shop', f, k, v) /\ <<k, p>> \in f.touched
                           /\ f.rows[k].cells[p] = [val |-> storedAt(shop', v, p), orig |-> storedAt(shop, v, p)]
               /\ \A k \in DOMAIN f.rows : \A p \in DOMAIN f.rows[k].cells :
                     f.rows[k].cells[p].val \notin {Blank, Max({0, f.rows[k].cells[p].orig})} =>
                        \E v \in DOMAIN shop'.variants :
                           rowIs(shop', f, k, v) /\ storedAt(shop', v, p) = f.rows[k].cells[p].val
               /\ \A v \in DOMAIN shop.variants \cap DOMAIN shop'.variants :
                     /\ shop'.variants[v].sku = shop.variants[v].sku
                     /\ shop'.variants[v].override # shop.variants[v].override =>
                           <<v, "price">> \in f.touched \/ f.rows[v].priceOrig = 0
               /\ \A p \in DOMAIN shop.products :
                     <<shop'.products[p].active, shop'.products[p].code>> = <<shop.products[p].active, shop.products[p].code>>
               /\ f.kind = "form" => asShown(shop', f)
            /\ forms'[e].submits > f.submits =>
                  /\ shop' = shop
                  /\ f.kind = "form" /\ Save(shop, f).outcome = "conflict" =>
                        Save(shop', forms'[e]).outcome # "conflict"
      ]_<<shop, forms>>

(* The cells of the variants that are left, from their quantity to the new *)
(* one.                                                                    *)
stockMoves(t, new) ==
    {entry("stock.update", c[1], c[2], quantityAt(t, c[1], c[2]), new.stock[c]) :
        c \in {c \in DOMAIN new.stock : quantityAt(t, c[1], c[2]) # new.stock[c]}}

variantLines(what, S) == {entry(what, v, "", 0, 0) : v \in S}

(* The stock lines of a save's journal, if it is written at all, are       *)
(* exactly the cells the save changed, whatever moved meanwhile.  Its lines *)
(* on the product and the variants are exactly what is different from the  *)
(* snapshot, but for an override that others wrote since: a line for every *)
(* variant that came, went or changed.  So it does not tell that the save  *)
(* undid somebody's change made after the snapshot, and tells as new what  *)
(* a snapshot that broke off did not reach.  Without the variants it tells *)
(* of them only those whose row was new in the form, without the product   *)
(* only that it was saved (productSaveEntries, SnapshotTx).                *)
JournalTellsSave ==
    [][\A e \in Editors : Saved(e) /\ journal'.full /\ journal' # journal =>
        LET f == forms[e]
            lines(what) == {x \in journal'.entries : x.what = what}
            old == f.snap.variants
            now == IF f.kind = "form" /\ f.product # NoId THEN VariantsOf(shop', f.product) ELSE {}
            both == DOMAIN old \cap now
            look(row) == <<row.size, row.color, row.override>>
            changed == {v \in both : look(old[v]) # look(shop'.variants[v])}
            byOthers == {v \in both : shop'.variants[v].override = shop.variants[v].override
                            /\ look([old[v] EXCEPT !.override = shop'.variants[v].override]) = look(shop'.variants[v])}
        IN  /\ lines("stock.update") = stockMoves(shop, shop')
            /\ "variants" \in f.snap.read =>
                  /\ lines("variant.create") = variantLines("variant.create", now \ DOMAIN old)
                  /\ lines("variant.delete") = variantLines("variant.delete", DOMAIN old \ now)
                  /\ lines("variant.update") \subseteq variantLines("variant.update", changed)
                  /\ variantLines("variant.update", changed \ byOthers) \subseteq lines("variant.update")
            /\ "variants" \notin f.snap.read =>
                  /\ lines("variant.delete") \cup lines("variant.update") = {}
                  /\ lines("variant.create") = variantLines("variant.create",
                        {v \in DOMAIN shop'.variants :
                            \E k \in DOMAIN f.rows : f.rows[k].id = NoId /\ rowIs(shop', f, k, v)})
            /\ f.kind = "form" /\ f.product # NoId =>
                  (lines("product.update") # {}) =
                      ("product" \in f.snap.read => productChanges(f.snap.product, shop'.products[f.product]) # {})
      ]_<<shop, forms, journal>>
=============================================================================
