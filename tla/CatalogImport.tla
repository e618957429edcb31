---------------------------- MODULE CatalogImport ----------------------------
(***************************************************************************)
(* Bulk imports (internal/catalog/import.go, import_store.go), the screen  *)
(* that offers them as check and apply (internal/admin/product_import.go), *)
(* the JSON endpoint (internal/httpapi/admin_import.go) and the guard they *)
(* share (internal/importguard).  A check is one transaction that is       *)
(* rolled back, here one step; a real run imports model by model, each in  *)
(* a transaction that first looks for the product and then writes, and     *)
(* other runs may commit between the two.                                  *)
(***************************************************************************)
EXTENDS ImportPlan

CONSTANTS Uploads,         \* concurrent import requests
          ImportStaff,     \* signed-in staff members
          ImportPoints,    \* points of sale, oldest first
          MaxConcurrent,   \* import slots
          ImportBurst,     \* RateBurst
          ImportTokenTTL,
          ImportHorizon,   \* bound: the last tick
          MaxImports       \* bound: requests of one client

ASSUME ImportAssumption ==
    /\ {MaxConcurrent, ImportBurst} \subseteq Nat \ {0} /\ ImportTokenTTL \in Nat
    /\ IsFiniteSet(Uploads)

VARIABLES importNow,     \* now
          activePoints,  \* points_of_sale.is_active
          held,          \* len(Gate.slots)
          importTokens,  \* tokens left in each staff member's bucket
          tokenKey,      \* the process's signing key: its incarnation
          signed,        \* check tokens in the hands of staff
          upload,        \* one record per request
          checks         \* ghost: clean checks, and what they were of

importVars == <<importNow, activePoints, held, importTokens, tokenKey, signed, upload, checks>>

NoUpload ==
    [pc |-> "idle", kind |-> "none", count |-> 0, staff |-> "", file |-> 0, point |-> "",
     models |-> <<>>, found |-> NoId, began |-> 0]

ImportInit ==
    /\ importNow = 0 /\ activePoints = ToSet(ImportPoints)
    /\ held = 0 /\ tokenKey = 0
    /\ importTokens = [s \in ImportStaff |-> ImportBurst]
    /\ signed = {} /\ checks = {}
    /\ upload = [u \in Uploads |-> NoUpload]

-----------------------------------------------------------------------------
(* A model's transaction, as a function of the tables it runs against.     *)

ProductByModelCode(t, code) ==
    {p \in DOMAIN t.products : code # NoText /\ lower(t.products[p].code) = lower(code)}

(* With an article only products without one qualify.                      *)
ProductsByName(t, prod) ==
    {p \in DOMAIN t.products :
        /\ t.products[p].category = prod.category
        /\ lower(t.products[p].name) = lower(prod.name)
        /\ lower(t.products[p].brand) = lower(prod.brand)
        /\ prod.code = NoText \/ t.products[p].code = NoText}

VariantBySKU(t, sku) == {v \in DOMAIN t.variants : sku # NoText /\ t.variants[v].sku = sku}

(* Size and color in any spelling, the one spelled alike first.            *)
VariantBySizeColor(t, p, row) ==
    LET alike == {v \in VariantsOf(t, p) : /\ lower(t.variants[v].size) = lower(row.size)
                                           /\ lower(t.variants[v].color) = lower(row.color)}
        exact == {v \in alike : <<t.variants[v].size, t.variants[v].color>> = <<row.size, row.color>>}
    IN  IF exact # {} THEN exact ELSE alike

(* By article, then by the SKUs of the rows, then by name.  Failed is -1.  *)
Failed == -1
findProduct(t, m) ==
    LET byCode == ProductByModelCode(t, m.product.code)
        owners == {t.variants[v].product : v \in UNION {VariantBySKU(t, m.rows[n].sku) : n \in DOMAIN m.rows}}
        foreign == {p \in owners : /\ m.product.code # NoText /\ t.products[p].code # NoText
                                   /\ lower(t.products[p].code) # lower(m.product.code)}
        named == ProductsByName(t, m.product)
    IN  CASE byCode # {} -> CHOOSE p \in byCode : TRUE
          [] byCode = {} /\ (foreign # {} \/ Cardinality(owners) > 1) -> Failed
          [] byCode = {} /\ foreign = {} /\ Cardinality(owners) = 1 -> CHOOSE p \in owners : TRUE
          [] byCode = {} /\ owners = {} /\ Cardinality(named) = 1 -> CHOOSE p \in named : TRUE
          [] byCode = {} /\ owners = {} /\ named = {} -> NoId
          [] OTHER -> Failed

CreateProduct(t, prod) ==
    putProduct(t, t.productIds + 1,
               [category |-> prod.category, name |-> prod.name, brand |-> prod.brand,
                code |-> prod.code, price |-> prod.price, active |-> TRUE])

Keep(new, old) == IF new = NoText THEN old ELSE new

(* What the file carries; empty optional cells keep what is stored.        *)
UpdateProduct(t, id, prod) ==
    LET old == t.products[id]
    IN  putProduct(t, id, [old EXCEPT !.category = prod.category, !.name = prod.name,
                             !.brand = Keep(prod.brand, @), !.price = prod.price,
                             !.code = Keep(prod.code, @)])

CreateVariant(p, row) ==
    [product |-> p, size |-> row.size, color |-> row.color, sku |-> row.sku, override |-> row.override]

\* Mutant: an empty override keeps the stored one, as the other cells do.
UpdateVariantMut(old, row) ==
    [old EXCEPT !.size = row.size, !.color = row.color, !.sku = Keep(row.sku, @),
                !.override = IF row.override = NoPrice THEN @ ELSE row.override]

UpdateVariant(old, row) ==
    [old EXCEPT !.size = row.size, !.color = row.color, !.sku = Keep(row.sku, @),
                !.override = row.override]

SetStock(t, v, stock) ==
    LET cells == {v} \X DOMAIN stock
    IN  [t EXCEPT !.stock = [c \in DOMAIN @ \cup cells |-> IF c \in cells THEN stock[c[2]] ELSE @[c]]]

(* A row's variant: by SKU, else by size and color unless the product is   *)
(* new, else a new one.                                                    *)
rowVariant(t, row, p, created) ==
    LET bySKU == VariantBySKU(t, row.sku)
        match == IF bySKU = {} /\ ~created THEN VariantBySizeColor(t, p, row) ELSE bySKU
    IN  IF match = {} THEN t.variantIds + 1 ELSE CHOOSE v \in match : TRUE

(* Written, unless it collides: that fails the model.                      *)
writeRow(acc, row, p, id, new) ==
    IF \/ id \in DOMAIN acc.tables.variants /\ acc.tables.variants[id].product # p
       \/ variantTaken(acc.tables, id, new)
    THEN [acc EXCEPT !.ok = FALSE]
    ELSE [acc EXCEPT !.tables = SetStock(putVariant(@, id, new), id, row.stock), !.at = Put(@, row.line, id)]

(* One row of the loop.                                                    *)
importVariant(acc, row, p, id) ==
    writeRow(acc, row, p, id,
             IF id \in DOMAIN acc.tables.variants THEN UpdateVariant(acc.tables.variants[id], row)
             ELSE CreateVariant(p, row))
importRow(acc, row, p, created) ==
    IF ~acc.ok \/ ~row.hasVariant THEN acc
    ELSE importVariant(acc, row, p, rowVariant(acc.tables, row, p, created))

(* found is the product findProduct chose, NoId for a new one.             *)
importRows(start, rows, p, created) ==
    LET after[n \in 0..Len(rows)] ==
            IF n = 0 THEN start ELSE importRow(after[n - 1], rows[n], p, created)
    IN  after[Len(rows)]
importModel(t, m, found) ==
    CASE found = Failed -> [ok |-> FALSE, tables |-> t, at |-> <<>>]
      [] found = NoId -> importRows([ok |-> ~codeTaken(t, NoId, m.product.code), at |-> <<>>,
                                     tables |-> CreateProduct(t, m.product)], m.rows, t.productIds + 1, TRUE)
      [] OTHER -> importRows([ok |-> ~codeTaken(t, found, m.product.code), at |-> <<>>,
                              tables |-> UpdateProduct(t, found, m.product)], m.rows, found, FALSE)

(* The dry run: every model on what the ones before it left, none kept.    *)
keepModel(acc, m, out) ==
    IF failed(m) \/ ~out.ok THEN [acc EXCEPT !.ok = FALSE] ELSE [acc EXCEPT !.tables = out.tables]
dryRun(t, models) ==
    FoldLeft(LAMBDA acc, m : keepModel(acc, m, importModel(acc.tables, m, findProduct(acc.tables, m))),
             [ok |-> TRUE, tables |-> t], models)

-----------------------------------------------------------------------------
(* The guard.                                                              *)

Set(u, rec) == upload' = [upload EXCEPT ![u] = rec]

(* A token of the staff member's bucket first, then a slot.                *)
Begin(u, kinds) ==
    /\ upload[u].pc = "idle" /\ upload[u].count < MaxImports
    /\ \E s \in ImportStaff, kind \in kinds :
          /\ kind = "apply" => signed # {}
          /\ importTokens' = [importTokens EXCEPT ![s] = IF @ > 0 THEN @ - 1 ELSE @]
          /\ Set(u, [NoUpload EXCEPT !.pc = IF importTokens[s] > 0 THEN "queue" ELSE "idle",
                                     !.count = upload[u].count + 1, !.kind = kind, !.staff = s])
    /\ UNCHANGED <<shop, importNow, activePoints, held, tokenKey, signed, checks>>

beginImport(u) == Begin(u, {"check", "apply"})
beginJSONImport(u) == Begin(u, {"json"})

Acquire(u) ==
    /\ upload[u].pc = "queue" /\ held < MaxConcurrent
    /\ held' = held + 1
    /\ Set(u, [upload[u] EXCEPT !.pc = "read"])
    /\ UNCHANGED <<shop, importNow, activePoints, importTokens, tokenKey, signed, checks>>

(* The wait is over or the client is gone: no slot was taken.              *)
Busy(u) ==
    /\ upload[u].pc = "queue"
    /\ Set(u, [NoUpload EXCEPT !.count = upload[u].count])
    /\ UNCHANGED <<shop, importNow, activePoints, held, importTokens, tokenKey, signed, checks>>

(* The deferred release, on every way out of a handler.                    *)
release(u) ==
    /\ held' = held - 1
    /\ Set(u, [NoUpload EXCEPT !.count = upload[u].count])

-----------------------------------------------------------------------------
(* Reading the upload.                                                     *)

(* A point that is not active is refused; none is the oldest active one.   *)
DefaultPoint ==
    LET S == {i \in DOMAIN ImportPoints : ImportPoints[i] \in activePoints}
    IN  IF S = {} THEN "" ELSE ImportPoints[Min(S)]
resolveTargetPoint(point) == IF point = "" THEN DefaultPoint ELSE point

(* .csv or .xlsx; with the header row it is what can be parsed at all.     *)
readable(file, point) ==
    /\ file.format \in {"csv", "xlsx"}
    /\ canonicalHeaders(file.headers)
    /\ point \in activePoints \cup {""}

\* Mutant: the stock point is not part of what is signed.
importTokenMACMut(file, point, staff, issued, key) ==
    [file |-> file, point |-> "", staff |-> staff, issued |-> issued, key |-> key]

(* The MAC covers the file and format, the point, the staff member, when.  *)
importTokenMAC(file, point, staff, issued, key) ==
    [file |-> file, point |-> point, staff |-> staff, issued |-> issued, key |-> key]

validImportToken(token, file, point, staff) ==
    /\ importNow - token.issued \in 0..ImportTokenTTL
    /\ token = importTokenMAC(file, point, staff, token.issued, tokenKey)

(* blocksImport: an error, a skipped row, or nothing to import.            *)
blocksImport(models) == models = <<>> \/ ~dryRun(shop, models).ok

(* The upload is read and planned; for the screen's real run only with a   *)
(* token for exactly this upload.                                          *)
readImportUpload(u) ==
    /\ upload[u].pc = "read"
    /\ \E f \in DOMAIN ImportFiles, point \in ToSet(ImportPoints) \cup {""} :
          \/ /\ upload[u].kind # "apply" \/ \E token \in signed : validImportToken(token, f, point, upload[u].staff)
             /\ readable(ImportFiles[f], point)
             /\ Set(u, [upload[u] EXCEPT !.pc = "planned", !.file = f, !.point = point, !.began = importNow,
                          !.models = plan(ImportFiles[f], resolveTargetPoint(point), activePoints)])
             /\ UNCHANGED held
          \/ /\ \/ ~readable(ImportFiles[f], point)
                \/ upload[u].kind = "apply" /\ \E token \in signed : ~validImportToken(token, f, point, upload[u].staff)
             /\ release(u)
    /\ UNCHANGED <<shop, importNow, activePoints, importTokens, tokenKey, signed, checks>>

(* The check: a token for a clean file, if the page is htmx's.             *)
productImportCheck(u) ==
    /\ upload[u].pc = "planned" /\ upload[u].kind = "check"
    /\ LET up == upload[u]
           token == importTokenMAC(up.file, up.point, up.staff, importNow, tokenKey)
       IN  IF ~blocksImport(up.models)
           THEN /\ \E htmx \in BOOLEAN : signed' = IF htmx THEN signed \cup {token} ELSE signed
                /\ checks' = checks \cup {<<up.file, up.point, up.staff, importNow, tokenKey>>}
           ELSE UNCHANGED <<signed, checks>>
    /\ release(u)
    /\ UNCHANGED <<shop, importNow, activePoints, importTokens, tokenKey>>

(* A real run: the models without an error in the file, whatever became of *)
(* the others.                                                             *)
ImportProducts(u) ==
    /\ LET order == inOrder({n \in DOMAIN upload[u].models : ~failed(upload[u].models[n])})
           good == [n \in DOMAIN order |-> upload[u].models[order[n]]]
       IN  IF good = <<>> THEN release(u)
           ELSE Set(u, [upload[u] EXCEPT !.pc = "find", !.models = good]) /\ UNCHANGED held
    /\ UNCHANGED <<shop, importNow, activePoints, importTokens, tokenKey, signed, checks>>

productImportApply(u) ==
    upload[u].pc = "planned" /\ upload[u].kind = "apply" /\ ImportProducts(u)

(* Dry or not: a dry run answers with its report, and gives no token.      *)
importProductsHandler(u) ==
    /\ upload[u].pc = "planned" /\ upload[u].kind = "json"
    /\ \/ ImportProducts(u)
       \/ release(u) /\ UNCHANGED <<shop, importNow, activePoints, importTokens, tokenKey, signed, checks>>

-----------------------------------------------------------------------------
(* Model by model.                                                         *)

Find(u) ==
    /\ upload[u].pc = "find"
    /\ Set(u, [upload[u] EXCEPT !.pc = "write", !.found = findProduct(shop, Head(upload[u].models))])
    /\ UNCHANGED <<shop, importNow, activePoints, held, importTokens, tokenKey, signed, checks>>

(* Committed, or rolled back and reported; then the next model.            *)
commitModel(u, out, rest) ==
    /\ shop' = IF out.ok THEN out.tables ELSE shop
    /\ IF rest = <<>> THEN release(u)
       ELSE Set(u, [upload[u] EXCEPT !.pc = "find", !.models = rest, !.found = NoId]) /\ UNCHANGED held
Write(u) ==
    /\ upload[u].pc = "write"
    /\ commitModel(u, importModel(shop, Head(upload[u].models), upload[u].found), Tail(upload[u].models))
    /\ UNCHANGED <<importNow, activePoints, importTokens, tokenKey, signed, checks>>

(* The client goes away: the models committed so far stay.                 *)
ImportCancelled(u) ==
    /\ upload[u].pc \in {"read", "planned", "find", "write"}
    /\ release(u)
    /\ UNCHANGED <<shop, importNow, activePoints, importTokens, tokenKey, signed, checks>>

-----------------------------------------------------------------------------
(* Around it: time, a point is switched off, the process restarts.         *)

ImportTick ==
    /\ importNow < ImportHorizon
    /\ importNow' = importNow + 1
    /\ importTokens' = [s \in ImportStaff |-> Min({ImportBurst, importTokens[s] + 1})]
    /\ UNCHANGED <<shop, activePoints, held, tokenKey, signed, upload, checks>>

PointSwitched(p) ==
    /\ p \in activePoints /\ activePoints' = activePoints \ {p}
    /\ UNCHANGED <<shop, importNow, held, importTokens, tokenKey, signed, upload, checks>>

(* newImportTokenKey: a restart invalidates every token and frees slots.   *)
ImportRestart ==
    /\ tokenKey < 1 /\ tokenKey' = tokenKey + 1
    /\ held' = 0 /\ importTokens' = [s \in ImportStaff |-> ImportBurst]
    /\ upload' = [u \in Uploads |-> [NoUpload EXCEPT !.count = upload[u].count]]
    /\ UNCHANGED <<shop, importNow, activePoints, signed, checks>>

ImportNext ==
    \/ \E u \in Uploads : \/ beginImport(u) \/ beginJSONImport(u) \/ Acquire(u) \/ Busy(u)
                          \/ readImportUpload(u) \/ productImportCheck(u)
                          \/ productImportApply(u) \/ importProductsHandler(u) \/ Find(u) \/ Write(u) \/ ImportCancelled(u)
    \/ ImportTick \/ ImportRestart
    \/ \E p \in activePoints : PointSwitched(p)

ImportSpec == ImportInit /\ TablesSound(shop) /\ [][ImportNext]_<<shop, importVars>>

-----------------------------------------------------------------------------
(* A row as the tables have it: its variant, spelled and priced as in the  *)
(* file, with the stock the file gives it.                                 *)
RowWritten(t, m, row, v) ==
    /\ v \in DOMAIN t.variants
    /\ t.variants[v].size = row.size /\ t.variants[v].color = row.color
    /\ row.sku # NoText => t.variants[v].sku = row.sku
    /\ effectivePrice(t, v) = IF row.override = NoPrice THEN m.product.price ELSE row.override
    /\ \A p \in DOMAIN row.stock : quantityAt(t, v, p) = row.stock[p]

(* A model that is committed is in the tables as its file has it, also     *)
(* when another import commits between its lookup and its writes: each row *)
(* reported created or updated is a variant at the file's price, with the  *)
(* file's stock (unless a later row, by its SKU, took the same variant     *)
(* over).  And it touches nothing the file does not name: no other         *)
(* product, no other variant's row or stock, and no variant is lost.       *)
AsWritten(m, at, owner) ==
    /\ \A n \in DOMAIN m.rows : m.rows[n].hasVariant =>
          \/ RowWritten(shop', m, m.rows[n], at[m.rows[n].line])
          \/ \E k \in DOMAIN m.rows : k > n /\ m.rows[k].hasVariant /\ at[m.rows[k].line] = at[m.rows[n].line]
    /\ \A p \in DOMAIN shop.products \ {owner} : shop'.products[p] = shop.products[p]
    /\ \A v \in DOMAIN shop.variants \ Range(at) :
          /\ v \in DOMAIN shop'.variants /\ shop'.variants[v] = shop.variants[v]
          /\ \A p \in ToSet(ImportPoints) : quantityAt(shop', v, p) = quantityAt(shop, v, p)
RowsAsWritten ==
    [][\A u \in Uploads : upload[u].pc = "write" /\ shop' # shop /\ upload'[u] # upload[u] =>
          AsWritten(Head(upload[u].models),
                    importModel(shop, Head(upload[u].models), upload[u].found).at,
                    IF upload[u].found = NoId THEN shop.productIds + 1 ELSE upload[u].found)
      ]_<<shop, upload>>

(* Slots are held by running imports alone, whatever way each of them      *)
(* ends; and the screen imports only what this process found clean, for    *)
(* the same file, point and staff member, no longer than the time to live  *)
(* before the run began.                                                   *)
ImportGuarded ==
    /\ held = Cardinality({u \in Uploads : upload[u].pc \in {"read", "planned", "find", "write"}})
    /\ held <= MaxConcurrent
    /\ \A u \in Uploads : upload[u].pc \in {"find", "write"} /\ upload[u].kind = "apply" =>
          \E c \in checks : /\ <<c[1], c[2], c[3], c[5]>> = <<upload[u].file, upload[u].point, upload[u].staff, tokenKey>>
                            /\ upload[u].began - c[4] <= ImportTokenTTL
=============================================================================
