---------------------------- MODULE CatalogTables ----------------------------
(***************************************************************************)
(* The catalogue's tables as one value, so that a transaction is a         *)
(* function from tables to tables.  A text is a pair <<word, spelling>>:   *)
(* lower() and Unicode folding compare words, equality compares both.      *)
(* Prices are in tyiyn; NoPrice is NULL.  Ids are never used again.        *)
(***************************************************************************)
EXTENDS Integers, Sequences, FiniteSets, FiniteSetsExt, Functions

VARIABLE shop    \* products, product_variants and stock

NoText == <<"", 0>>
NoPrice == -1
NoId == 0

(* lower(): the word without its spelling.                                 *)
lower(text) == text[1]

(* products: id -> row, variants: id -> row, stock: <<variant, point>> ->  *)
(* quantity, images: product -> its photos in order, sold: variants that   *)
(* order_items refer to.                                                   *)
EmptyTables ==
    [products |-> <<>>, variants |-> <<>>, stock |-> <<>>, images |-> <<>>, sold |-> {},
     productIds |-> 0, variantIds |-> 0]

(* The columns of a row, and the variant's reference to its product.       *)
ProductColumns == {"category", "name", "brand", "code", "price", "active"}
VariantColumns == {"product", "size", "color", "sku", "override"}
Has(row, columns) == row = [c \in columns |-> row[c]]
TablesSound(t) ==
    /\ Has(t, DOMAIN EmptyTables)
    /\ \A p \in DOMAIN t.products : Has(t.products[p], ProductColumns)
    /\ \A v \in DOMAIN t.variants :
          Has(t.variants[v], VariantColumns) /\ t.variants[v].product \in DOMAIN t.products

(* Constraint names of the tables: which rows collide.                     *)
codeTaken(t, id, code) ==
    code # NoText /\ \E p \in DOMAIN t.products \ {id} : lower(t.products[p].code) = lower(code)
variantTaken(t, id, row) ==
    \E v \in DOMAIN t.variants \ {id} :
        LET other == t.variants[v]
        IN  \/ <<other.product, other.size, other.color>> = <<row.product, row.size, row.color>>
            \/ row.sku # NoText /\ other.sku = row.sku

Put(f, k, val) == [x \in DOMAIN f \cup {k} |-> IF x = k THEN val ELSE f[x]]
Without(f, S) == [x \in DOMAIN f \ S |-> f[x]]

putProduct(t, id, row) ==
    [t EXCEPT !.products = Put(@, id, row), !.productIds = Max({@, id})]
putVariant(t, id, row) ==
    [t EXCEPT !.variants = Put(@, id, row), !.variantIds = Max({@, id})]

(* ON DELETE CASCADE takes the stock of a variant with it.                 *)
deleteVariant(t, id) ==
    [t EXCEPT !.variants = Without(@, {id}),
              !.stock = Without(@, {c \in DOMAIN @ : c[1] = id})]
putStock(t, v, point, qty) == [t EXCEPT !.stock = Put(@, <<v, point>>, qty)]

VariantsOf(t, p) == {v \in DOMAIN t.variants : t.variants[v].product = p}
NoRow == -1
storedAt(t, v, point) ==
    IF <<v, point>> \in DOMAIN t.stock THEN t.stock[<<v, point>>] ELSE NoRow
quantityAt(t, v, point) == Max({0, storedAt(t, v, point)})
imagesOf(t, p) == IF p \in DOMAIN t.images THEN t.images[p] ELSE <<>>

(* What a variant sells for: COALESCE(price_override, base_price).         *)
effectivePrice(t, v) ==
    IF t.variants[v].override # NoPrice THEN t.variants[v].override
    ELSE t.products[t.variants[v].product].price

=============================================================================
