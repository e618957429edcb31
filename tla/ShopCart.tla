------------------------------ MODULE ShopCart ------------------------------
(***************************************************************************)
(* A customer's way from the cart to an order: the cart in the database,   *)
(* shared by every tab and the app, delivery zones, the checkout page and  *)
(* its submit, orders of the app, and the page the payment provider sends  *)
(* the customer back to.  A handler that reads and then writes takes two   *)
(* steps; createOrder's transaction reads the zone, then the prices, then  *)
(* inserts.  Its row locks and the shelf are the subject of Checkout, the  *)
(* payment of OrderPayments: here stock can just be short, and a session   *)
(* opens or does not.  Amounts are whole tyiyn (numeric(12, 2) columns).   *)
(*                                                                         *)
(* Sources: internal/orders/{cart,order,delivery_zones}.go,                *)
(* internal/web/{cart,checkout,pay}_handlers.go, product_actions.go,       *)
(* internal/httpapi/orders.go, internal/admin/delivery.go,                 *)
(* internal/storefront/addresses.go.                                       *)
(***************************************************************************)
EXTENDS Integers, Sequences, FiniteSets, FiniteSetsExt, Functions

CONSTANTS
    CartVariants,   \* product variants
    ZoneIds,        \* delivery_zones ids
    AddressIds,     \* customer_addresses ids
    CheckoutKeys,   \* idempotency keys, one for each rendered checkout form
    Visits,         \* requests in flight
    VisitInputs,    \* what they may ask for
    GoodsPrices,    \* prices staff may set
    ZoneTerms,      \* <<fee, free_from>> staff may set; free_from 0 is NULL
    FlatFee,        \* Settings.DeliveryFee
    MaxCartQty,     \* MaxCartQty
    PayPollMax,     \* payPollMax
    MaxShopEdits,   \* bound: changes of the cart, the goods and the zones
    MaxVisits       \* bound: requests

ASSUME CartAssumption ==
    /\ MaxCartQty \in Nat \ {0} /\ FlatFee \in Nat /\ PayPollMax \in Nat
    /\ IsFiniteSet(CartVariants)
    /\ GoodsPrices \subseteq Nat /\ GoodsPrices # {} /\ ZoneTerms \subseteq Nat \X Nat
    /\ "" \notin CheckoutKeys \cup ZoneIds \cup AddressIds

(* Each kind of request with what its handler has validated.               *)
ASSUME InputsAssumption ==
    \A in \in VisitInputs :
        \/ in.kind \in {"add", "buy"} /\ in.variant \in CartVariants /\ in.qty \in Nat
        \/ in.kind = "adjust" /\ in.variant \in CartVariants /\ in.delta \in Int
        \/ in.kind = "submit" /\ in.key \in CheckoutKeys
        \/ in.kind = "order" /\ in.key \in CheckoutKeys \cup {""} /\ in.lines \in Seq(CartVariants \X Nat)
        \/ in.kind = "zoneUpdate" /\ in.zone \in ZoneIds /\ in.terms \in Nat \X Nat
        \/ in.kind = "zoneToggle" /\ in.zone \in ZoneIds

VARIABLES
    basket,     \* cart_items.qty of the customer (0: no row)
    goods,      \* each variant's price (override or base) and products.is_active
    zoneRows,   \* delivery_zones
    book,       \* ids of the customer's addresses
    bought,     \* the customer's orders rows, in the order of their inserts
    ask,        \* each request: where it is and what it has read
    pageOf,     \* checkout pages by key: the amounts they show
    shopEdits,  \* changes so far of what a page is computed from
    visitCount  \* requests so far

cartVars == <<basket, goods, zoneRows, book, bought, ask, pageOf, shopEdits, visitCount>>

NoCheckoutKey == ""
NoZone == [fee |-> 0, freeFrom |-> 0, active |-> FALSE, stored |-> FALSE]
zoneRow(t, active) == [fee |-> t[1], freeFrom |-> t[2], active |-> active, stored |-> TRUE]
NoItems == [v \in CartVariants |-> 0]
NoAsk == [pc |-> "idle", in |-> [kind |-> "none", key |-> NoCheckoutKey], items |-> NoItems,
          zone |-> NoZone, prices |-> NoItems, active |-> FALSE, known |-> {}, order |-> 0, err |-> FALSE]
NoPage == [shown |-> FALSE, edits |-> 0, pickup |-> 0, flat |-> 0, zones |-> <<>>, cart |-> 0]

CartInit ==
    /\ basket \in [CartVariants -> {0, 1}]
    /\ goods = [v \in CartVariants |-> [price |-> Min(GoodsPrices), active |-> TRUE]]
    /\ zoneRows \in [ZoneIds -> {NoZone} \cup {zoneRow(t, TRUE) : t \in ZoneTerms}]
    /\ book = AddressIds
    /\ bought = <<>>
    /\ ask = [r \in Visits |-> NoAsk]
    /\ pageOf = [k \in CheckoutKeys |-> NoPage]
    /\ shopEdits = 0 /\ visitCount = 0

itemsOf(items) == {v \in CartVariants : items[v] > 0}

priceTotal(items, prices) == SumFunctionOnSet([v \in CartVariants |-> items[v] * prices[v]], CartVariants)

currentPrices == [v \in CartVariants |-> goods[v].price]

-----------------------------------------------------------------------------
(* The fee of a delivery.                                                  *)

activeZones == {z \in ZoneIds : zoneRows[z].active}

FeeFor(zone, itemsTotal) ==
    IF zone.freeFrom > 0 /\ itemsTotal >= zone.freeFrom THEN 0 ELSE zone.fee

deliveryFee(isDelivery, zone, itemsTotal) ==
    CASE ~isDelivery -> 0
      [] isDelivery /\ zone.stored -> FeeFor(zone, itemsTotal)
      [] OTHER -> FlatFee

\* What the zone of a delivery order may be, and when it is refused.
zoneRefused(id) == IF id = "" THEN activeZones # {} ELSE id \notin activeZones
resolveDeliveryZoneTx(id) == IF id = "" THEN NoZone ELSE zoneRows[id]

-----------------------------------------------------------------------------
(* The pages.                                                              *)

\* The cart page: the flat fee, or the cheapest zone's.
cartPageTotal(itemsTotal) ==
    itemsTotal + (IF activeZones = {} THEN FlatFee ELSE Min({FeeFor(zoneRows[z], itemsTotal) : z \in activeZones}))

\* Each option of the checkout page with its total.
checkoutZones(itemsTotal) == [z \in activeZones |-> itemsTotal + FeeFor(zoneRows[z], itemsTotal)]

\* GET /checkout with lines in the cart: one form with a key of its own.  The
\* page is what its reads found at one moment.
checkoutForm(k) ==
    /\ ~pageOf[k].shown /\ itemsOf(basket) # {}
    /\ LET total == priceTotal(basket, currentPrices) IN
       pageOf' = [pageOf EXCEPT ![k] =
            [shown |-> TRUE, edits |-> shopEdits, pickup |-> total, flat |-> total + FlatFee,
             zones |-> checkoutZones(total), cart |-> cartPageTotal(total)]]
    /\ UNCHANGED <<basket, goods, zoneRows, book, bought, ask, shopEdits, visitCount>>

\* The state the payment result page shows.
payState(o) ==
    CASE o.status = "cancelled" -> "cancelled"
      [] o.status # "cancelled" /\ o.pay = "none" -> "unknown"
      [] o.status # "cancelled" /\ o.pay # "none" -> o.pay

PaymentRetryable(o) == o.online /\ o.status = "placed" /\ o.pay \in {"pending", "failed"}

\* GET /pay/return/{id} and its status poll: wait, or offer another attempt.
buildPayReturnData(o, poll) ==
    LET state == payState(o) IN
    [state |-> state,
     poll |-> state = "pending" /\ poll < PayPollMax,
     retryable |-> (state = "failed" \/ (state = "pending" /\ poll >= PayPollMax)) /\ PaymentRetryable(o)]

-----------------------------------------------------------------------------
(* Requests.                                                               *)

goesTo(r, pc) == ask' = [ask EXCEPT ![r].pc = pc]
ends(r) == ask' = [ask EXCEPT ![r] = NoAsk]
lands(r, o) == ask' = [ask EXCEPT ![r] = [NoAsk EXCEPT !.pc = "landed", !.in.key = ask[r].in.key, !.order = o]]
reads == UNCHANGED <<basket, goods, zoneRows, book, bought, pageOf, shopEdits, visitCount>>
wroteBasket == shopEdits' = shopEdits + 1 /\ UNCHANGED <<goods, zoneRows, book, bought, pageOf, visitCount>>
wroteZones == shopEdits' = shopEdits + 1 /\ UNCHANGED <<basket, goods, book, bought, pageOf, visitCount>>

capped(n) == IF n > MaxCartQty THEN MaxCartQty ELSE n

\* Lines of one variant are folded into one.
mergeItemQuantities(lines) ==
    [v \in CartVariants |->
        SumFunctionOnSet([i \in DOMAIN lines |-> IF lines[i][1] = v THEN lines[i][2] ELSE 0], DOMAIN lines)]

\* The customer's orders with this key, placed within IdempotencyWindow (that
\* keys age is in Checkout).
withKey(k) == {o \in DOMAIN bought : k # NoCheckoutKey /\ bought[o].key = k}

firstStep == [add |-> "check", buy |-> "list", adjust |-> "list", submit |-> "list", order |-> "merge",
              zoneUpdate |-> "zoneGet", zoneToggle |-> "zoneGet"]

\* A request arrives; a submit comes from a form that was rendered.
arrive(r, in) ==
    /\ ask[r].pc \in {"idle", "landed", "empty"} /\ visitCount < MaxVisits
    /\ in.kind = "submit" => pageOf[in.key].shown
    /\ ask' = [ask EXCEPT ![r] = [NoAsk EXCEPT
            !.pc = firstStep[in.kind], !.in = in,
            !.known = IF in.kind \in {"submit", "order"} THEN withKey(in.key) ELSE {}]]
    /\ visitCount' = visitCount + 1
    /\ UNCHANGED <<basket, goods, zoneRows, book, bought, pageOf, shopEdits>>

\* CartRepo.List, the first read of "buy", the stepper and the submit.
listCart(r) ==
    /\ ask[r].pc = "list"
    /\ LET in == ask[r].in IN
       IF in.kind = "buy" /\ basket[in.variant] > 0 THEN ends(r)
       ELSE ask' = [ask EXCEPT ![r].items = basket,
                ![r].pc = CASE in.kind = "buy" -> "check"
                            [] in.kind = "adjust" -> "setQty"
                            [] in.kind = "submit" -> IF itemsOf(basket) = {} THEN "lookup" ELSE "lock"]
    /\ reads

\* Add: the product must be on sale ...
addCheck(r) ==
    /\ ask[r].pc = "check"
    /\ IF goods[ask[r].in.variant].active THEN goesTo(r, "upsert") ELSE ends(r)
    /\ reads

\* ... and the row is inserted, or its quantity raised up to the cap.
addUpsert(r) ==
    /\ ask[r].pc = "upsert" /\ shopEdits < MaxShopEdits
    /\ basket' = [basket EXCEPT ![ask[r].in.variant] = capped(@ + ask[r].in.qty)]
    /\ ends(r) /\ wroteBasket

\* UpdateQty: zero removes, a line that is gone is refused.
setQty(v, n) == basket' = [basket EXCEPT ![v] = IF n <= 0 THEN 0 ELSE n]
qtyRefused(v, n) == n > MaxCartQty \/ (n > 0 /\ basket[v] = 0)

\* The stepper writes the quantity it has read plus or minus one.
cartAdjustQty(r) ==
    /\ ask[r].pc = "setQty"
    /\ LET v == ask[r].in.variant
           n == ask[r].items[v] + ask[r].in.delta
       IN  \/ qtyRefused(v, n) /\ ends(r) /\ reads
           \/ /\ ~qtyRefused(v, n) /\ shopEdits < MaxShopEdits
              /\ setQty(v, n) /\ ends(r) /\ wroteBasket

\* PUT and DELETE of the app: one statement.
updateCartItem(v, n) ==
    /\ ~qtyRefused(v, n) /\ shopEdits < MaxShopEdits
    /\ setQty(v, n) /\ wroteBasket /\ UNCHANGED ask

-----------------------------------------------------------------------------
(* Placing an order.                                                       *)

answer(o, err) == [order |-> o, err |-> err]

\* Mutant: an emptied cart is an error, whoever emptied it.
findOrderByCheckoutKeyMut(k) == {answer(0, FALSE)}

\* What the lookup may bring: the order with the key, none, or an error of one
\* of its two statements, which is logged and taken for none.
findOrderByCheckoutKey(k) ==
    {answer(0, TRUE)}
        \cup (IF withKey(k) = {} THEN {answer(0, FALSE)} ELSE {answer(o, FALSE) : o \in withKey(k)})

\* A submit that finds the cart empty looks for the order it has placed;
\* without one it answers empty_cart.
lookupOrder(r) ==
    /\ ask[r].pc = "lookup"
    /\ \E a \in findOrderByCheckoutKey(ask[r].in.key) :
          \/ a.order # 0 /\ lands(r, a.order)
          \/ a.order = 0 /\ ask' = [ask EXCEPT ![r].pc = "empty", ![r].err = a.err]
    /\ reads

\* POST /api/v1/orders brings its own lines.
orderItems(r) ==
    /\ ask[r].pc = "merge"
    /\ LET items == mergeItemQuantities(ask[r].in.lines) IN
       IF itemsOf(items) = {} \/ \E v \in CartVariants : items[v] > MaxCartQty THEN ends(r)
       ELSE ask' = [ask EXCEPT ![r].items = items, ![r].pc = "lock"]
    /\ reads

inTransaction(r) == ask[r].pc \in {"prices", "insert"}

\* Under the customer's lock: a known key replays its order; then the
\* address and the zone.
openOrder(r) ==
    /\ ask[r].pc = "lock" /\ \A s \in Visits : ~inTransaction(s)
    /\ LET in == ask[r].in IN
       \/ \E o \in withKey(in.key) : lands(r, o)
       \/ /\ withKey(in.key) = {}
          /\ in.delivery /\ (in.address \notin book \/ zoneRefused(in.zone))
          /\ ends(r)
       \/ /\ withKey(in.key) = {}
          /\ in.delivery => in.address \in book /\ ~zoneRefused(in.zone)
          /\ ask' = [ask EXCEPT ![r].pc = "prices",
                            ![r].zone = IF in.delivery THEN resolveDeliveryZoneTx(in.zone) ELSE NoZone]
    /\ reads

\* The current prices; a product off sale refuses the order.
loadVariantSnapshots(r) ==
    /\ ask[r].pc = "prices"
    /\ IF \A v \in itemsOf(ask[r].items) : goods[v].active
       THEN ask' = [ask EXCEPT ![r].prices = currentPrices, ![r].pc = "insert"]
       ELSE ends(r)
    /\ reads

\* The row's totals, from what the transaction has read.
newOrder(r) ==
    LET in == ask[r].in
        total == priceTotal(ask[r].items, ask[r].prices)
        fee == deliveryFee(in.delivery, ask[r].zone, total)
    IN  [items |-> ask[r].items, total |-> total + fee, fee |-> fee,
         key |-> in.key, online |-> in.online, status |-> "placed", retried |-> FALSE,
         pay |-> IF in.online THEN "pending" ELSE "none",
         zone |-> IF in.delivery THEN in.zone ELSE "", address |-> IF in.delivery THEN in.address ELSE "",
         fresh |-> in.kind = "submit" /\ pageOf[in.key].edits = shopEdits /\ ask[r].items = basket]

\* clearCartLinesTx: the ordered variants leave the cart, for the site only.
clearCartLinesTx(r) ==
    [v \in CartVariants |-> IF ask[r].in.kind = "submit" /\ ask[r].items[v] > 0 THEN 0 ELSE basket[v]]

\* The zone and the address the row refers to must still be there.
insertOrder(r) ==
    /\ ask[r].pc = "insert"
    /\ ask[r].in.delivery => ask[r].in.address \in book
    /\ ask[r].zone.stored => zoneRows[ask[r].in.zone].stored
    /\ bought' = Append(bought, newOrder(r))
    /\ basket' = clearCartLinesTx(r)
    /\ shopEdits' = shopEdits + (IF basket' = basket THEN 0 ELSE 1)
    /\ IF ask[r].in.online THEN ask' = [ask EXCEPT ![r].pc = "session", ![r].order = Len(bought) + 1]
                            ELSE lands(r, Len(bought) + 1)
    /\ UNCHANGED <<goods, zoneRows, book, pageOf, visitCount>>

\* Stock is short, a limit is reached, a statement fails: the request is
\* answered with an error and its transaction undone.  After the commit it is
\* the session's compensation that fails; the order waits for its expiry.
requestFails(r) ==
    /\ ask[r].pc \notin {"idle", "landed", "empty", "merge", "lookup"}
    /\ ends(r) /\ reads

\* The provider opens the session ...
openSession(r) == ask[r].pc = "session" /\ lands(r, ask[r].order) /\ reads

\* ... or does not: unless its attempt is settled or replaced by then, the
\* order is cancelled and its key given back.
abortOrder(r) ==
    /\ ask[r].pc = "session"
    /\ LET o == ask[r].order IN
       bought' = IF bought[o].pay = "pending" /\ ~bought[o].retried
                 THEN [bought EXCEPT ![o].status = "cancelled", ![o].pay = "failed", ![o].key = NoCheckoutKey]
                 ELSE bought
    /\ ends(r)
    /\ UNCHANGED <<basket, goods, zoneRows, book, pageOf, shopEdits, visitCount>>

\* POST /pay/{id}/retry: another attempt takes the place of the first.
payRetry(o) ==
    /\ PaymentRetryable(bought[o])
    /\ bought' = [bought EXCEPT ![o].pay = "pending", ![o].retried = TRUE]
    /\ UNCHANGED <<basket, goods, zoneRows, book, ask, pageOf, shopEdits, visitCount>>

\* CancelByCustomer, or the expiry of an order left unpaid.
cancelOrder(o) ==
    /\ bought[o].status = "placed" /\ bought[o].pay # "paid"
    /\ bought' = [bought EXCEPT ![o].status = "cancelled", ![o].pay = IF @ = "pending" THEN "cancelled" ELSE @]
    /\ UNCHANGED <<basket, goods, zoneRows, book, ask, pageOf, shopEdits, visitCount>>

\* The bank's word on the pending attempt.
settleOrder(o, pay) ==
    /\ bought[o].status = "placed" /\ bought[o].pay = "pending"
    /\ bought' = [bought EXCEPT ![o].pay = pay, ![o].status = IF pay = "cancelled" THEN "cancelled" ELSE @]
    /\ UNCHANGED <<basket, goods, zoneRows, book, ask, pageOf, shopEdits, visitCount>>

-----------------------------------------------------------------------------
(* Staff: zones and goods; the customer's addresses.                       *)

\* DeliveryZoneRepo.Create from the screen: a new zone is active.
zoneCreate(z, t) ==
    /\ ~zoneRows[z].stored /\ shopEdits < MaxShopEdits
    /\ zoneRows' = [zoneRows EXCEPT ![z] = zoneRow(t, TRUE)]
    /\ wroteZones /\ UNCHANGED ask

\* A zone an order refers to stays (ON DELETE RESTRICT).
zoneDelete(z) ==
    /\ zoneRows[z].stored /\ shopEdits < MaxShopEdits
    /\ \A o \in DOMAIN bought : bought[o].zone # z
    /\ zoneRows' = [zoneRows EXCEPT ![z] = NoZone]
    /\ wroteZones /\ UNCHANGED ask

\* update and toggle read the zone first ...
zoneGet(r) ==
    /\ ask[r].pc = "zoneGet"
    /\ LET row == zoneRows[ask[r].in.zone] IN
       IF row.stored THEN ask' = [ask EXCEPT ![r].active = row.active, ![r].pc = "zoneWrite"] ELSE ends(r)
    /\ reads

\* ... and write the whole row, or the flag, with the state they have read.
zoneWrite(r) ==
    /\ ask[r].pc = "zoneWrite"
    /\ LET in == ask[r].in IN
       \/ /\ ~zoneRows[in.zone].stored /\ ends(r) /\ reads
       \/ /\ zoneRows[in.zone].stored /\ shopEdits < MaxShopEdits
          /\ zoneRows' = [zoneRows EXCEPT ![in.zone] =
                IF in.kind = "zoneUpdate" THEN zoneRow(in.terms, ask[r].active)
                                          ELSE [@ EXCEPT !.active = ~ask[r].active]]
          /\ ends(r) /\ wroteZones

\* A product form: a new price, or off sale.
editGoods(v, p, active) ==
    /\ goods[v] # [price |-> p, active |-> active] /\ shopEdits < MaxShopEdits
    /\ goods' = [goods EXCEPT ![v] = [price |-> p, active |-> active]]
    /\ shopEdits' = shopEdits + 1
    /\ UNCHANGED <<basket, zoneRows, book, bought, ask, pageOf, visitCount>>

\* AddressRepo.Delete: an address an order refers to stays.
deleteAddress(a) ==
    /\ a \in book /\ \A o \in DOMAIN bought : bought[o].address # a
    /\ book' = book \ {a}
    /\ UNCHANGED <<basket, goods, zoneRows, bought, ask, pageOf, shopEdits, visitCount>>

CartNext ==
    \/ \E k \in CheckoutKeys : checkoutForm(k)
    \/ \E r \in Visits :
          \/ \E in \in VisitInputs : arrive(r, in)
          \/ listCart(r) \/ addCheck(r) \/ addUpsert(r) \/ cartAdjustQty(r)
          \/ lookupOrder(r) \/ orderItems(r) \/ openOrder(r) \/ loadVariantSnapshots(r)
          \/ insertOrder(r) \/ requestFails(r) \/ openSession(r) \/ abortOrder(r)
          \/ zoneGet(r) \/ zoneWrite(r)
    \/ \E o \in DOMAIN bought, pay \in {"paid", "failed", "cancelled"} : settleOrder(o, pay)
    \/ \E o \in DOMAIN bought : payRetry(o) \/ cancelOrder(o)
    \/ \E v \in CartVariants, n \in 0..(MaxCartQty + 1) : updateCartItem(v, n)
    \/ \E v \in CartVariants, p \in GoodsPrices, on \in BOOLEAN : editGoods(v, p, on)
    \/ \E z \in ZoneIds, t \in ZoneTerms : zoneCreate(z, t)
    \/ \E z \in ZoneIds : zoneDelete(z)
    \/ \E a \in AddressIds : deleteAddress(a)

CartSpec == CartInit /\ [][CartNext]_cartVars

-----------------------------------------------------------------------------
\* What the checkout page showed for this order's choice.
shownTotal(o) ==
    LET page == pageOf[o.key] IN
    CASE o.address = "" -> page.pickup
      [] o.address # "" /\ o.zone = "" -> page.flat
      [] o.address # "" /\ o.zone # "" -> page.zones[o.zone]

(* However a customer's tabs, clicks and retries interleave with staff     *)
(* edits and failing statements: a form places one order; a submit of it   *)
(* that comes after and finds the cart empty is sent to that order, and is *)
(* told empty_cart only if the lookup itself failed                        *)
(* (findOrderByCheckoutKey swallows the error); no submit lands on another *)
(* form's order; while nobody has edited anything since the page was       *)
(* rendered the order costs what the page showed, and no delivery less     *)
(* than the cart page's "from"; no line exceeds MaxCartQty; and the result *)
(* page of an order that waits for its money always leads on, by polling   *)
(* or by another attempt.                                                  *)
CheckoutAsShown ==
    /\ \A k \in CheckoutKeys : Cardinality(withKey(k)) <= 1
    /\ \A r \in Visits :
          /\ ask[r].pc = "empty" /\ ~ask[r].err => ask[r].known \cap withKey(ask[r].in.key) = {}
          /\ ask[r].pc = "landed" => bought[ask[r].order].key \in {ask[r].in.key, NoCheckoutKey}
    /\ \A i \in DOMAIN bought :
          LET o == bought[i] IN
          /\ \A v \in CartVariants : o.items[v] <= MaxCartQty
          /\ o.fresh /\ o.key # NoCheckoutKey =>
                o.total = shownTotal(o) /\ (o.address # "" => o.total >= pageOf[o.key].cart)
          /\ o.online /\ o.status = "placed" /\ o.pay # "paid" =>
                \A n \in {0, PayPollMax} : buildPayReturnData(o, n).poll \/ buildPayReturnData(o, n).retryable
    /\ \A v \in CartVariants : basket[v] <= MaxCartQty
=============================================================================
