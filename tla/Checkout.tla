------------------------------ MODULE Checkout ------------------------------
(***************************************************************************)
(* Concurrent checkouts, statement by statement.  OrderPayments treats     *)
(* createOrder as one atomic step; this module opens that step up: the     *)
(* advisory locks, the unlocked reads, the row locks and their order, the  *)
(* commit or rollback, next to the other transactions that touch the same  *)
(* rows: a cancellation, a catalog import, a product form save and the     *)
(* deletion of a customer's account.  Transactions run READ COMMITTED: a   *)
(* statement sees what is committed when it runs, a row lock is held until *)
(* the end of the transaction, a lock that is taken makes the next one     *)
(* wait, and the database ends a wait cycle by failing one transaction.    *)
(*                                                                         *)
(* Sources: internal/orders/{order,lifecycle}.go, internal/dbtx/dbtx.go,   *)
(* internal/catalog/{import,import_store}.go,                              *)
(* internal/admin/product_store.go, internal/auth/account_repo.go.         *)
(***************************************************************************)
EXTENDS Naturals, Integers, Sequences, FiniteSets, Functions

CONSTANTS
    Req,            \* requests; the order a checkout creates has its request's id
    Customers,
    Keys,           \* Idempotency-Key values
    NoKey,          \* idempotency_key NULL
    Points,         \* points of sale, as numbers in the order of their ids
    Variants,       \* variants, as numbers in the order of their ids
    Products,       \* products, as numbers in the order of their ids
    productOf,      \* the product of a variant
    InitStock,      \* quantity of every variant at every point
    MaxOpenOrders,  \* Settings.MaxOpenOrders
    Inputs          \* the requests clients and staff may send

ASSUME NumberedAssumption ==
    /\ Req \subseteq Nat \ {0} /\ IsFiniteSet(Req)
    /\ Points \subseteq Nat \ {0}
    /\ Variants \subseteq Nat /\ IsFiniteSet(Variants)
    /\ Products \subseteq Nat
ASSUME ProductAssumption == productOf \in [Variants -> Products]
ASSUME InputAssumption ==
    Inputs \subseteq
        [kind : {"checkout"}, customer : Customers, key : Keys \cup {NoKey},
         cart : [Variants -> Nat], pickup : Points \cup {0}]
        \cup [kind : {"cancel", "abort"}, order : Req]
        \cup [kind : {"import", "form"}, point : Points, file : Seq(Variants), qty : Nat]
        \cup [kind : {"deleteCustomer"}, customer : Customers]
ASSUME ShelvesAssumption == InitStock \in Nat /\ MaxOpenOrders \in Nat \ {0}

VARIABLES
    pc,        \* "idle", "running", "committed", "replayed" or "failed"
    input,     \* what the request asks for
    plan,      \* the row and advisory locks it has still to take, in order
    held,      \* the locks it holds
    admitted,  \* checkouts past their checks under the customer lock
    point,     \* the point a checkout will take its goods from
    stale,     \* the expired order whose key a checkout clears (0: none)
    seen,      \* quantities a product form was rendered with
    clash,     \* form saves that met a changed cell
    number,    \* the sequence number computed for the order
    orders,    \* committed orders rows
    stock,     \* committed stock.quantity
    sales,     \* committed product_sales.units_sold
    adjusted,  \* net change staff made to each stock row (ghost)
    deleted,   \* customers with deleted_at set
    saved      \* customers whose saved address is there (one each)

vars == <<pc, input, plan, held, admitted, point, stale, seen, clash, number,
          orders, stock, sales, adjusted, deleted, saved>>

-----------------------------------------------------------------------------
(* Locks.                                                                   *)

CustomerLock(c) == <<"order_customer", c, 0>>   \* pg_advisory_xact_lock
NumberLock      == <<"order_number", 0, 0>>     \* pg_advisory_xact_lock
CustomerRow(c)  == <<"customers", c, 0>>
OrderRow(o)     == <<"orders", o, 0>>
StockRow(p, v)  == <<"stock", p, v>>
SalesRow(m)     == <<"product_sales", m, 0>>

\* The members of S in ascending order.
sorted(S) ==
    CHOOSE s \in [1..Cardinality(S) -> S] :
        (\A i, j \in DOMAIN s : i < j => s[i] < s[j]) /\ \A x \in S : \E i \in DOMAIN s : s[i] = x

map(F(_), s) == [i \in DOMAIN s |-> F(s[i])]

lines(cart) == {v \in Variants : cart[v] > 0}

free(q, r) == \A t \in Req \ {q} : r \notin held[t]

\* q waits for a lock that t holds.
waitsFor(q, t) ==
    pc[q] = "running" /\ plan[q] # <<>> /\ t # q /\ Head(plan[q]) \in held[t]

\* q is part of a wait cycle, of any length, of the transactions in S.
inCycle(q, S) ==
    LET waiting == {t \in S : \E u \in S : waitsFor(t, u)} IN
    \E n \in 2..Cardinality(waiting) : \E w \in [1..n -> waiting] :
        w[1] = q /\ \A i \in 1..n : waitsFor(w[i], w[IF i = n THEN 1 ELSE i + 1])

-----------------------------------------------------------------------------
NoOrder == [customer |-> 0, key |-> NoKey, items |-> [v \in Variants |-> 0], point |-> 0,
            delivery |-> FALSE, number |-> 0, status |-> "none", fresh |-> FALSE]

OrderIds == {o \in Req : orders[o].status # "none"}
OpenOrders == {o \in Req : orders[o].status = "open"}

Init ==
    /\ pc = [q \in Req |-> "idle"]
    /\ input = [q \in Req |-> [kind |-> "none"]]
    /\ plan = [q \in Req |-> <<>>]
    /\ held = [q \in Req |-> {}]
    /\ admitted = {}
    /\ point = [q \in Req |-> 0]
    /\ stale = [q \in Req |-> 0]
    /\ seen = [q \in Req |-> [v \in Variants |-> 0]]
    /\ clash = {}
    /\ number = [q \in Req |-> 0]
    /\ orders = [q \in Req |-> NoOrder]
    /\ stock = [p \in Points |-> [v \in Variants |-> InitStock]]
    /\ sales = [m \in Products |-> 0]
    /\ adjusted = [p \in Points |-> [v \in Variants |-> 0]]
    /\ deleted = {}
    /\ saved = Customers

-----------------------------------------------------------------------------
(* The locks each transaction takes, in the order of its statements.        *)

\* Mutant: stock rows are locked in the order the customer added them.
lockOrderOfCart(cart) ==
    LET s == sorted(lines(cart)) IN IF cart[1] > 1 THEN [i \in DOMAIN s |-> s[Len(s) + 1 - i]] ELSE s

\* mergeItemQuantities: every variant once, sorted.
lockOrder(cart) == sorted(lines(cart))

stockRows(p, cart) == map(LAMBDA v : StockRow(p, v), lockOrder(cart))

\* itemsInProductOrder: each insert bumps product_sales under a row lock.
salesRows(cart) == map(SalesRow, sorted({productOf[v] : v \in lines(cart)}))

\* After the checks: the stale key's row, the stock rows, the day's number,
\* the customers row (the foreign key of INSERT INTO orders), product_sales.
checkoutPlan(q, p, s) ==
    (IF s = 0 THEN <<>> ELSE <<OrderRow(s)>>)
    \o stockRows(p, input[q].cart)
    \o <<NumberLock, CustomerRow(input[q].customer)>>
    \o salesRows(input[q].cart)

\* cancelLockedTx: the order, its stock rows (sorted), then product_sales.
cancelPlan(o) ==
    <<OrderRow(o)>> \o stockRows(orders[o].point, orders[o].items) \o salesRows(orders[o].items)

\* Mutant: the customer's checkouts are not serialized.
serializedNot(c) == <<>>

\* SELECT pg_advisory_xact_lock('order_customer:' || c)
serialized(c) == <<CustomerLock(c)>>

firstLocks(in) ==
    CASE in.kind = "checkout"            -> serialized(in.customer)
      [] in.kind \in {"cancel", "abort"} -> cancelPlan(in.order)
      [] in.kind \in {"import", "form"}  -> map(LAMBDA v : StockRow(in.point, v), in.file)
      [] in.kind = "deleteCustomer"      -> <<CustomerRow(in.customer)>>

\* A request arrives; a product form was rendered with the stock of now.
begin(q, in) ==
    /\ pc[q] = "idle"
    /\ in.kind \in {"cancel", "abort"} => in.order \in OpenOrders
    /\ pc' = [pc EXCEPT ![q] = "running"]
    /\ input' = [input EXCEPT ![q] = in]
    /\ plan' = [plan EXCEPT ![q] = firstLocks(in)]
    /\ seen' = IF in.kind = "form" THEN [seen EXCEPT ![q] = stock[in.point]] ELSE seen
    /\ UNCHANGED <<held, admitted, point, stale, clash, number, orders, stock, sales, adjusted, deleted, saved>>

\* Mutant: a failed transaction is not rolled back and keeps its connection.
endLeaks(q, how) ==
    /\ pc' = [pc EXCEPT ![q] = how]
    /\ held' = IF how = "failed" THEN held ELSE [held EXCEPT ![q] = {}]
    /\ plan' = [plan EXCEPT ![q] = <<>>]

\* The transaction ends: COMMIT or ROLLBACK releases its locks.
end(q, how) ==
    /\ pc' = [pc EXCEPT ![q] = how]
    /\ held' = [held EXCEPT ![q] = {}]
    /\ plan' = [plan EXCEPT ![q] = <<>>]

rollback(q) ==
    /\ end(q, "failed")
    /\ UNCHANGED <<input, admitted, point, stale, seen, clash, number,
                   orders, stock, sales, adjusted, deleted, saved>>

\* The quantity read by SELECT ... FOR UPDATE.
enough(q, p, v) == stock[p][v] >= input[q].cart[v]

\* Mutant: the cell is written whatever it holds by now.
unchangedCellAssumed(q, p, v) == TRUE

\* UPDATE stock ... WHERE quantity = orig
unchangedCell(q, p, v) == stock[p][v] = seen[q][v]

\* A pickup, or the customer's saved address: verifyAddressOwnership, and
\* again the foreign keys of INSERT INTO orders once the customers row is free.
addressIsThere(in) == in.pickup # 0 \/ in.customer \in saved

\* Whether the statement that takes lock r lets the transaction go on.
passes(q, r) ==
    CASE r[1] = "stock" /\ input[q].kind = "checkout" -> enough(q, r[2], r[3])
      [] r[1] = "customers" /\ input[q].kind = "checkout" -> addressIsThere(input[q])
      [] r[1] = "orders" /\ input[q].kind \in {"cancel", "abort"} -> orders[r[2]].status = "open"
      [] r[1] = "customers" /\ input[q].kind = "deleteCustomer" ->
            r[2] \in deleted \/ \A o \in OpenOrders : orders[o].customer # r[2]
      [] OTHER -> TRUE

\* COUNT(*) + 1 of the day's committed orders.
nextOrderNumber == Cardinality(OrderIds) + 1

\* One locking statement of a running transaction.
statement(q) ==
    /\ pc[q] = "running"
    /\ plan[q] # <<>>
    /\ LET r == Head(plan[q]) IN
        /\ free(q, r)
        /\ \/ /\ input[q].kind = "form" /\ ~unchangedCell(q, r[2], r[3])
              /\ clash' = clash \cup {q}
              /\ plan' = [plan EXCEPT ![q] = Tail(@)]
              /\ UNCHANGED <<pc, input, held, admitted, point, stale, seen, number,
                             orders, stock, sales, adjusted, deleted, saved>>
           \/ /\ ~passes(q, r)
              /\ rollback(q)
           \/ /\ passes(q, r) /\ (input[q].kind = "form" => unchangedCell(q, r[2], r[3]))
              /\ held' = [held EXCEPT ![q] = @ \cup {r}]
              /\ plan' = [plan EXCEPT ![q] = Tail(@)]
              /\ number' = IF r = NumberLock
                           THEN [number EXCEPT ![q] = nextOrderNumber] ELSE number
              /\ UNCHANGED <<pc, input, admitted, point, stale, seen, clash,
                             orders, stock, sales, adjusted, deleted, saved>>

-----------------------------------------------------------------------------
(* Checkout's reads under the customer lock.                                *)

\* SELECT ... WHERE customer_id = c AND idempotency_key = k
withKey(c, k) == {o \in OrderIds : orders[o].customer = c /\ orders[o].key = k /\ k # NoKey}

covers(p, cart) == \A v \in Variants : stock[p][v] >= cart[v]

\* The pickup point, or the first point that covers the cart by an unlocked read.
pickFulfillmentPoint(in) ==
    IF in.pickup # 0 THEN {in.pickup}
    ELSE {p \in Points : covers(p, in.cart) /\ \A r \in Points : covers(r, in.cart) => p <= r}

checkOpenOrdersLimit(c) == Cardinality({o \in OpenOrders : orders[o].customer = c}) < MaxOpenOrders

ready(q) == pc[q] = "running" /\ input[q].kind = "checkout" /\ plan[q] = <<>> /\ q \notin admitted

\* findIdempotentOrder found a fresh order: it is returned unchanged.
replay(q) ==
    /\ ready(q)
    /\ \E o \in withKey(input[q].customer, input[q].key) : orders[o].fresh
    /\ end(q, "replayed")
    /\ UNCHANGED <<input, admitted, point, stale, seen, clash, number,
                   orders, stock, sales, adjusted, deleted, saved>>

admit(q) ==
    /\ ready(q)
    /\ \A o \in withKey(input[q].customer, input[q].key) : ~orders[o].fresh
    /\ IF /\ checkOpenOrdersLimit(input[q].customer)
          /\ addressIsThere(input[q])
          /\ pickFulfillmentPoint(input[q]) # {}
       THEN \E p \in pickFulfillmentPoint(input[q]) :
             LET old == withKey(input[q].customer, input[q].key)
                 s   == IF old = {} THEN 0 ELSE CHOOSE o \in old : TRUE
             IN  /\ admitted' = admitted \cup {q}
                 /\ point' = [point EXCEPT ![q] = p]
                 /\ stale' = [stale EXCEPT ![q] = s]
                 /\ plan' = [plan EXCEPT ![q] = checkoutPlan(q, p, s)]
                 /\ UNCHANGED <<pc, input, held, seen, clash, number,
                                orders, stock, sales, adjusted, deleted, saved>>
       ELSE rollback(q)

-----------------------------------------------------------------------------
(* Commits.                                                                 *)

units(m, items) == SumFunctionOnSet([v \in Variants |-> IF productOf[v] = m THEN items[v] ELSE 0], Variants)

\* UPDATE orders SET idempotency_key = NULL for an order past the window.
clearStaleKey(q) == IF stale[q] = 0 THEN orders ELSE [orders EXCEPT ![stale[q]].key = NoKey]

commitCheckout(q) ==
    LET in == input[q] IN
    /\ q \in admitted
    /\ orders' = [clearStaleKey(q) EXCEPT ![q] =
            [customer |-> in.customer, key |-> in.key, items |-> in.cart, point |-> point[q],
             delivery |-> in.pickup = 0, number |-> number[q], status |-> "open", fresh |-> TRUE]]
    /\ stock' = [stock EXCEPT ![point[q]] = [v \in Variants |-> @[v] - in.cart[v]]]
    /\ sales' = [m \in Products |-> sales[m] + units(m, in.cart)]
    /\ UNCHANGED <<adjusted, deleted, saved>>

\* orders_product_sales_status: a cancelled order's units no longer count.
cancelledSales(ord) == [m \in Products |-> sales[m] - units(m, ord.items)]

\* abort also releases the key, so that a retry places a fresh order.
commitCancel(q) ==
    LET o == input[q].order IN
    /\ orders' = [orders EXCEPT ![o].status = "cancelled",
                                ![o].key = IF input[q].kind = "abort" THEN NoKey ELSE @]
    /\ stock' = [stock EXCEPT ![orders[o].point] = [v \in Variants |-> @[v] + orders[o].items[v]]]
    /\ sales' = cancelledSales(orders[o])
    /\ UNCHANGED <<adjusted, deleted, saved>>

fileVariants(q) == {input[q].file[i] : i \in DOMAIN input[q].file}

\* An import's model: SetStock overwrites, whatever was sold meanwhile.
commitImport(q) ==
    LET p == input[q].point
        to(v) == IF v \in fileVariants(q) THEN input[q].qty ELSE stock[p][v]
    IN  /\ stock' = [stock EXCEPT ![p] = [v \in Variants |-> to(v)]]
        /\ adjusted' = [adjusted EXCEPT ![p] = [v \in Variants |-> @[v] + to(v) - stock[p][v]]]
        /\ UNCHANGED <<orders, sales, deleted, saved>>

\* A product form: each edited cell from the rendered quantity to another.
commitForm(q) ==
    LET p == input[q].point
        delta(v) == IF v \in fileVariants(q) THEN input[q].qty ELSE 0
    IN  /\ q \notin clash
        /\ stock' = [stock EXCEPT ![p] =
                [v \in Variants |-> IF v \in fileVariants(q) THEN seen[q][v] + delta(v) ELSE @[v]]]
        /\ adjusted' = [adjusted EXCEPT ![p] = [v \in Variants |-> @[v] + delta(v)]]
        /\ UNCHANGED <<orders, sales, deleted, saved>>

\* Some order, in whatever status, is addressed to c's saved address.
addressReferenced(c) == \E o \in OrderIds : orders[o].customer = c /\ orders[o].delivery

\* Addresses no order refers to go with the account; a second deletion does nothing.
deleteCustomer(q) ==
    LET c == input[q].customer IN
    /\ deleted' = deleted \cup {c}
    /\ saved' = IF c \in deleted \/ addressReferenced(c) THEN saved ELSE saved \ {c}
    /\ UNCHANGED <<orders, stock, sales, adjusted>>

commit(q) ==
    /\ pc[q] = "running"
    /\ plan[q] = <<>>
    /\ CASE input[q].kind = "checkout"            -> commitCheckout(q)
         [] input[q].kind \in {"cancel", "abort"} -> commitCancel(q)
         [] input[q].kind = "import"              -> commitImport(q)
         [] input[q].kind = "form"                -> commitForm(q)
         [] input[q].kind = "deleteCustomer"      -> deleteCustomer(q)
    /\ end(q, "committed")
    /\ UNCHANGED <<input, admitted, point, stale, seen, clash, number>>

\* A form save with conflicts is rolled back as a whole.
conflict(q) ==
    /\ pc[q] = "running" /\ plan[q] = <<>> /\ q \in clash
    /\ rollback(q)

\* Any statement may fail: the client is gone, the connection is lost.
fail(q) == pc[q] = "running" /\ rollback(q)

\* The database ends a wait cycle.
deadlockVictim(q) == inCycle(q, Req) /\ rollback(q)

\* IdempotencyWindow passes.
age(o) ==
    /\ orders[o].fresh
    /\ orders' = [orders EXCEPT ![o].fresh = FALSE]
    /\ UNCHANGED <<pc, input, plan, held, admitted, point, stale, seen, clash, number,
                   stock, sales, adjusted, deleted, saved>>

step(q) == statement(q) \/ replay(q) \/ admit(q) \/ commit(q) \/ conflict(q)

Next ==
    \E q \in Req :
        \/ \E in \in Inputs : begin(q, in)
        \/ step(q) \/ fail(q) \/ deadlockVictim(q) \/ age(q)

Spec == Init /\ [][Next]_vars

\* Every transaction keeps running: a free lock is granted to a waiter, and
\* the database detects wait cycles.  Locks are queues, so a waiter is not
\* overtaken for ever; nothing fails on purpose.
Fairness == \A q \in Req : SF_vars(step(q)) /\ WF_vars(deadlockVictim(q))

FairSpec == Spec /\ Fairness

-----------------------------------------------------------------------------
(* Properties.                                                              *)

\* What open orders took from a shelf, and sold of a product.
taken(p, v) == SumFunctionOnSet([o \in Req |-> IF orders[o].point = p THEN orders[o].items[v] ELSE 0], OpenOrders)
sold(m) == SumFunctionOnSet([o \in Req |-> units(m, orders[o].items)], OpenOrders)

\* Whatever checkouts, cancellations, imports and form saves interleave, no
\* shelf is oversold, a shelf holds what it started with plus what staff meant
\* to add minus what open orders took, and product_sales holds exactly the units
\* of the orders not cancelled: no reservation is lost to a concurrent write, no
\* form save overwrites a sale (lockAndDecrementStock, writeStockCellTx).
StockFollowsOrders ==
    /\ \A p \in Points, v \in Variants :
        stock[p][v] >= 0 /\ stock[p][v] + taken(p, v) = InitStock + adjusted[p][v]
    /\ \A m \in Products : sales[m] = sold(m)

\* However many checkouts run at once: a double submit places one order (no
\* two orders of a customer carry one idempotency key), a customer never has
\* more than MaxOpenOrders open orders, and the day's numbers are 1, 2, 3...
\* with none used twice and none skipped although transactions roll back
\* (findIdempotentOrder and checkOpenOrdersLimit under the customer lock,
\* nextOrderNumber).
SubmitsSettle ==
    /\ \A o, r \in OrderIds :
        orders[o].key # NoKey /\ orders[o].key = orders[r].key
            /\ orders[o].customer = orders[r].customer => o = r
    /\ \A c \in Customers : Cardinality({o \in OpenOrders : orders[o].customer = c}) <= MaxOpenOrders
    /\ {orders[o].number : o \in OrderIds} = 1..Cardinality(OrderIds)

\* Customers' requests never deadlock each other: no cycle of waits, however
\* many requests are in it, is closed among checkouts, cancellations, aborts and
\* account deletions, since they take stock rows and product_sales rows in one
\* global order.
ShopRequests == {q \in Req : input[q].kind \in {"checkout", "cancel", "abort", "deleteCustomer"}}
NoShopDeadlock == \A q \in ShopRequests : ~inCycle(q, ShopRequests)

\* Every request that started is answered, although transactions wait for
\* each other and an import can lock rows in the opposite order.
RequestsEnd == \A q \in Req : pc[q] = "running" ~> pc[q] # "running"

\* "row-locked, so it can't race a concurrent checkout" (deleteCustomer): a
\* deleted account has no open order.  An order for an address the deletion
\* removed fails; one that is picked up does not.
DeletedHasNoOpenOrder == \A o \in OpenOrders : orders[o].customer \notin deleted
=============================================================================
