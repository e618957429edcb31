---------------------------- MODULE OrderPayments ----------------------------
(***************************************************************************)
(* Orders, their payment attempts, the bank, the expiry job and the stock  *)
(* an order reserves.  One action is one database transaction: every       *)
(* transaction that touches an order or its payments first takes the       *)
(* order's row lock (LockOrderTx / lockOrderTx), so transactions on one    *)
(* order serialise, and everything done after a commit (calling the bank,  *)
(* compensating, announcing) is a later action that a crash can prevent.   *)
(*                                                                         *)
(* Sources: internal/orders/{order,lifecycle,payment,admin,notifier}.go,   *)
(* internal/payments/{service,expiry}.go, internal/catalog/stock.go.       *)
(***************************************************************************)
EXTENDS OrderRules, Integers, FiniteSets, Functions

CONSTANTS
    Orders,              \* ids of the orders that may be placed
    Points,              \* points_of_sale
    NoPoint,             \* orders.point_id of an order not inserted yet
    Variants,            \* product_variants
    Carts,               \* merged carts: functions [Variants -> Nat]
    InitStock,           \* stock rows before the first order
    StockLevels,         \* quantities the staff may write into a stock row
    MaxPaymentAttempts,  \* orders.MaxPaymentAttempts (10 in the code)
    ExpiryBatch,         \* payments.expiryBatch (100 in the code)
    MaxCrashes           \* bound on process crashes

\* The first payment attempt is opened with the order, so there is one.
ASSUME AttemptsAssumption == MaxPaymentAttempts \in Nat \ {0}
ASSUME OrdersAssumption == IsFiniteSet(Orders)
ASSUME CartsAssumption == Carts \subseteq [Variants -> Nat]
ASSUME StockAssumption == InitStock \in [Points -> [Variants -> Nat]] /\ StockLevels \subseteq Nat
ASSUME NoPointAssumption == NoPoint \notin Points
ASSUME BoundsAssumption == ExpiryBatch \in Nat \ {0} /\ MaxCrashes \in Nat

\* Attempts of an order are numbered in the order they are opened.
Attempts == 1..MaxPaymentAttempts

VARIABLES
    orders,      \* orders rows: status, method, payment_status, point_id, items
    refunds,     \* orders with refund_required set
    history,     \* order_status_history rows of an order
    attempts,    \* COUNT(*) of an order's payments rows
    payments,    \* payments.status of each attempt ("none": no such row)
    linked,      \* attempts <<o, k>> with provider_tx_id (and redirect_url) stored
    opener,      \* the request goroutine opening the attempt's session
    ripe,        \* orders whose latest attempt is older than PAYMENT_PENDING_TTL
    batch,       \* order ids an expiry pass has selected and not handled
    stock,       \* stock.quantity per point and variant
    adjusted,    \* net change the staff made to each stock row (ghost)
    announcing,  \* orders whose staff announcement is about to be sent
    announced,   \* how often staff were told "new order" (ghost)
    bank,        \* what the bank did with the money of an attempt
    acked,       \* attempts <<o, k>> whose "paid" callback was answered with 200
    crashes      \* process crashes so far (bounded)

orderVars   == <<orders, refunds, history>>
paymentVars == <<attempts, payments, linked>>
stockVars   == <<stock, adjusted>>
bankVars    == <<bank, acked>>
procVars    == <<opener, batch, announcing, announced, crashes>>
vars == <<orders, refunds, history, attempts, payments, linked, opener, ripe, batch,
          stock, adjusted, announcing, announced, bank, acked, crashes>>

-----------------------------------------------------------------------------
NoItems == [v \in Variants |-> 0]

NoOrder == [status |-> "none", method |-> "cash_on_delivery", pay |-> "null",
            point |-> NoPoint, items |-> NoItems]

ActorType == {"staff", "customer", "system"}

StatusRow == [from : OrderStatus \cup {"none"}, to : OrderStatus, actor : ActorType]

OrderRow == [status : OrderStatus \cup {"none"}, method : PaymentMethod,
             pay : PaymentStatus \cup {"null"}, point : Points \cup {NoPoint},
             items : [Variants -> Nat]]

\* payments.status of an order's attempts.
Rows == [Attempts -> PaymentStatus \cup {"none"}]

TypeOK ==
    /\ orders \in [Orders -> OrderRow]
    /\ refunds \in SUBSET Orders
    /\ history \in [Orders -> SUBSET StatusRow]
    /\ attempts \in [Orders -> 0..MaxPaymentAttempts]
    /\ payments \in [Orders -> Rows]
    /\ linked \in SUBSET (Orders \X Attempts)
    /\ opener \in [Orders -> [Attempts -> {"idle", "opening", "failing"}]]
    /\ ripe \in SUBSET Orders
    /\ batch \in SUBSET Orders
    /\ stock \in [Points -> [Variants -> Nat]]
    /\ adjusted \in [Points -> [Variants -> Int]]
    /\ announcing \in SUBSET Orders
    /\ announced \in [Orders -> Nat]
    /\ bank \in [Orders -> [Attempts -> {"idle", "captured", "miscaptured", "refunded"}]]
    /\ acked \in SUBSET (Orders \X Attempts)
    /\ crashes \in 0..MaxCrashes

Init ==
    /\ orders = [o \in Orders |-> NoOrder]
    /\ refunds = {}
    /\ history = [o \in Orders |-> {}]
    /\ attempts = [o \in Orders |-> 0]
    /\ payments = [o \in Orders |-> [k \in Attempts |-> "none"]]
    /\ linked = {}
    /\ opener = [o \in Orders |-> [k \in Attempts |-> "idle"]]
    /\ ripe = {}
    /\ batch = {}
    /\ stock = InitStock
    /\ adjusted = [p \in Points |-> [v \in Variants |-> 0]]
    /\ announcing = {}
    /\ announced = [o \in Orders |-> 0]
    /\ bank = [o \in Orders |-> [k \in Attempts |-> "idle"]]
    /\ acked = {}
    /\ crashes = 0

-----------------------------------------------------------------------------
(* What one transaction does to an order, given the order row `ord` and the *)
(* payments rows `rows` as it sees them under the order's lock.             *)

\* UPDATE orders SET payment_status = s, and SET status = s.
withPay(ord, s) ==
    [status |-> ord.status, method |-> ord.method, pay |-> s, point |-> ord.point, items |-> ord.items]

withStatus(ord, s) ==
    [status |-> s, method |-> ord.method, pay |-> ord.pay, point |-> ord.point, items |-> ord.items]

\* Mutant: a retry leaves the previous attempt open beside the new one.
closePendingNot(rows) == rows

\* UPDATE payments SET status = 'cancelled' WHERE order_id = o AND status = 'pending'
closePending(rows) == [k \in Attempts |-> IF rows[k] = "pending" THEN "cancelled" ELSE rows[k]]

recordStatusTx(o, from, to, actor) ==
    history' = [history EXCEPT ![o] = @ \cup {[from |-> from, to |-> to, actor |-> actor]}]

\* Mutant: one variant of the order is not returned.
restockOrderTxPartly(o, ord) ==
    stock' = [stock EXCEPT ![ord.point] = [v \in Variants |-> IF ord.items[v] > 1 THEN @[v] + 1 ELSE @[v] + ord.items[v]]]

\* Every item goes back to the point the order was packed from.
restockOrderTx(o, ord) ==
    stock' = [stock EXCEPT ![ord.point] = [v \in Variants |-> @[v] + ord.items[v]]]

\* The orders row after cancelLockedTx.
cancelledOrder(ord) ==
    withStatus(IF ord.method = "online_card" /\ ord.pay = "pending"
               THEN withPay(ord, "cancelled") ELSE ord, "cancelled")

cancelledPayments(ord, rows) ==
    IF ord.method = "online_card" /\ ord.pay = "pending" THEN closePending(rows) ELSE rows

\* case PaymentPaid: refund = true
cancelOwesRefund(ord) == ord.method = "online_card" /\ ord.pay = "paid"

cancelLockedTx(o, ord, rows, actor) ==
    /\ ord.point # NoPoint
    /\ restockOrderTx(o, ord)
    /\ orders' = [orders EXCEPT ![o] = cancelledOrder(ord)]
    /\ refunds' = IF cancelOwesRefund(ord) THEN refunds \cup {o} ELSE refunds
    /\ payments' = [payments EXCEPT ![o] = cancelledPayments(ord, rows)]
    /\ recordStatusTx(o, ord.status, "cancelled", actor)

\* Cancels only an order still 'placed'; otherwise the caller's own updates
\* stand and nothing else happens.
CancelUnpaidOrderTx(o, ord, rows) ==
    \/ /\ ord.status = "placed"
       /\ cancelLockedTx(o, ord, rows, "system")
    \/ /\ ord.status # "placed"
       /\ orders' = [orders EXCEPT ![o] = ord]
       /\ payments' = [payments EXCEPT ![o] = rows]
       /\ UNCHANGED <<refunds, stock, history>>

\* The clock of unpaidExpiredCond runs from the latest attempt's created_at
\* while that attempt is pending and from its updated_at afterwards, so it
\* restarts when the latest attempt stops being pending.
retimeLatest(o) ==
    ripe' = IF /\ attempts[o] \in Attempts
               /\ payments'[o][attempts[o]] # payments[o][attempts[o]]
            THEN ripe \ {o} ELSE ripe

-----------------------------------------------------------------------------
(* Checkout.  createOrder commits the order, its reservation and, for an    *)
(* online order, its first payment attempt in one transaction.              *)

lockAndDecrementStock(p, cart) ==
    /\ \A v \in Variants : stock[p][v] >= cart[v]
    /\ stock' = [stock EXCEPT ![p] = [v \in Variants |-> @[v] - cart[v]]]

createOrder(o, method, p, cart) ==
    /\ orders[o].status = "none"
    /\ lockAndDecrementStock(p, cart)
    /\ orders' = [orders EXCEPT ![o] =
            [status |-> "placed", method |-> method,
             pay |-> IF method = "online_card" THEN "pending" ELSE "null",
             point |-> p, items |-> cart]]
    /\ recordStatusTx(o, "none", "placed", "customer")
    /\ UNCHANGED <<refunds, linked, batch, adjusted, announced, bank, acked, crashes>>

\* A cash order is announced to the staff as soon as it has committed.
PlaceOrder(o, p, cart) ==
    /\ createOrder(o, "cash_on_delivery", p, cart)
    /\ announcing' = announcing \cup {o}
    /\ UNCHANGED <<attempts, payments, opener, ripe>>

\* An online order gets its first attempt in the same transaction; the
\* request then asks the bank for a session.
CreateOnlineOrder(o, p, cart) ==
    /\ createOrder(o, "online_card", p, cart)
    /\ attempts' = [attempts EXCEPT ![o] = 1]
    /\ payments' = [payments EXCEPT ![o][1] = "pending"]
    /\ opener' = [opener EXCEPT ![o][1] = "opening"]
    /\ ripe' = ripe \ {o}
    /\ UNCHANGED announcing

attemptsLeft(o) == attempts[o] < MaxPaymentAttempts

\* RetryPayment and GetPaymentQR: close the open attempt, open another one.
PrepareRetryPayment(o) ==
    /\ PaymentRetryable(orders[o])
    /\ attemptsLeft(o)
    /\ attempts' = [attempts EXCEPT ![o] = @ + 1]
    /\ payments' = [payments EXCEPT ![o] =
            [closePending(@) EXCEPT ![attempts[o] + 1] = "pending"]]
    /\ orders' = [orders EXCEPT ![o] = withPay(@, "pending")]
    /\ opener' = [opener EXCEPT ![o][attempts[o] + 1] = "opening"]
    /\ ripe' = ripe \ {o}
    /\ UNCHANGED <<refunds, history, linked, batch, announcing, announced, crashes>>
    /\ UNCHANGED <<stockVars, bankVars>>

-----------------------------------------------------------------------------
(* Opening the bank session.  The provider is called with no lock held and  *)
(* the row is updated whatever happened to the attempt in the meantime.     *)

\* UPDATE payments SET provider_tx_id = ...: restarts the clock only when
\* the attempt is the latest one and no longer pending.
storeTxId(o, k) ==
    /\ linked' = linked \cup {<<o, k>>}
    /\ ripe' = IF k = attempts[o] /\ payments[o][k] # "pending" THEN ripe \ {o} ELSE ripe

\* The provider answered and the row carries its id: the customer gets the
\* link or the QR.
openSession(o, k) ==
    /\ opener[o][k] = "opening"
    /\ opener' = [opener EXCEPT ![o][k] = "idle"]
    /\ storeTxId(o, k)
    /\ UNCHANGED <<attempts, payments, batch, announcing, announced, crashes>>
    /\ UNCHANGED <<orderVars, stockVars, bankVars>>

\* The provider failed, or the UPDATE reported an error (the client's context
\* may end after the row was written): the request goes on to compensate.
\* Only GetPaymentQR's UPDATE error returns without compensating.
openSessionFails(o, k) ==
    /\ opener[o][k] = "opening"
    /\ \E next \in {"failing"} \cup (IF k > 1 THEN {"idle"} ELSE {}) :
            opener' = [opener EXCEPT ![o][k] = next]
    /\ storeTxId(o, k) \/ UNCHANGED <<linked, ripe>>
    /\ UNCHANGED <<attempts, payments, batch, announcing, announced, crashes>>
    /\ UNCHANGED <<orderVars, stockVars, bankVars>>

\* UPDATE ... WHERE id = k AND status = 'pending' changed a row.
attemptPending(o, k) == payments[o][k] = "pending"

\* The first session could not be opened: the attempt fails and the order is
\* cancelled, unless a callback or a retry has settled the attempt already.
abort(o) ==
    /\ opener[o][1] = "failing"
    /\ opener' = [opener EXCEPT ![o][1] = "idle"]
    /\ \/ /\ attemptPending(o, 1)
          /\ CancelUnpaidOrderTx(o, withPay(orders[o], "failed"), [payments[o] EXCEPT ![1] = "failed"])
       \/ /\ ~attemptPending(o, 1)
          /\ UNCHANGED <<orders, refunds, history, payments, stock>>
    /\ retimeLatest(o)
    /\ UNCHANGED <<attempts, linked, batch, adjusted, announcing, announced, crashes>>
    /\ UNCHANGED bankVars

\* A retry's session could not be opened: the order stays open.
failAttempt(o, k) ==
    /\ k > 1
    /\ opener[o][k] = "failing"
    /\ opener' = [opener EXCEPT ![o][k] = "idle"]
    /\ \/ /\ attemptPending(o, k)
          /\ payments' = [payments EXCEPT ![o][k] = "failed"]
          /\ orders' = [orders EXCEPT ![o] = IF @.status = "placed" THEN withPay(@, "failed") ELSE @]
       \/ /\ ~attemptPending(o, k)
          /\ UNCHANGED <<orders, payments>>
    /\ retimeLatest(o)
    /\ UNCHANGED <<refunds, history, attempts, linked, batch, announcing, announced, crashes>>
    /\ UNCHANGED <<stockVars, bankVars>>

\* The compensation itself fails: it is logged and the request ends.
compensationFails(o, k) ==
    /\ opener[o][k] = "failing"
    /\ opener' = [opener EXCEPT ![o][k] = "idle"]
    /\ UNCHANGED <<ripe, batch, announcing, announced, crashes>>
    /\ UNCHANGED <<orderVars, paymentVars, stockVars, bankVars>>

-----------------------------------------------------------------------------
(* The bank (external) and its callbacks.  A customer who holds the link    *)
(* can pay at any time, also after the order is gone: sessions are never    *)
(* closed at the bank.  A callback may be lost, repeated and reordered, so  *)
(* it is enabled as long as the bank could once have sent it.               *)

bankCapture(o, k) ==
    /\ <<o, k>> \in linked
    /\ bank[o][k] = "idle"
    /\ \E outcome \in {"captured", "miscaptured"} : bank' = [bank EXCEPT ![o][k] = outcome]
    /\ UNCHANGED <<ripe, acked>>
    /\ UNCHANGED <<orderVars, paymentVars, stockVars, procVars>>

bankRefund(o, k) ==
    /\ bank[o][k] = "captured"
    /\ bank' = [bank EXCEPT ![o][k] = "refunded"]
    /\ UNCHANGED <<ripe, acked>>
    /\ UNCHANGED <<orderVars, paymentVars, stockVars, procVars>>

\* The bank may report ev for attempt k: a decline or a cancellation at any
\* time, money only if it moved.
bankReports(o, k, ev) ==
    CASE ev = "paid"     -> bank[o][k] # "idle"
      [] ev = "refunded" -> bank[o][k] = "refunded"
      [] OTHER           -> TRUE

\* toTyiyn(ev.Amount) = toTyiyn(amount)
amountMatches(o, k, ev) == ev = "paid" => bank[o][k] # "miscaptured"

callbackApplies(o, k, ev) ==
    \/ transitionApplies(payments[o][k], ev)
    \/ transitionConflicts(payments[o][k], ev) /\ lateSuccess(payments[o][k], ev, orders[o])

\* The payments rows after the callback's own updates.
callbackRows(o, k, ev) ==
    LET rows == IF ev = "paid" THEN closePending(payments[o]) ELSE payments[o]
    IN  [rows EXCEPT ![k] = ev]

\* Mutant: every applied money event announces the order.
announcesAgain(o, ev) == ev \in {"paid", "refunded"} /\ orders[o].status # "cancelled"

\* Applied, paid and not RefundRequired.
announces(o, ev) == ev = "paid" /\ orders[o].status # "cancelled"

\* Money and payment status on the order row, then the cancel of an order
\* whose customer cancelled on the bank page.
applyCallback(o, k, ev) ==
    LET ord  == withPay(orders[o], ev)
        rows == callbackRows(o, k, ev)
    IN  /\ amountMatches(o, k, ev)
        /\ \/ /\ ev = "cancelled"
              /\ CancelUnpaidOrderTx(o, ord, rows)
           \/ /\ ev # "cancelled"
              /\ orders' = [orders EXCEPT ![o] = ord]
              /\ refunds' = IF ev = "paid" /\ ord.status = "cancelled"
                            THEN refunds \cup {o} ELSE refunds
              /\ payments' = [payments EXCEPT ![o] = rows]
              /\ UNCHANGED <<stock, history>>
        /\ announcing' = IF announces(o, ev) THEN announcing \cup {o} ELSE announcing

\* Mutant: money for an attempt given up on is acknowledged and forgotten.
refundConflictNot(o, k, ev) == FALSE

\* "paid" for an attempt given up on, while the order does not want it.
refundConflict(o, k, ev) ==
    /\ transitionConflicts(payments[o][k], ev)
    /\ ev = "paid"
    /\ isUnpaidFinal(payments[o][k])

HandleCallback(o, k, ev) ==
    /\ <<o, k>> \in linked
    /\ bankReports(o, k, ev)
    /\ \/ /\ callbackApplies(o, k, ev)
          /\ applyCallback(o, k, ev)
       \/ /\ ~callbackApplies(o, k, ev)
          /\ refunds' = IF refundConflict(o, k, ev) THEN refunds \cup {o} ELSE refunds
          /\ UNCHANGED <<orders, history, payments, stock, announcing>>
    /\ retimeLatest(o)
    /\ acked' = IF ev = "paid" THEN acked \cup {<<o, k>>} ELSE acked
    /\ UNCHANGED <<attempts, linked, opener, batch, adjusted, announced, bank, crashes>>

\* The announcement of a committed order; NotifyOrderPaid re-reads an online
\* order and skips a cancelled one.
notifyCreated(o) ==
    /\ o \in announcing
    /\ announcing' = announcing \ {o}
    /\ announced' = [announced EXCEPT ![o] =
            IF orders[o].method = "online_card" /\ orders[o].status = "cancelled" THEN @ ELSE @ + 1]
    /\ UNCHANGED <<opener, ripe, batch, crashes>>
    /\ UNCHANGED <<orderVars, paymentVars, stockVars, bankVars>>

-----------------------------------------------------------------------------
(* Staff and customer transitions.                                          *)

cancelStep(o, actor) ==
    /\ cancelLockedTx(o, orders[o], payments[o], actor)
    /\ retimeLatest(o)
    /\ UNCHANGED <<attempts, linked, adjusted>>
    /\ UNCHANGED <<bankVars, procVars>>

CancelByCustomer(o) ==
    /\ customerCanCancel(orders[o])
    /\ cancelStep(o, "customer")

\* transitionLockedTx on behalf of a member of staff.
AdminUpdateStatus(o, to, role) ==
    /\ to = "cancelled" => role = "owner"
    /\ validStatusTransition(orders[o].status, to)
    /\ to = "confirmed" => paymentAllowsConfirm(orders[o])
    /\ \/ /\ to = "cancelled"
          /\ cancelStep(o, "staff")
       \/ /\ to # "cancelled"
          /\ orders' = [orders EXCEPT ![o] = withStatus(@, to)]
          /\ recordStatusTx(o, orders[o].status, to, "staff")
          /\ UNCHANGED <<refunds, ripe>>
          /\ UNCHANGED <<paymentVars, stockVars, bankVars, procVars>>

\* StockRepo.Upsert: the staff write an absolute quantity.
Upsert(p, v, q) ==
    /\ stock[p][v] # q
    /\ stock' = [stock EXCEPT ![p][v] = q]
    /\ adjusted' = [adjusted EXCEPT ![p][v] = @ + q - stock[p][v]]
    /\ UNCHANGED ripe
    /\ UNCHANGED <<orderVars, paymentVars, bankVars, procVars>>

-----------------------------------------------------------------------------
(* The expiry job.                                                          *)

\* PAYMENT_PENDING_TTL passes without a new attempt.
Elapse(o) ==
    /\ PaymentRetryable(orders[o])
    /\ o \notin ripe
    /\ ripe' = ripe \cup {o}
    /\ UNCHANGED <<orderVars, paymentVars, stockVars, bankVars, procVars>>

\* Mutant: a declined payment that is never retried does not expire.
unpaidExpiredCondPending(o) == orders[o].pay = "pending" /\ o \in ripe

unpaidExpiredCond(o) == PaymentRetryable(orders[o]) /\ o \in ripe

\* The pass selects order ids without a lock, at most ExpiryBatch of them.
ExpirePending ==
    /\ batch = {}
    /\ LET expired == {o \in Orders : unpaidExpiredCond(o)}
       IN  /\ expired # {}
           /\ batch' \in SUBSET expired
           /\ IF Cardinality(expired) <= ExpiryBatch
              THEN batch' = expired
              ELSE Cardinality(batch') = ExpiryBatch
    /\ UNCHANGED <<opener, ripe, announcing, announced, crashes>>
    /\ UNCHANGED <<orderVars, paymentVars, stockVars, bankVars>>

\* Mutant: the order is not re-checked under its lock.
stillExpiredAssumed(o) == orders[o].status = "placed"

\* The condition re-read under the order's row lock.
stillExpired(o) == unpaidExpiredCond(o)

expireOne(o) ==
    /\ o \in batch
    /\ batch' = batch \ {o}
    /\ \/ /\ stillExpired(o)
          /\ CancelUnpaidOrderTx(o, orders[o], payments[o])
       \/ /\ ~stillExpired(o)
          /\ UNCHANGED <<orders, refunds, history, payments, stock>>
    /\ retimeLatest(o)
    /\ UNCHANGED <<attempts, linked, adjusted, opener, announcing, announced, crashes>>
    /\ UNCHANGED bankVars

\* The process dies: requests and the expiry pass in flight are gone, what
\* was committed stays.
Crash ==
    /\ crashes < MaxCrashes
    /\ crashes' = crashes + 1
    /\ opener' = [o \in Orders |-> [k \in Attempts |-> "idle"]]
    /\ batch' = {}
    /\ announcing' = {}
    /\ UNCHANGED <<ripe, announced>>
    /\ UNCHANGED <<orderVars, paymentVars, stockVars, bankVars>>

-----------------------------------------------------------------------------
Next ==
    \/ \E o \in Orders, p \in Points, cart \in Carts :
            PlaceOrder(o, p, cart) \/ CreateOnlineOrder(o, p, cart)
    \/ \E o \in Orders :
            \/ PrepareRetryPayment(o) \/ abort(o) \/ notifyCreated(o)
            \/ CancelByCustomer(o) \/ Elapse(o) \/ expireOne(o)
    \/ \E o \in Orders, k \in Attempts :
            \/ openSession(o, k) \/ openSessionFails(o, k)
            \/ failAttempt(o, k) \/ compensationFails(o, k)
            \/ bankCapture(o, k) \/ bankRefund(o, k)
    \/ \E o \in Orders, k \in Attempts, ev \in CallbackStatus : HandleCallback(o, k, ev)
    \/ \E o \in Orders, to \in OrderStatus, role \in {"owner", "manager"} :
            AdminUpdateStatus(o, to, role)
    \/ \E p \in Points, v \in Variants, q \in StockLevels : Upsert(p, v, q)
    \/ ExpirePending
    \/ Crash

Spec == Init /\ [][Next]_vars

\* Time passes and the expiry job keeps running (RunPendingExpiry ticks until
\* shutdown, and handles every id it selected); the bank repeats a "paid"
\* callback until it is answered with 200.
Fairness ==
    /\ \A o \in Orders : WF_vars(Elapse(o)) /\ WF_vars(expireOne(o))
    /\ WF_vars(ExpirePending)
    /\ \A o \in Orders, k \in Attempts : WF_vars(HandleCallback(o, k, "paid"))

FairSpec == Spec /\ Fairness

-----------------------------------------------------------------------------
(* Properties.                                                              *)

Recorded(s) == s \in {"paid", "refunded"}

\* How many of variant v the order keeps off the shelf of point p.
holds(ord, p, v) == IF ord.point = p /\ ord.status # "cancelled" THEN ord.items[v] ELSE 0

held(p, v) == SumFunctionOnSet([o \in Orders |-> holds(orders[o], p, v)], Orders)

\* Stock is reserved once and returned once: whatever checkouts, callbacks,
\* cancellations, expiries and staff edits interleave, each shelf holds what
\* it started with, plus what staff added, minus what live or delivered
\* orders took (createOrder, restockOrderTx, StockRepo.Upsert).
StockConserved ==
    \A p \in Points, v \in Variants :
        stock[p][v] + held(p, v) = InitStock[p][v] + adjusted[p][v]

\* An attempt is pending only if it is the order's latest one and the order
\* is open and says "pending" itself, and such an order has one: retries,
\* callbacks, cancels, aborts and the expiry job leave no orphan attempt.
OpenAttemptIsLive ==
    \A o \in Orders :
        /\ \A k \in Attempts : payments[o][k] = "pending" =>
                k = attempts[o] /\ orders[o].status = "placed" /\ orders[o].pay = "pending"
        /\ orders[o].pay = "pending" =>
                attempts[o] \in Attempts /\ payments[o][attempts[o]] = "pending"

\* At most one attempt of an order is ever recorded as paid (or refunded),
\* orders.payment_status says what that attempt says, and the bank took
\* exactly the order's amount for it (HandleCallback, lateSuccess): neither
\* a second captured session nor another sum is ever booked as the order's.
OneAttemptPays ==
    \A o \in Orders :
        /\ \A j, k \in Attempts :
                Recorded(payments[o][j]) /\ Recorded(payments[o][k]) => j = k
        /\ \A k \in Attempts : Recorded(payments[o][k]) =>
                orders[o].pay = payments[o][k] /\ bank[o][k] \in {"captured", "refunded"}
        /\ Recorded(orders[o].pay) => \E k \in Attempts : Recorded(payments[o][k])

\* Goods leave the shop for an online order only if its money came in
\* (paymentAllowsConfirm under the order lock against racing callbacks).
GoodsOnlyForMoney ==
    \A o \in Orders :
        (orders[o].method = "online_card"
            /\ orders[o].status \in {"confirmed", "courier_assigned", "delivered"})
        => \E k \in Attempts : Recorded(payments[o][k])

\* No money the bank was told we know about is forgotten: after a "paid"
\* callback was answered with 200, that attempt is the order's payment and
\* the order is alive, or it was refunded, or the order is flagged for refund
\* (HandleCallback's conflict branch, cancelLockedTx's refund flag).
MoneyAccounted ==
    \A o \in Orders, k \in Attempts :
        <<o, k>> \in acked =>
            \/ o \in refunds
            \/ payments[o][k] = "refunded"
            \/ payments[o][k] = "paid" /\ orders[o].status # "cancelled"

\* Nobody but the owner cancels an order that was paid: expireOne, abort and
\* a "cancelled" callback act only on an unpaid order, and one they cancelled
\* is never paid afterwards; a customer's own cancellation never leaves a
\* paid order cancelled (customerCanCancel is re-read under the order lock).
CancelsUnpaid ==
    \A o \in Orders : \A r \in history[o] :
        r.to = "cancelled" =>
            /\ r.actor = "system" => ~Recorded(orders[o].pay)
            /\ r.actor = "customer" => orders[o].pay # "paid"

\* Staff are told about an order at most once, and about an online order
\* only after its money came in (NotifyOrderPaid after an applied callback).
AnnouncedOnce ==
    \A o \in Orders :
        /\ announced[o] + (IF o \in announcing THEN 1 ELSE 0) <= 1
        /\ announced[o] > 0 /\ orders[o].method = "online_card" => Recorded(orders[o].pay)

\* An open unpaid online order does not stay open for ever: it is paid or
\* its reservation ends (PAYMENT_PENDING_TTL, RunPendingExpiry), although
\* every retry restarts the clock; and captured money is eventually booked to
\* its order or flagged for refund, however late the bank's callback comes.
OrdersSettle ==
    \A o \in Orders :
        /\ PaymentRetryable(orders[o]) ~> ~PaymentRetryable(orders[o])
        /\ \A k \in Attempts :
              bank[o][k] = "captured" ~> (Recorded(payments[o][k]) \/ o \in refunds)

\* What transition's comment says of a failed or cancelled attempt: "both
\* already cancelled the order; nothing to reconcile" (service.go), so that
\* a "cancelled" callback after a decline may be ignored.
UnpaidFinalCancelledOrder ==
    \A o \in Orders :
        attempts[o] \in Attempts /\ isUnpaidFinal(payments[o][attempts[o]])
            => orders[o].status = "cancelled"

-----------------------------------------------------------------------------
(* Refinement: the promises of OrderContract.                               *)

goodsOf(ord) ==
    CASE ord.status = "none"      -> "none"
      [] ord.status = "placed"    -> "reserved"
      [] ord.status = "delivered" -> "delivered"
      [] ord.status = "cancelled" -> "returned"
      [] OTHER                    -> "leaving"

moneyOf(ord) ==
    IF ord.status = "none" THEN "none"
    ELSE IF ord.method = "cash_on_delivery" THEN "cash"
    ELSE CASE ord.pay = "paid"     -> "taken"
           [] ord.pay = "refunded" -> "back"
           [] OTHER                -> "due"

goodsBar == [o \in Orders |-> goodsOf(orders[o])]
moneyBar == [o \in Orders |-> moneyOf(orders[o])]

Contract == INSTANCE OrderContract WITH goods <- goodsBar, money <- moneyBar, owed <- refunds

\* Orders, payments, callbacks and the expiry job together keep the shop's
\* promise about every order's goods and money (OrderContract).
KeepsContract == Contract!Spec
=============================================================================
