------------------------- MODULE OrderPaymentsProofs -------------------------
(***************************************************************************)
(* Theorems about OrderPayments for every set of orders, points, variants  *)
(* and carts and every bound on attempts, batch size and crashes.          *)
(***************************************************************************)
EXTENDS OrderPayments, FiniteLemmas

USE DEF Attempts

\* closePending turns payments rows into payments rows.
LEMMA ClosePendingType ==
    ASSUME NEW rows \in Rows
    PROVE  closePending(rows) \in Rows
  BY DEF closePending, Rows, PaymentStatus

\* The part of the state a transaction on an order writes.
TxType ==
    /\ orders \in [Orders -> OrderRow]
    /\ refunds \in SUBSET Orders
    /\ history \in [Orders -> SUBSET StatusRow]
    /\ payments \in [Orders -> Rows]
    /\ stock \in [Points -> [Variants -> Nat]]

\* recordStatusTx keeps order_status_history well formed.
LEMMA RecordType ==
    ASSUME TypeOK, NEW o \in Orders, NEW from \in OrderStatus \cup {"none"},
           NEW to \in OrderStatus, NEW actor \in ActorType,
           recordStatusTx(o, from, to, actor)
    PROVE  history' \in [Orders -> SUBSET StatusRow]
  <1>1. [from |-> from, to |-> to, actor |-> actor] \in StatusRow
    BY DEF StatusRow
  <1>2. QED
    BY <1>1 DEF TypeOK, recordStatusTx

\* cancelLockedTx keeps every row and shelf well formed.
LEMMA CancelType ==
    ASSUME TypeOK, NEW o \in Orders, NEW ord \in OrderRow, NEW rows \in Rows,
           NEW actor \in ActorType,
           cancelLockedTx(o, ord, rows, actor)
    PROVE  TxType'
  <1>1. cancelledOrder(ord) \in OrderRow
    BY DEF cancelledOrder, withPay, withStatus, OrderRow, OrderStatus, PaymentStatus, PaymentMethod
  <1>2. cancelledPayments(ord, rows) \in Rows
    BY ClosePendingType DEF cancelledPayments
  <1>3. orders' \in [Orders -> OrderRow] /\ refunds' \in SUBSET Orders
    BY <1>1 DEF cancelLockedTx, TypeOK
  <1>4. payments' \in [Orders -> Rows]
    BY <1>2 DEF cancelLockedTx, TypeOK
  <1>5. history' \in [Orders -> SUBSET StatusRow]
    BY RecordType DEF cancelLockedTx, OrderRow, OrderStatus
  <1>6. stock' \in [Points -> [Variants -> Nat]]
    <2>1. ord.items \in [Variants -> Nat]
      BY DEF OrderRow
    <2>2. stock \in [Points -> [Variants -> Nat]]
      BY DEF TypeOK
    <2>3. CASE ord.point \in Points
      <3>1. [v \in Variants |-> stock[ord.point][v] + ord.items[v]] \in [Variants -> Nat]
        BY <2>1, <2>2, <2>3
      <3>2. QED
        BY <2>2, <2>3, <3>1 DEF cancelLockedTx, restockOrderTx
    <2>4. CASE ord.point \notin Points
      BY <2>2, <2>4 DEF cancelLockedTx, restockOrderTx
    <2>5. QED
      BY <2>3, <2>4
  <1>7. QED
    BY <1>3, <1>4, <1>5, <1>6 DEF TxType

\* CancelUnpaidOrderTx likewise, whether or not it cancels.
LEMMA CancelUnpaidType ==
    ASSUME TypeOK, NEW o \in Orders, NEW ord \in OrderRow, NEW rows \in Rows,
           CancelUnpaidOrderTx(o, ord, rows)
    PROVE  TxType'
  <1>1. CASE ord.status = "placed" /\ cancelLockedTx(o, ord, rows, "system")
    BY <1>1, CancelType DEF ActorType
  <1>2. CASE ord.status # "placed"
    BY <1>2 DEF CancelUnpaidOrderTx, TypeOK, TxType
  <1>3. QED
    BY <1>1, <1>2 DEF CancelUnpaidOrderTx

\* The expiry clock is always a set of orders.
LEMMA RetimeType ==
    ASSUME TypeOK, NEW o \in Orders, retimeLatest(o)
    PROVE  ripe' \in SUBSET Orders
  BY DEF TypeOK, retimeLatest

\* createOrder: the reservation keeps every shelf non-negative.
LEMMA CreateType ==
    ASSUME TypeOK, NEW o \in Orders, NEW method \in PaymentMethod, NEW p \in Points,
           NEW cart \in Carts, createOrder(o, method, p, cart)
    PROVE  /\ orders' \in [Orders -> OrderRow]
           /\ history' \in [Orders -> SUBSET StatusRow]
           /\ stock' \in [Points -> [Variants -> Nat]]
  <1>1. cart \in [Variants -> Nat]
    BY CartsAssumption
  <1>2. orders' \in [Orders -> OrderRow]
    BY <1>1 DEF createOrder, TypeOK, OrderRow, OrderStatus, PaymentStatus, PaymentMethod
  <1>3. history' \in [Orders -> SUBSET StatusRow]
    BY RecordType DEF createOrder, OrderStatus, ActorType
  <1>4. stock' \in [Points -> [Variants -> Nat]]
    <2>1. stock \in [Points -> [Variants -> Nat]]
      BY DEF TypeOK
    <2>2. [v \in Variants |-> stock[p][v] - cart[v]] \in [Variants -> Nat]
      BY <1>1, <2>1 DEF createOrder, lockAndDecrementStock
    <2>3. QED
      BY <2>1, <2>2 DEF createOrder, lockAndDecrementStock
  <1>5. QED
    BY <1>2, <1>3, <1>4
\* The payments rows a callback leaves are payments rows.
LEMMA CallbackRowsType ==
    ASSUME TypeOK, NEW o \in Orders, NEW k \in Attempts, NEW ev \in CallbackStatus
    PROVE  callbackRows(o, k, ev) \in Rows
  <1>1. payments[o] \in Rows
    BY DEF TypeOK
  <1>2. closePending(payments[o]) \in Rows
    BY <1>1, ClosePendingType
  <1>3. QED
    BY <1>1, <1>2 DEF callbackRows, Rows, CallbackStatus

\* A row of the orders table with another payment_status is one too.
LEMMA SetPayType ==
    ASSUME TypeOK, NEW o \in Orders, NEW s \in PaymentStatus
    PROVE  withPay(orders[o], s) \in OrderRow
  BY DEF TypeOK, OrderRow, withPay

\* Every step of the shop, the bank and the staff keeps the state well formed.
LEMMA TypeStep == TypeOK /\ [Next]_vars => TypeOK'
  <1> USE AttemptsAssumption
  <1> SUFFICES ASSUME TypeOK, [Next]_vars PROVE TypeOK'
    OBVIOUS
  <1>1. ASSUME NEW o \in Orders, NEW p \in Points, NEW cart \in Carts, PlaceOrder(o, p, cart)
        PROVE  TypeOK'
    BY <1>1, CreateType DEF PlaceOrder, createOrder, TypeOK, PaymentMethod
  <1>2. ASSUME NEW o \in Orders, NEW p \in Points, NEW cart \in Carts, CreateOnlineOrder(o, p, cart)
        PROVE  TypeOK'
    <2>1. payments' \in [Orders -> Rows]
      BY <1>2 DEF CreateOnlineOrder, TypeOK, Rows, PaymentStatus
    <2>2. opener' \in [Orders -> [Attempts -> {"idle", "opening", "failing"}]]
      BY <1>2 DEF CreateOnlineOrder, TypeOK
    <2>3. attempts' \in [Orders -> 0..MaxPaymentAttempts]
      BY <1>2 DEF CreateOnlineOrder, TypeOK
    <2>4. /\ orders' \in [Orders -> OrderRow]
          /\ history' \in [Orders -> SUBSET StatusRow]
          /\ stock' \in [Points -> [Variants -> Nat]]
      BY <1>2, CreateType DEF CreateOnlineOrder, PaymentMethod
    <2>5. QED
      BY <1>2, <2>1, <2>2, <2>3, <2>4 DEF CreateOnlineOrder, createOrder, TypeOK
  <1>3. ASSUME NEW o \in Orders, PrepareRetryPayment(o)
        PROVE  TypeOK'
    <2>1. closePending(payments[o]) \in Rows
      BY ClosePendingType DEF TypeOK
    <2>2. payments' \in [Orders -> Rows]
      BY <1>3, <2>1 DEF PrepareRetryPayment, TypeOK, Rows, PaymentStatus
    <2>3. orders' \in [Orders -> OrderRow]
      BY <1>3, SetPayType DEF PrepareRetryPayment, TypeOK, PaymentStatus
    <2>4. attempts' \in [Orders -> 0..MaxPaymentAttempts]
      BY <1>3 DEF PrepareRetryPayment, attemptsLeft, TypeOK
    <2>5. QED
      BY <1>3, <2>2, <2>3, <2>4 DEF PrepareRetryPayment, stockVars, bankVars, TypeOK
  <1>4. ASSUME NEW o \in Orders, NEW k \in Attempts, openSession(o, k)
        PROVE  TypeOK'
    BY <1>4 DEF openSession, storeTxId, orderVars, stockVars, bankVars, TypeOK
  <1>5. ASSUME NEW o \in Orders, NEW k \in Attempts, openSessionFails(o, k)
        PROVE  TypeOK'
    BY <1>5 DEF openSessionFails, storeTxId, orderVars, stockVars, bankVars, TypeOK
  <1>6. ASSUME NEW o \in Orders, abort(o)
        PROVE  TypeOK'
    <2>1. [payments[o] EXCEPT ![1] = "failed"] \in Rows
      BY DEF TypeOK, Rows, PaymentStatus
    <2>2. TxType'
      <3>1. CASE CancelUnpaidOrderTx(o, withPay(orders[o], "failed"), [payments[o] EXCEPT ![1] = "failed"])
        BY <2>1, <3>1, SetPayType, CancelUnpaidType DEF PaymentStatus
      <3>2. CASE UNCHANGED <<orders, refunds, history, payments, stock>>
        BY <3>2 DEF TxType, TypeOK
      <3>3. QED
        BY <1>6, <3>1, <3>2 DEF abort
    <2>3. ripe' \in SUBSET Orders
      BY <1>6, RetimeType DEF abort
    <2>4. QED
      BY <1>6, <2>2, <2>3 DEF abort, bankVars, TypeOK, TxType
  <1>7. ASSUME NEW o \in Orders, NEW k \in Attempts, failAttempt(o, k)
        PROVE  TypeOK'
    <2>1. payments' \in [Orders -> Rows]
      <3>1. [payments[o] EXCEPT ![k] = "failed"] \in Rows
        BY DEF TypeOK, Rows, PaymentStatus
      <3>2. CASE payments' = [payments EXCEPT ![o][k] = "failed"]
        BY <3>1, <3>2 DEF TypeOK
      <3>3. QED
        BY <1>7, <3>2 DEF failAttempt, TypeOK
    <2>2. orders' \in [Orders -> OrderRow]
      <3>1. withPay(orders[o], "failed") \in OrderRow
        BY SetPayType DEF PaymentStatus
      <3>2. QED
        BY <1>7, <3>1 DEF failAttempt, TypeOK
    <2>3. ripe' \in SUBSET Orders
      BY <1>7, RetimeType DEF failAttempt
    <2>4. QED
      BY <1>7, <2>1, <2>2, <2>3 DEF failAttempt, stockVars, bankVars, TypeOK
  <1>8. ASSUME NEW o \in Orders, NEW k \in Attempts, compensationFails(o, k)
        PROVE  TypeOK'
    BY <1>8 DEF compensationFails, orderVars, paymentVars, stockVars, bankVars, TypeOK
  <1>9. ASSUME NEW o \in Orders, NEW k \in Attempts, bankCapture(o, k) \/ bankRefund(o, k)
        PROVE  TypeOK'
    <2>1. PICK outcome \in {"captured", "miscaptured", "refunded"} : bank' = [bank EXCEPT ![o][k] = outcome]
      BY <1>9 DEF bankCapture, bankRefund
    <2>2. bank' \in [Orders -> [Attempts -> {"idle", "captured", "miscaptured", "refunded"}]]
      BY <2>1 DEF TypeOK
    <2>3. QED
      BY <1>9, <2>2 DEF bankCapture, bankRefund, orderVars, paymentVars, stockVars, procVars, TypeOK
  <1>10. ASSUME NEW o \in Orders, NEW k \in Attempts, NEW ev \in CallbackStatus, HandleCallback(o, k, ev)
         PROVE  TypeOK'
    <2>1. callbackRows(o, k, ev) \in Rows
      BY CallbackRowsType
    <2>2. withPay(orders[o], ev) \in OrderRow
      BY SetPayType DEF CallbackStatus
    <2>3. TxType' /\ announcing' \in SUBSET Orders
      <3>1. CASE applyCallback(o, k, ev)
        <4>1. CASE CancelUnpaidOrderTx(o, withPay(orders[o], ev), callbackRows(o, k, ev))
          BY <2>1, <2>2, <3>1, <4>1, CancelUnpaidType DEF applyCallback, TypeOK
        <4>2. CASE ev # "cancelled"
          BY <2>1, <2>2, <3>1, <4>2, ZenonT(30) DEF applyCallback, TypeOK, TxType
        <4>3. QED
          BY <3>1, <4>1, <4>2 DEF applyCallback
      <3>2. CASE ~callbackApplies(o, k, ev)
        BY <1>10, <3>2 DEF HandleCallback, TypeOK, TxType
      <3>3. QED
        BY <1>10, <3>1, <3>2 DEF HandleCallback
    <2>4. ripe' \in SUBSET Orders
      BY <1>10, RetimeType DEF HandleCallback
    <2>5. QED
      BY <1>10, <2>3, <2>4 DEF HandleCallback, TypeOK, TxType
  <1>11. ASSUME NEW o \in Orders, notifyCreated(o)
         PROVE  TypeOK'
    BY <1>11 DEF notifyCreated, orderVars, paymentVars, stockVars, bankVars, TypeOK
  <1>12. ASSUME NEW o \in Orders, NEW actor \in ActorType, cancelStep(o, actor)
         PROVE  TypeOK'
    <2>1. TxType'
      BY <1>12, CancelType DEF cancelStep, TypeOK
    <2>2. ripe' \in SUBSET Orders
      BY <1>12, RetimeType DEF cancelStep
    <2>3. QED
      BY <1>12, <2>1, <2>2 DEF cancelStep, bankVars, procVars, TypeOK, TxType
  <1>13. ASSUME NEW o \in Orders, CancelByCustomer(o)
         PROVE  TypeOK'
    BY <1>12, <1>13 DEF CancelByCustomer, ActorType
  <1>14. ASSUME NEW o \in Orders, NEW to \in OrderStatus, NEW role, AdminUpdateStatus(o, to, role)
         PROVE  TypeOK'
    <2>1. CASE cancelStep(o, "staff")
      BY <1>12, <2>1 DEF ActorType
    <2>2. CASE ~cancelStep(o, "staff")
      <3>1. orders' \in [Orders -> OrderRow]
        <4>1. withStatus(orders[o], to) \in OrderRow
          BY DEF withStatus, TypeOK, OrderRow
        <4>2. QED
          BY <1>14, <2>2, <4>1 DEF AdminUpdateStatus, TypeOK
      <3>2. history' \in [Orders -> SUBSET StatusRow]
        <4>1. orders[o].status \in OrderStatus \cup {"none"}
          BY DEF TypeOK, OrderRow
        <4>2. QED
          BY <1>14, <2>2, <4>1, RecordType DEF AdminUpdateStatus, ActorType
      <3>3. QED
        BY <1>14, <2>2, <3>1, <3>2
        DEF AdminUpdateStatus, paymentVars, stockVars, bankVars, procVars, TypeOK
    <2>3. QED
      BY <2>1, <2>2
  <1>15. ASSUME NEW p \in Points, NEW v \in Variants, NEW q \in StockLevels, Upsert(p, v, q)
         PROVE  TypeOK'
    BY <1>15, StockAssumption, SMTT(20) DEF Upsert, orderVars, paymentVars, bankVars, procVars, TypeOK
  <1>16. ASSUME NEW o \in Orders, Elapse(o)
         PROVE  TypeOK'
    BY <1>16 DEF Elapse, orderVars, paymentVars, stockVars, bankVars, procVars, TypeOK
  <1>17. ASSUME ExpirePending
         PROVE  TypeOK'
    BY <1>17 DEF ExpirePending, orderVars, paymentVars, stockVars, bankVars, TypeOK
  <1>18. ASSUME NEW o \in Orders, expireOne(o)
         PROVE  TypeOK'
    <2>1. TxType'
      <3>1. CASE CancelUnpaidOrderTx(o, orders[o], payments[o])
        BY <3>1, CancelUnpaidType DEF TypeOK
      <3>2. CASE UNCHANGED <<orders, refunds, history, payments, stock>>
        BY <3>2 DEF TxType, TypeOK
      <3>3. QED
        BY <1>18, <3>1, <3>2 DEF expireOne
    <2>2. ripe' \in SUBSET Orders
      BY <1>18, RetimeType DEF expireOne
    <2>3. QED
      BY <1>18, <2>1, <2>2 DEF expireOne, bankVars, TypeOK, TxType
  <1>19. ASSUME Crash
         PROVE  TypeOK'
    BY <1>19, BoundsAssumption DEF Crash, orderVars, paymentVars, stockVars, bankVars, TypeOK
  <1>20. CASE UNCHANGED vars
    BY <1>20 DEF vars, TypeOK
  <1>21. QED
    BY <1>1, <1>2, <1>3, <1>4, <1>5, <1>6, <1>7, <1>8, <1>9, <1>10, <1>11, <1>13,
       <1>14, <1>15, <1>16, <1>17, <1>18, <1>19, <1>20 DEF Next

\* The empty shop is well formed.
LEMMA InitType == Init => TypeOK
  BY AttemptsAssumption, StockAssumption, BoundsAssumption
  DEF Init, TypeOK, NoOrder, NoItems, OrderRow, OrderStatus, PaymentMethod, PaymentStatus, Rows

\* The state of the orders, payments, stock and jobs is well formed in every
\* reachable state: no shelf goes negative and no order opens more than
\* MaxPaymentAttempts attempts.
THEOREM TypeCorrect == Spec => []TypeOK
  BY InitType, TypeStep, PTL DEF Spec

-----------------------------------------------------------------------------
(* The inductive invariant.  Consistent relates an order row to its         *)
(* payments rows as the transactions keep them; Safe adds what the bank,    *)
(* the refund flag and the history say about the order.                     *)

Shipped == {"confirmed", "courier_assigned", "delivered"}

Consistent(ord, rows, n) ==
    /\ \A k \in Attempts : rows[k] = "none" <=> k > n
    /\ ord.method = "cash_on_delivery" <=> ord.pay = "null"
    /\ ord.method = "cash_on_delivery" <=> n = 0
    /\ ord.status = "none" => n = 0
    /\ \A k \in Attempts : rows[k] = "pending" => k = n /\ ord.status = "placed" /\ ord.pay = "pending"
    /\ ord.pay = "pending" => rows[n] = "pending"
    /\ \A j, k \in Attempts : Recorded(rows[j]) /\ Recorded(rows[k]) => j = k
    /\ \A k \in Attempts : Recorded(rows[k]) => ord.pay = rows[k]
    /\ Recorded(ord.pay) => \E k \in Attempts : Recorded(rows[k])
    /\ ord.method = "online_card" /\ ord.status \in Shipped => Recorded(ord.pay)

\* What is known of the bank's money for attempt k of order o.
Money(o, k) ==
    /\ <<o, k>> \in linked => payments[o][k] # "none"
    /\ opener[o][k] # "idle" => payments[o][k] # "none"
    /\ Recorded(payments[o][k]) => bank[o][k] \in {"captured", "refunded"}
    /\ <<o, k>> \in acked =>
            \/ o \in refunds
            \/ payments[o][k] = "refunded"
            \/ payments[o][k] = "paid" /\ orders[o].status # "cancelled"

CancelRow(o, actor) == \E r \in history[o] : r.to = "cancelled" /\ r.actor = actor

Ended(o) ==
    /\ \A r \in history[o] : r.to = "cancelled" => orders[o].status = "cancelled"
    /\ CancelRow(o, "system") => ~Recorded(orders[o].pay)
    /\ CancelRow(o, "customer") => orders[o].pay # "paid"
    /\ orders[o].status = "cancelled" /\ orders[o].pay = "paid" => o \in refunds
    /\ orders[o].pay = "cancelled" => orders[o].status = "cancelled"

Safe(o) ==
    /\ Consistent(orders[o], payments[o], attempts[o])
    /\ \A k \in Attempts : Money(o, k)
    /\ Ended(o)

IInv == TypeOK /\ \A o \in Orders : Safe(o)

-----------------------------------------------------------------------------
(* What the updates of one transaction do to an order row and its payments  *)
(* rows.                                                                    *)

\* A pending attempt is declined, cancelled or given up on.
LEMMA FailKeepsConsistent ==
    ASSUME NEW ord \in OrderRow, NEW rows \in Rows, NEW n \in 0..MaxPaymentAttempts,
           NEW k \in Attempts, NEW s \in {"failed", "cancelled"},
           Consistent(ord, rows, n), rows[k] = "pending"
    PROVE  Consistent(withPay(ord, s), [rows EXCEPT ![k] = s], n)
  BY AttemptsAssumption
  DEF Consistent, withPay, Recorded, OrderRow, Rows, PaymentMethod, PaymentStatus, Shipped

\* A pending attempt, or one given up on while the order still waits, is
\* paid; every other open attempt is closed.
LEMMA PaidKeepsConsistent ==
    ASSUME NEW ord \in OrderRow, NEW rows \in Rows, NEW n \in 0..MaxPaymentAttempts,
           NEW k \in Attempts, Consistent(ord, rows, n),
           rows[k] = "pending" \/ (isUnpaidFinal(rows[k]) /\ PaymentRetryable(ord))
    PROVE  Consistent(withPay(ord, "paid"), [closePending(rows) EXCEPT ![k] = "paid"], n)
  <1> DEFINE new == [closePending(rows) EXCEPT ![k] = "paid"]
  <1>1. ord.status = "placed" /\ ord.pay \in {"pending", "failed"} /\ ord.method = "online_card" /\ rows[k] # "none"
    BY DEF Consistent, PaymentRetryable, isUnpaidFinal, OrderRow, PaymentMethod, PaymentStatus
  <1>2. \A j \in Attempts : ~Recorded(rows[j])
    BY <1>1 DEF Consistent, Recorded
  <1>3. \A j \in Attempts : new[j] = IF j = k THEN "paid" ELSE IF rows[j] = "pending" THEN "cancelled" ELSE rows[j]
    BY DEF closePending, Rows
  <1>4. \A j \in Attempts : (new[j] = "none" <=> rows[j] = "none") /\ new[j] # "pending" /\ (Recorded(new[j]) <=> j = k)
    BY <1>1, <1>2, <1>3 DEF Recorded
  <1>5. new[k] = "paid"
    BY <1>3
  <1> HIDE DEF new
  <1>6. Consistent(withPay(ord, "paid"), new, n)
    BY <1>1, <1>4, <1>5 DEF Consistent, withPay, Recorded, OrderRow, PaymentMethod, Shipped
  <1>7. QED
    BY <1>6 DEF new

\* The paid attempt is refunded.
LEMMA RefundKeepsConsistent ==
    ASSUME NEW ord \in OrderRow, NEW rows \in Rows, NEW n \in 0..MaxPaymentAttempts,
           NEW k \in Attempts, Consistent(ord, rows, n), rows[k] = "paid"
    PROVE  Consistent(withPay(ord, "refunded"), [rows EXCEPT ![k] = "refunded"], n)
  BY AttemptsAssumption
  DEF Consistent, withPay, Recorded, OrderRow, Rows, PaymentMethod, PaymentStatus, Shipped

\* cancelLockedTx closes the open attempt together with the order.
LEMMA CancelKeepsConsistent ==
    ASSUME NEW ord \in OrderRow, NEW rows \in Rows, NEW n \in 0..MaxPaymentAttempts,
           Consistent(ord, rows, n), ord.status # "none"
    PROVE  Consistent(cancelledOrder(ord), cancelledPayments(ord, rows), n)
  <1>1. CASE ord.method = "online_card" /\ ord.pay = "pending"
    BY <1>1, AttemptsAssumption
    DEF Consistent, cancelledOrder, cancelledPayments, closePending, withPay, withStatus, Recorded,
        OrderRow, Rows, PaymentMethod, PaymentStatus, Shipped
  <1>2. CASE ~(ord.method = "online_card" /\ ord.pay = "pending")
    BY <1>2, AttemptsAssumption
    DEF Consistent, cancelledOrder, cancelledPayments, withStatus, Recorded,
        OrderRow, Rows, PaymentMethod, PaymentStatus, Shipped
  <1>3. QED
    BY <1>1, <1>2

\* A retry closes the open attempt and opens the next one.
LEMMA RetryKeepsConsistent ==
    ASSUME NEW ord \in OrderRow, NEW rows \in Rows, NEW n \in 0..MaxPaymentAttempts,
           Consistent(ord, rows, n), PaymentRetryable(ord), n < MaxPaymentAttempts
    PROVE  Consistent(withPay(ord, "pending"), [closePending(rows) EXCEPT ![n + 1] = "pending"], n + 1)
  <1> DEFINE new == [closePending(rows) EXCEPT ![n + 1] = "pending"]
  <1>1. ord.status = "placed" /\ ord.pay \in {"pending", "failed"} /\ ord.method = "online_card" /\ n \in Nat
    BY DEF PaymentRetryable
  <1>2. \A j \in Attempts : ~Recorded(rows[j])
    BY <1>1 DEF Consistent, Recorded
  <1>3. n + 1 \in Attempts
    BY AttemptsAssumption
  <1>4. \A j \in Attempts : new[j] = IF j = n + 1 THEN "pending" ELSE IF rows[j] = "pending" THEN "cancelled" ELSE rows[j]
    BY DEF closePending, Rows
  <1>5. \A j \in Attempts : (new[j] = "none" <=> j > n + 1) /\ (new[j] = "pending" <=> j = n + 1) /\ ~Recorded(new[j])
    BY <1>2, <1>4 DEF Recorded, Consistent
  <1> HIDE DEF new
  <1>6. Consistent(withPay(ord, "pending"), new, n + 1)
    BY <1>1, <1>3, <1>5 DEF Consistent, withPay, Recorded, OrderRow, PaymentMethod, Shipped
  <1>7. QED
    BY <1>6 DEF new

\* A staff transition along the status machine, with its payment gate.
LEMMA AdvanceKeepsConsistent ==
    ASSUME NEW ord \in OrderRow, NEW rows \in Rows, NEW n \in 0..MaxPaymentAttempts,
           NEW to \in OrderStatus, Consistent(ord, rows, n),
           validStatusTransition(ord.status, to), to # "cancelled",
           to = "confirmed" => paymentAllowsConfirm(ord)
    PROVE  Consistent(withStatus(ord, to), rows, n)
  BY AttemptsAssumption
  DEF Consistent, withStatus, validStatusTransition, paymentAllowsConfirm, Recorded,
      OrderRow, OrderStatus, Rows, PaymentMethod, PaymentStatus, Shipped

-----------------------------------------------------------------------------
(* A step that leaves the columns of an order alone keeps what is known of  *)
(* it.                                                                      *)
Untouched(o) ==
    /\ orders'[o] = orders[o]
    /\ history'[o] = history[o]
    /\ attempts'[o] = attempts[o]
    /\ payments'[o] = payments[o]
    /\ opener'[o] = opener[o]
    /\ bank'[o] = bank[o]
    /\ o \in refunds' <=> o \in refunds
    /\ \A k \in Attempts : <<o, k>> \in linked' <=> <<o, k>> \in linked
    /\ \A k \in Attempts : <<o, k>> \in acked' <=> <<o, k>> \in acked

LEMMA UntouchedSafe ==
    ASSUME NEW o \in Orders, Safe(o), Untouched(o)
    PROVE  Safe(o)'
  <1>1. Consistent(orders[o], payments[o], attempts[o])'
    BY DEF Safe, Untouched, Consistent, Recorded
  <1>2. \A k \in Attempts : Money(o, k)'
    BY DEF Safe, Untouched, Money, Recorded
  <1>3. Ended(o)'
    BY DEF Safe, Untouched, Ended, CancelRow, Recorded
  <1>4. QED
    BY <1>1, <1>2, <1>3 DEF Safe

\* What cancelLockedTx does to the history and the refund flag of its order.
LEMMA CancelEnds ==
    ASSUME TypeOK, NEW o \in Orders, NEW ord \in OrderRow, NEW rows \in Rows,
           NEW actor \in ActorType, cancelLockedTx(o, ord, rows, actor),
           \A r \in history[o] : r.to # "cancelled",
           actor = "system" => ~Recorded(ord.pay),
           actor = "customer" => ord.pay # "paid",
           ord.pay = "paid" => ord.method = "online_card"
    PROVE  Ended(o)'
  <1>1. orders'[o] = cancelledOrder(ord) /\ history'[o] = history[o] \cup {[from |-> ord.status, to |-> "cancelled", actor |-> actor]}
    BY DEF cancelLockedTx, recordStatusTx, TypeOK
  <1>2. orders'[o].status = "cancelled" /\ (orders'[o].pay = ord.pay \/ (ord.pay = "pending" /\ orders'[o].pay = "cancelled"))
    BY <1>1 DEF cancelledOrder, withPay, withStatus
  <1>3. Recorded(orders'[o].pay) <=> Recorded(ord.pay)
    BY <1>2 DEF Recorded
  <1>4. orders'[o].pay = "paid" => o \in refunds'
    BY <1>2 DEF cancelLockedTx, cancelOwesRefund
  <1>5. \A r \in history'[o] : r.to = "cancelled" => r.actor = actor
    BY <1>1
  <1>6. QED
    BY <1>2, <1>3, <1>4, <1>5 DEF Ended, CancelRow, ActorType

\* Opening an order, as in createOrder and CreateOnlineOrder's first attempt.
LEMMA CreateSafe ==
    ASSUME IInv, NEW o \in Orders, NEW p \in Points, NEW cart \in Carts,
           PlaceOrder(o, p, cart) \/ CreateOnlineOrder(o, p, cart)
    PROVE  \A q \in Orders : Safe(q)'
  <1> USE AttemptsAssumption
  <1>1. orders[o].status = "none" /\ attempts[o] = 0 /\ orders[o].method = "cash_on_delivery"
    BY DEF IInv, Safe, Consistent, PlaceOrder, CreateOnlineOrder, createOrder
  <1>2. ASSUME NEW q \in Orders, q # o PROVE Untouched(q)
    BY <1>2 DEF IInv, TypeOK, PlaceOrder, CreateOnlineOrder, createOrder, recordStatusTx, Untouched
  <1>3. \A k \in Attempts : payments[o][k] = "none"
    BY <1>1 DEF IInv, Safe, Consistent, TypeOK
  <1>4. Ended(o)'
    <2>1. history'[o] = history[o] \cup {[from |-> "none", to |-> "placed", actor |-> "customer"]}
      BY DEF IInv, TypeOK, PlaceOrder, CreateOnlineOrder, createOrder, recordStatusTx
    <2>2. \A r \in history[o] : r.to # "cancelled"
      BY <1>1 DEF IInv, Safe, Ended
    <2>3. \A r \in history'[o] : r.to # "cancelled"
      BY <2>1, <2>2
    <2>4. orders'[o].status = "placed" /\ orders'[o].pay \in {"pending", "null"}
      BY DEF IInv, TypeOK, PlaceOrder, CreateOnlineOrder, createOrder
    <2>5. QED
      BY <2>3, <2>4 DEF Ended, CancelRow
  <1>5. CASE PlaceOrder(o, p, cart)
    <2>1. orders'[o].method = "cash_on_delivery" /\ orders'[o].pay = "null" /\ orders'[o].status = "placed" /\ attempts'[o] = 0 /\ payments'[o] = payments[o]
      BY <1>1, <1>5 DEF IInv, TypeOK, PlaceOrder, createOrder
    <2>2. Consistent(orders[o], payments[o], attempts[o])'
      BY <1>3, <2>1 DEF Consistent, Recorded, Shipped
    <2>3. \A k \in Attempts : Money(o, k)'
      BY <1>3, <1>5, <2>1 DEF IInv, Safe, Money, PlaceOrder, createOrder, Recorded
    <2>4. QED
      BY <1>2, <1>4, <2>2, <2>3, UntouchedSafe DEF IInv, Safe
  <1>6. CASE CreateOnlineOrder(o, p, cart)
    <2>1. orders'[o].method = "online_card" /\ orders'[o].pay = "pending" /\ orders'[o].status = "placed" /\ attempts'[o] = 1
      BY <1>1, <1>6 DEF IInv, TypeOK, CreateOnlineOrder, createOrder
    <2>2. \A k \in Attempts : payments'[o][k] = IF k = 1 THEN "pending" ELSE "none"
      BY <1>3, <1>6 DEF IInv, TypeOK, CreateOnlineOrder, Rows
    <2>3. Consistent(orders[o], payments[o], attempts[o])'
      BY <2>1, <2>2 DEF Consistent, Recorded, Shipped
    <2>4. \A k \in Attempts : opener'[o][k] = IF k = 1 THEN "opening" ELSE opener[o][k]
      BY <1>6 DEF IInv, TypeOK, CreateOnlineOrder
    <2>5. \A k \in Attempts : Money(o, k)'
      BY <1>3, <1>6, <2>1, <2>2, <2>4 DEF IInv, Safe, Money, CreateOnlineOrder, createOrder, Recorded
    <2>6. QED
      BY <1>2, <1>4, <2>3, <2>5, UntouchedSafe DEF IInv, Safe
  <1>7. QED
    BY <1>5, <1>6

\* A system, customer or staff cancellation of a live order, after the
\* caller's own updates turned its rows into ord and rows.
LEMMA CancelSafe ==
    ASSUME IInv, NEW o \in Orders, NEW ord \in OrderRow, NEW rows \in Rows,
           NEW actor \in ActorType, cancelLockedTx(o, ord, rows, actor),
           Consistent(ord, rows, attempts[o]),
           ord.status = orders[o].status, ord.status \notin {"none", "cancelled"},
           \A k \in Attempts : \/ rows[k] = payments[o][k]
                               \/ payments[o][k] = "pending" /\ isUnpaidFinal(rows[k]),
           actor = "system" => ~Recorded(ord.pay),
           actor = "customer" => ord.pay # "paid",
           UNCHANGED <<attempts, linked, bank, acked>>,
           \A q \in Orders, k \in Attempts : opener'[q][k] # "idle" => opener[q][k] # "idle",
           \A q \in Orders \ {o} : opener'[q] = opener[q]
    PROVE  \A q \in Orders : Safe(q)'
  <1>0. TypeOK /\ Safe(o)
    BY DEF IInv
  <1>1. ASSUME NEW q \in Orders, q # o PROVE Untouched(q)
    BY <1>0, <1>1 DEF TypeOK, cancelLockedTx, recordStatusTx, Untouched
  <1>2. orders'[o] = cancelledOrder(ord) /\ payments'[o] = cancelledPayments(ord, rows)
    BY <1>0 DEF TypeOK, cancelLockedTx
  <1>3. attempts[o] \in 0..MaxPaymentAttempts
    BY <1>0 DEF TypeOK
  <1>4. Consistent(orders'[o], payments'[o], attempts'[o])
    BY <1>2, <1>3, CancelKeepsConsistent
  <1>5. Ended(o)'
    <2>1. \A r \in history[o] : r.to # "cancelled"
      BY <1>0 DEF Safe, Ended
    <2>2. ord.pay = "paid" => ord.method = "online_card"
      BY DEF Consistent, OrderRow, PaymentMethod
    <2>3. QED
      BY <1>0, <2>1, <2>2, CancelEnds
  <1>6. \A k \in Attempts : \/ payments'[o][k] = payments[o][k]
                            \/ payments[o][k] = "pending" /\ isUnpaidFinal(payments'[o][k])
    BY <1>2 DEF cancelledPayments, closePending, isUnpaidFinal
  <1>7. ASSUME NEW k \in Attempts PROVE Money(o, k)'
    <2>1. Money(o, k)
      BY <1>0 DEF Safe
    <2>2. refunds \subseteq refunds'
      BY DEF cancelLockedTx
    <2>3. payments[o][k] = "paid" => o \in refunds'
      <3>1. payments[o][k] = "paid" => rows[k] = "paid"
        OBVIOUS
      <3>2. rows[k] = "paid" => ord.pay = "paid" /\ ord.method = "online_card"
        BY DEF Consistent, Recorded, OrderRow, PaymentMethod
      <3>3. QED
        BY <3>1, <3>2 DEF cancelLockedTx, cancelOwesRefund
    <2>4. QED
      BY <1>6, <2>1, <2>2, <2>3 DEF Money, Recorded, isUnpaidFinal
  <1>8. Safe(o)'
    BY <1>4, <1>5, <1>7 DEF Safe
  <1>9. QED
    BY <1>1, <1>8, UntouchedSafe DEF IInv

\* A step that writes only the opener, the bank, linked or bookkeeping, and
\* gives no money event a meaning it did not have.
LEMMA ProcSafe ==
    ASSUME IInv, UNCHANGED <<orders, refunds, history, attempts, payments, acked>>,
           \A q \in Orders, k \in Attempts :
                /\ opener'[q][k] # "idle" => opener[q][k] # "idle"
                /\ <<q, k>> \in linked' => <<q, k>> \in linked \/ opener[q][k] # "idle"
                /\ bank[q][k] \in {"captured", "refunded"} => bank'[q][k] \in {"captured", "refunded"}
    PROVE  \A q \in Orders : Safe(q)'
  <1> SUFFICES ASSUME NEW q \in Orders PROVE Safe(q)'
    OBVIOUS
  <1>1. Safe(q)
    BY DEF IInv
  <1>2. Consistent(orders[q], payments[q], attempts[q])'
    BY <1>1 DEF Safe
  <1>3. \A k \in Attempts : Money(q, k)'
    BY <1>1 DEF Safe, Money, Recorded
  <1>4. Ended(q)'
    BY <1>1 DEF Safe, Ended, CancelRow, Recorded
  <1>5. QED
    BY <1>2, <1>3, <1>4 DEF Safe

\* RetryPayment / GetPaymentQR.
LEMMA RetrySafe ==
    ASSUME IInv, NEW o \in Orders, PrepareRetryPayment(o)
    PROVE  \A q \in Orders : Safe(q)'
  <1>0. TypeOK /\ Safe(o)
    BY DEF IInv
  <1>1. ASSUME NEW q \in Orders, q # o PROVE Untouched(q)
    BY <1>0, <1>1 DEF TypeOK, PrepareRetryPayment, stockVars, bankVars, Untouched
  <1> DEFINE n == attempts[o]
             new == [closePending(payments[o]) EXCEPT ![n + 1] = "pending"]
  <1>2. n \in 0..MaxPaymentAttempts /\ n < MaxPaymentAttempts /\ n + 1 \in Attempts
    BY <1>0, AttemptsAssumption DEF TypeOK, PrepareRetryPayment, attemptsLeft
  <1>3. orders'[o] = withPay(orders[o], "pending") /\ attempts'[o] = n + 1 /\ payments'[o] = new
    BY <1>0 DEF TypeOK, PrepareRetryPayment
  <1>4. orders[o] \in OrderRow /\ payments[o] \in Rows
    BY <1>0 DEF TypeOK
  <1>5. PaymentRetryable(orders[o]) /\ Consistent(orders[o], payments[o], n)
    BY <1>0 DEF PrepareRetryPayment, Safe
  <1>6. Consistent(orders'[o], payments'[o], attempts'[o])
    BY <1>2, <1>3, <1>4, <1>5, RetryKeepsConsistent
  <1>7. \A k \in Attempts : new[k] = IF k = n + 1 THEN "pending" ELSE IF payments[o][k] = "pending" THEN "cancelled" ELSE payments[o][k]
    BY <1>4 DEF closePending, Rows
  <1>8. \A k \in Attempts : opener'[o][k] = IF k = n + 1 THEN "opening" ELSE opener[o][k]
    BY <1>0 DEF TypeOK, PrepareRetryPayment
  <1>9. orders'[o].status = "placed" /\ orders[o].status = "placed" /\ orders[o].pay \in {"pending", "failed"} /\ orders'[o].pay = "pending"
    BY <1>3, <1>5 DEF PaymentRetryable, withPay
  <1>10. ASSUME NEW k \in Attempts PROVE Money(o, k)'
    <2>1. Money(o, k)
      BY <1>0 DEF Safe
    <2>2. ~Recorded(payments[o][k])
      BY <1>5, <1>9 DEF Consistent, Recorded
    <2>3. refunds' = refunds /\ linked' = linked /\ acked' = acked /\ bank' = bank
      BY DEF PrepareRetryPayment, bankVars
    <2>4. payments'[o][k] # "none" \/ (payments[o][k] = "none" /\ opener'[o][k] = opener[o][k])
      BY <1>3, <1>7, <1>8
    <2>5. ~Recorded(payments'[o][k])
      BY <1>3, <1>7, <2>2 DEF Recorded
    <2>6. QED
      BY <2>1, <2>2, <2>3, <2>4, <2>5 DEF Money, Recorded
  <1>11. Ended(o)'
    <2>1. history'[o] = history[o]
      BY DEF PrepareRetryPayment
    <2>2. QED
      BY <1>0, <1>9, <2>1 DEF Safe, Ended, CancelRow, Recorded
  <1>12. Safe(o)'
    BY <1>6, <1>10, <1>11 DEF Safe
  <1>13. QED
    BY <1>1, <1>12, UntouchedSafe DEF IInv

\* A staff transition other than a cancellation.
LEMMA AdvanceSafe ==
    ASSUME IInv, NEW o \in Orders, NEW to \in OrderStatus, NEW role,
           AdminUpdateStatus(o, to, role), to # "cancelled"
    PROVE  \A q \in Orders : Safe(q)'
  <1>0. TypeOK /\ Safe(o)
    BY DEF IInv
  <1>1. UNCHANGED <<refunds, attempts, payments, linked, opener, bank, acked>>
    BY DEF AdminUpdateStatus, paymentVars, bankVars, procVars
  <1>2. orders' = [orders EXCEPT ![o] = withStatus(orders[o], to)] /\ recordStatusTx(o, orders[o].status, to, "staff")
    BY DEF AdminUpdateStatus
  <1>3. ASSUME NEW q \in Orders, q # o PROVE Untouched(q)
    BY <1>0, <1>1, <1>2, <1>3 DEF TypeOK, recordStatusTx, Untouched
  <1>4. orders'[o] = withStatus(orders[o], to) /\ history'[o] = history[o] \cup {[from |-> orders[o].status, to |-> to, actor |-> "staff"]}
    BY <1>0, <1>2 DEF TypeOK, recordStatusTx
  <1>5. orders'[o].pay = orders[o].pay /\ orders'[o].status = to
    BY <1>4 DEF withStatus
  <1>6. Consistent(orders'[o], payments'[o], attempts'[o])
    <2>1. orders[o] \in OrderRow /\ payments[o] \in Rows /\ attempts[o] \in 0..MaxPaymentAttempts
      BY <1>0 DEF TypeOK
    <2>2. validStatusTransition(orders[o].status, to) /\ (to = "confirmed" => paymentAllowsConfirm(orders[o]))
      BY DEF AdminUpdateStatus
    <2>3. Consistent(orders[o], payments[o], attempts[o])
      BY <1>0 DEF Safe
    <2>4. QED
      BY <1>1, <1>4, <2>1, <2>2, <2>3, AdvanceKeepsConsistent
  <1>7. \A k \in Attempts : Money(o, k)'
    BY <1>0, <1>1, <1>5 DEF Safe, Money, Recorded
  <1>8. Ended(o)'
    <2>1. orders[o].status # "cancelled"
      BY DEF AdminUpdateStatus, validStatusTransition
    <2>2. \A r \in history'[o] : r.to # "cancelled"
      BY <1>0, <1>4, <2>1 DEF Safe, Ended
    <2>3. orders[o].pay # "cancelled"
      BY <1>0, <2>1 DEF Safe, Ended
    <2>4. QED
      BY <1>5, <2>2, <2>3 DEF Ended, CancelRow
  <1>9. Safe(o)'
    BY <1>6, <1>7, <1>8 DEF Safe
  <1>10. QED
    BY <1>3, <1>9, UntouchedSafe DEF IInv

\* A cancellation by the customer or the staff.
LEMMA CancelStepSafe ==
    ASSUME IInv, NEW o \in Orders, NEW actor \in {"customer", "staff"}, cancelStep(o, actor),
           orders[o].status \notin {"none", "cancelled"},
           actor = "customer" => customerCanCancel(orders[o])
    PROVE  \A q \in Orders : Safe(q)'
  <1>0. TypeOK /\ Safe(o)
    BY DEF IInv
  <1>1. orders[o] \in OrderRow /\ payments[o] \in Rows /\ Consistent(orders[o], payments[o], attempts[o])
    BY <1>0 DEF TypeOK, Safe
  <1>2. actor = "customer" => orders[o].pay # "paid"
    BY <1>1 DEF customerCanCancel, Consistent, OrderRow, PaymentMethod
  <1>3. UNCHANGED <<attempts, linked, bank, acked, opener>> /\ cancelLockedTx(o, orders[o], payments[o], actor)
    BY DEF cancelStep, bankVars, procVars
  <1>4. QED
    BY <1>1, <1>2, <1>3, CancelSafe DEF ActorType

\* An attempt is settled (declined, paid or refunded) and the order row says
\* so, without the order being cancelled.
LEMMA SettleSafe ==
    ASSUME IInv, NEW o \in Orders, NEW k \in Attempts, NEW s \in {"failed", "paid", "refunded"},
           NEW rows \in Rows,
           orders' = [orders EXCEPT ![o] = withPay(orders[o], s)],
           payments' = [payments EXCEPT ![o] = rows],
           Consistent(withPay(orders[o], s), rows, attempts[o]),
           rows[k] = s, payments[o][k] # "none",
           \A j \in Attempts \ {k} : \/ rows[j] = payments[o][j]
                                     \/ payments[o][j] = "pending" /\ isUnpaidFinal(rows[j]),
           \/ s = "failed" /\ payments[o][k] = "pending"
           \/ s = "paid" /\ PaymentRetryable(orders[o]) /\ bank[o][k] \in {"captured", "refunded"}
           \/ s = "refunded" /\ payments[o][k] = "paid",
           UNCHANGED <<refunds, history, attempts, linked, bank>>,
           acked' = IF s = "paid" THEN acked \cup {<<o, k>>} ELSE acked,
           \A q \in Orders, j \in Attempts : opener'[q][j] # "idle" => opener[q][j] # "idle",
           \A q \in Orders \ {o} : opener'[q] = opener[q]
    PROVE  \A q \in Orders : Safe(q)'
  <1>0. TypeOK /\ Safe(o)
    BY DEF IInv
  <1>1. ASSUME NEW q \in Orders, q # o PROVE Untouched(q)
    BY <1>0, <1>1 DEF TypeOK, Untouched
  <1>2. orders'[o] = withPay(orders[o], s) /\ payments'[o] = rows
    BY <1>0 DEF TypeOK
  <1>3. orders'[o].status = orders[o].status /\ orders'[o].pay = s
    BY <1>2 DEF withPay
  <1>4. ASSUME NEW j \in Attempts PROVE Money(o, j)'
    <2>1. Money(o, j)
      BY <1>0 DEF Safe
    <2>2. CASE j = k
      BY <1>2, <1>3, <2>1, <2>2 DEF Money, Recorded, PaymentRetryable
    <2>3. CASE j # k
      BY <1>2, <1>3, <2>1, <2>3 DEF Money, Recorded, isUnpaidFinal
    <2>4. QED
      BY <2>2, <2>3
  <1>5. Ended(o)'
    <2>1. \A r \in history[o] : r.to = "cancelled" => orders[o].status = "cancelled"
      BY <1>0 DEF Safe, Ended
    <2>2. CASE s = "failed"
      BY <1>3, <2>1, <2>2 DEF Ended, CancelRow, Recorded
    <2>3. CASE s = "paid"
      BY <1>3, <2>1, <2>3 DEF Ended, CancelRow, Recorded, PaymentRetryable
    <2>4. CASE s = "refunded"
      <3>1. orders[o].pay = "paid"
        BY <1>0, <2>4 DEF Safe, Consistent, Recorded
      <3>2. QED
        BY <1>0, <1>3, <2>1, <2>4, <3>1 DEF Safe, Ended, CancelRow, Recorded
    <2>5. QED
      BY <2>2, <2>3, <2>4
  <1>6. Safe(o)'
    BY <1>2, <1>4, <1>5 DEF Safe
  <1>7. QED
    BY <1>1, <1>6, UntouchedSafe DEF IInv

\* A pending attempt belongs to a placed online order.
LEMMA PendingIsOpen ==
    ASSUME IInv, NEW o \in Orders, NEW k \in Attempts, payments[o][k] = "pending"
    PROVE  PaymentRetryable(orders[o])
  <1>1. orders[o] \in OrderRow /\ Consistent(orders[o], payments[o], attempts[o])
    BY DEF IInv, TypeOK, Safe
  <1>2. QED
    BY <1>1 DEF Consistent, PaymentRetryable, OrderRow, PaymentMethod

\* The first session failed, or a retry's did.
LEMMA AbortSafe ==
    ASSUME IInv, NEW o \in Orders, NEW k \in Attempts,
           (abort(o) /\ k = 1) \/ failAttempt(o, k)
    PROVE  \A q \in Orders : Safe(q)'
  <1>0. TypeOK /\ Safe(o)
    BY DEF IInv
  <1> DEFINE rows == [payments[o] EXCEPT ![k] = "failed"]
             ord == withPay(orders[o], "failed")
  <1>1. /\ UNCHANGED <<attempts, linked, bank, acked>>
        /\ opener' = [opener EXCEPT ![o][k] = "idle"]
    BY DEF abort, failAttempt, bankVars
  <1>2. /\ \A q \in Orders, j \in Attempts : opener'[q][j] # "idle" => opener[q][j] # "idle"
        /\ \A q \in Orders \ {o} : opener'[q] = opener[q]
    BY <1>0, <1>1 DEF TypeOK
  <1>3. CASE ~attemptPending(o, k)
    <2>1. UNCHANGED <<orders, refunds, history, payments>>
      BY <1>3 DEF abort, failAttempt
    <2>2. QED
      BY <1>1, <1>2, <2>1, ProcSafe
  <1>4. CASE attemptPending(o, k)
    <2>1. payments[o][k] = "pending" /\ PaymentRetryable(orders[o])
      BY <1>4, PendingIsOpen DEF attemptPending
    <2>2. orders[o] \in OrderRow /\ payments[o] \in Rows /\ attempts[o] \in 0..MaxPaymentAttempts
      BY <1>0 DEF TypeOK
    <2>3. Consistent(ord, rows, attempts[o])
      BY <1>0, <2>1, <2>2, FailKeepsConsistent DEF Safe
    <2>4. ord \in OrderRow /\ rows \in Rows
      BY <1>0, <2>2, SetPayType DEF Rows, PaymentStatus
    <2>5. ord.status = "placed" /\ orders[o].status = "placed" /\ ord.pay = "failed"
      BY <2>1 DEF PaymentRetryable, withPay
    <2>6. \A j \in Attempts : rows[j] = IF j = k THEN "failed" ELSE payments[o][j]
      BY <2>2 DEF Rows
    <2>7. CASE abort(o) /\ k = 1
      <3>1. CancelUnpaidOrderTx(o, ord, rows)
        BY <1>4, <2>7 DEF abort
      <3>2. cancelLockedTx(o, ord, rows, "system")
        BY <2>5, <3>1 DEF CancelUnpaidOrderTx
      <3> HIDE DEF ord, rows
      <3>3. QED
        BY <1>1, <1>2, <2>1, <2>3, <2>4, <2>5, <2>6, <3>2, CancelSafe DEF ActorType, Recorded, isUnpaidFinal
    <2>8. CASE failAttempt(o, k)
      <3>1. orders' = [orders EXCEPT ![o] = ord] /\ UNCHANGED <<refunds, history>>
        BY <1>4, <2>5, <2>8 DEF failAttempt
      <3>2. payments' = [payments EXCEPT ![o] = rows]
        BY <1>0, <1>4, <2>8 DEF failAttempt, TypeOK
      <3> HIDE DEF rows
      <3>3. QED
        BY <1>1, <1>2, <2>1, <2>3, <2>4, <2>6, <3>1, <3>2, SettleSafe, ZenonT(30)
    <2>9. QED
      BY <2>7, <2>8
  <1>5. QED
    BY <1>3, <1>4

\* The expiry job's transaction on one order.
LEMMA ExpireSafe ==
    ASSUME IInv, NEW o \in Orders, expireOne(o)
    PROVE  \A q \in Orders : Safe(q)'
  <1>0. TypeOK /\ Safe(o)
    BY DEF IInv
  <1>1. UNCHANGED <<attempts, linked, bank, acked, opener>>
    BY DEF expireOne, bankVars
  <1>2. CASE ~stillExpired(o)
    <2>1. UNCHANGED <<orders, refunds, history, payments>>
      BY <1>2 DEF expireOne
    <2>2. QED
      BY <1>1, <2>1, ProcSafe
  <1>3. CASE stillExpired(o)
    <2>1. PaymentRetryable(orders[o]) /\ CancelUnpaidOrderTx(o, orders[o], payments[o])
      BY <1>3 DEF expireOne, stillExpired, unpaidExpiredCond
    <2>2. orders[o].status = "placed" /\ ~Recorded(orders[o].pay)
      BY <2>1 DEF PaymentRetryable, Recorded
    <2>3. cancelLockedTx(o, orders[o], payments[o], "system")
      BY <2>1, <2>2 DEF CancelUnpaidOrderTx
    <2>4. orders[o] \in OrderRow /\ payments[o] \in Rows /\ Consistent(orders[o], payments[o], attempts[o])
      BY <1>0 DEF TypeOK, Safe
    <2>5. QED
      BY <1>1, <2>2, <2>3, <2>4, CancelSafe DEF ActorType
  <1>4. QED
    BY <1>2, <1>3

\* A callback that changes the attempt.
LEMMA ApplySafe ==
    ASSUME IInv, NEW o \in Orders, NEW k \in Attempts, NEW ev \in CallbackStatus,
           HandleCallback(o, k, ev), callbackApplies(o, k, ev)
    PROVE  \A q \in Orders : Safe(q)'
  <1>0. TypeOK /\ Safe(o) /\ Consistent(orders[o], payments[o], attempts[o])
    BY DEF IInv, Safe
  <1> DEFINE rows == callbackRows(o, k, ev)
             ord == withPay(orders[o], ev)
  <1>1. /\ UNCHANGED <<attempts, linked, bank, opener>>
        /\ acked' = IF ev = "paid" THEN acked \cup {<<o, k>>} ELSE acked
        /\ applyCallback(o, k, ev)
        /\ <<o, k>> \in linked /\ bankReports(o, k, ev)
    BY DEF HandleCallback
  <1>2. orders[o] \in OrderRow /\ payments[o] \in Rows /\ attempts[o] \in 0..MaxPaymentAttempts
    BY <1>0 DEF TypeOK
  <1>3. ord \in OrderRow /\ rows \in Rows
    BY <1>0, SetPayType, CallbackRowsType DEF CallbackStatus
  <1>4. \A j \in Attempts : rows[j] = IF j = k THEN ev
                                      ELSE IF ev = "paid" /\ payments[o][j] = "pending" THEN "cancelled"
                                      ELSE payments[o][j]
    BY <1>2 DEF callbackRows, closePending, Rows
  <1>5. payments[o][k] # "none"
    BY <1>0, <1>1 DEF Safe, Money
  <1>6. ord.status = orders[o].status /\ ord.pay = ev
    BY DEF withPay
  <1>7. CASE ev = "cancelled"
    <2>1. payments[o][k] = "pending"
      BY <1>7 DEF callbackApplies, transitionApplies, lateSuccess
    <2>2. orders[o].status = "placed"
      BY <2>1, PendingIsOpen DEF PaymentRetryable
    <2>3. Consistent(ord, rows, attempts[o])
      BY <1>0, <1>2, <1>7, <2>1, FailKeepsConsistent DEF callbackRows
    <2>4. cancelLockedTx(o, ord, rows, "system")
      BY <1>1, <1>6, <1>7, <2>2 DEF applyCallback, CancelUnpaidOrderTx
    <2> HIDE DEF ord, rows
    <2>5. QED
      BY <1>1, <1>3, <1>4, <1>6, <1>7, <2>1, <2>2, <2>3, <2>4, CancelSafe
      DEF ActorType, Recorded, isUnpaidFinal
  <1>8. CASE ev \in {"failed", "paid", "refunded"}
    <2>1. orders' = [orders EXCEPT ![o] = ord] /\ payments' = [payments EXCEPT ![o] = rows] /\ history' = history
      BY <1>1, <1>8 DEF applyCallback
    <2>2. refunds' = IF ev = "paid" /\ ord.status = "cancelled" THEN refunds \cup {o} ELSE refunds
      BY <1>1, <1>8 DEF applyCallback
    <2>3. CASE ev = "failed"
      <3>1. payments[o][k] = "pending"
        BY <2>3 DEF callbackApplies, transitionApplies, lateSuccess
      <3>2. Consistent(ord, rows, attempts[o])
        BY <1>0, <1>2, <2>3, <3>1, FailKeepsConsistent DEF callbackRows
      <3> HIDE DEF rows
      <3>3. QED
        BY <1>1, <1>3, <1>4, <1>5, <2>1, <2>2, <2>3, <3>1, <3>2, SettleSafe
    <2>4. CASE ev = "paid"
      <3>1. payments[o][k] = "pending" \/ (isUnpaidFinal(payments[o][k]) /\ PaymentRetryable(orders[o]))
        BY <2>4 DEF callbackApplies, transitionApplies, lateSuccess
      <3>2. PaymentRetryable(orders[o])
        BY <3>1, PendingIsOpen
      <3>3. Consistent(ord, rows, attempts[o])
        BY <1>0, <1>2, <2>4, <3>1, PaidKeepsConsistent DEF callbackRows
      <3>4. bank[o][k] \in {"captured", "refunded"}
        <4>1. bank[o][k] # "idle"
          BY <1>1, <2>4 DEF bankReports
        <4>2. bank[o][k] # "miscaptured"
          BY <1>1, <2>4 DEF applyCallback, amountMatches
        <4>3. bank \in [Orders -> [Attempts -> {"idle", "captured", "miscaptured", "refunded"}]]
          BY <1>0 DEF TypeOK
        <4>4. QED
          BY <4>1, <4>2, <4>3
      <3>5. refunds' = refunds
        BY <1>6, <2>2, <3>2 DEF PaymentRetryable
      <3>6. \A j \in Attempts \ {k} : \/ rows[j] = payments[o][j]
                                      \/ payments[o][j] = "pending" /\ isUnpaidFinal(rows[j])
        BY <1>4 DEF isUnpaidFinal
      <3> HIDE DEF rows
      <3>7. QED
        BY <1>1, <1>3, <1>4, <1>5, <2>1, <2>4, <3>2, <3>3, <3>4, <3>5, <3>6, SettleSafe
    <2>5. CASE ev = "refunded"
      <3>1. payments[o][k] = "paid"
        BY <2>5 DEF callbackApplies, transitionApplies, lateSuccess
      <3>2. Consistent(ord, rows, attempts[o])
        BY <1>0, <1>2, <2>5, <3>1, RefundKeepsConsistent DEF callbackRows
      <3> HIDE DEF rows
      <3>3. QED
        BY <1>1, <1>3, <1>4, <1>5, <2>1, <2>2, <2>5, <3>1, <3>2, SettleSafe
    <2>6. QED
      BY <1>8, <2>3, <2>4, <2>5
  <1>9. ev # "pending"
    BY DEF callbackApplies, transitionApplies, lateSuccess
  <1>10. QED
    BY <1>7, <1>8, <1>9 DEF CallbackStatus, PaymentStatus

\* A callback that is ignored or that only flags a refund.
LEMMA ConflictSafe ==
    ASSUME IInv, NEW o \in Orders, NEW k \in Attempts, NEW ev \in CallbackStatus,
           HandleCallback(o, k, ev), ~callbackApplies(o, k, ev)
    PROVE  \A q \in Orders : Safe(q)'
  <1>0. TypeOK /\ Safe(o)
    BY DEF IInv
  <1>1. /\ UNCHANGED <<orders, history, attempts, payments, linked, bank, opener>>
        /\ acked' = IF ev = "paid" THEN acked \cup {<<o, k>>} ELSE acked
        /\ refunds' = IF refundConflict(o, k, ev) THEN refunds \cup {o} ELSE refunds
        /\ <<o, k>> \in linked
    BY DEF HandleCallback
  <1>2. ASSUME NEW q \in Orders, q # o PROVE Untouched(q)
    BY <1>1, <1>2 DEF Untouched
  <1>3. ASSUME ev = "paid"
        PROVE  \/ o \in refunds'
               \/ payments[o][k] = "refunded"
               \/ payments[o][k] = "paid" /\ orders[o].status # "cancelled"
    <2>1. payments[o][k] \in PaymentStatus
      <3>1. payments[o] \in Rows
        BY <1>0 DEF TypeOK
      <3>2. payments[o][k] # "none"
        BY <1>0, <1>1 DEF Safe, Money
      <3>3. QED
        BY <3>1, <3>2 DEF Rows
    <2>2. payments[o][k] # "pending"
      BY <1>3 DEF callbackApplies, transitionApplies
    <2>3. CASE isUnpaidFinal(payments[o][k])
      BY <1>1, <1>3, <2>3 DEF callbackApplies, refundConflict, transitionConflicts, transitionIgnores, transitionApplies, isUnpaidFinal
    <2>4. CASE payments[o][k] = "paid"
      <3>1. orders[o].pay = "paid"
        BY <1>0, <2>4 DEF Safe, Consistent, Recorded
      <3>2. QED
        BY <1>0, <1>1, <2>4, <3>1 DEF Safe, Ended
    <2>5. QED
      BY <2>1, <2>2, <2>3, <2>4 DEF PaymentStatus, isUnpaidFinal
  <1>4. \A j \in Attempts : Money(o, j)'
    BY <1>0, <1>1, <1>3 DEF Safe, Money, Recorded
  <1>5. Ended(o)'
    BY <1>0, <1>1 DEF Safe, Ended, CancelRow, Recorded
  <1>6. Safe(o)'
    BY <1>0, <1>1, <1>4, <1>5 DEF Safe
  <1>7. QED
    BY <1>2, <1>6, UntouchedSafe DEF IInv

\* Every step keeps the inductive invariant.
LEMMA SafeStep == IInv /\ [Next]_vars => IInv'
  <1> SUFFICES ASSUME IInv, [Next]_vars PROVE IInv'
    OBVIOUS
  <1>0. TypeOK /\ TypeOK'
    BY TypeStep DEF IInv
  <1> SUFFICES \A q \in Orders : Safe(q)'
    BY <1>0 DEF IInv
  <1>1. ASSUME NEW o \in Orders, NEW p \in Points, NEW cart \in Carts,
               PlaceOrder(o, p, cart) \/ CreateOnlineOrder(o, p, cart)
        PROVE  \A q \in Orders : Safe(q)'
    BY <1>1, CreateSafe
  <1>2. ASSUME NEW o \in Orders, PrepareRetryPayment(o)
        PROVE  \A q \in Orders : Safe(q)'
    BY <1>2, RetrySafe
  <1>3. ASSUME NEW o \in Orders, NEW k \in Attempts,
               openSession(o, k) \/ openSessionFails(o, k) \/ compensationFails(o, k)
        PROVE  \A q \in Orders : Safe(q)'
    <2>1. UNCHANGED <<orders, refunds, history, attempts, payments, acked, bank>> /\ opener[o][k] # "idle"
      BY <1>3 DEF openSession, openSessionFails, compensationFails, orderVars, paymentVars, bankVars
    <2>2. linked' = linked \/ linked' = linked \cup {<<o, k>>}
      BY <1>3 DEF openSession, openSessionFails, compensationFails, storeTxId, paymentVars
    <2>3. PICK s : opener' = [opener EXCEPT ![o][k] = s]
      BY <1>3 DEF openSession, openSessionFails, compensationFails
    <2>4. \A q \in Orders, j \in Attempts : opener'[q][j] # "idle" => opener[q][j] # "idle"
      BY <1>0, <2>1, <2>3 DEF TypeOK
    <2>5. \A q \in Orders, j \in Attempts : <<q, j>> \in linked' => <<q, j>> \in linked \/ opener[q][j] # "idle"
      BY <2>1, <2>2
    <2>6. QED
      BY <2>1, <2>4, <2>5, ProcSafe
  <1>4. ASSUME NEW o \in Orders, abort(o)
        PROVE  \A q \in Orders : Safe(q)'
    BY <1>4, AbortSafe, AttemptsAssumption
  <1>5. ASSUME NEW o \in Orders, NEW k \in Attempts, failAttempt(o, k)
        PROVE  \A q \in Orders : Safe(q)'
    BY <1>5, AbortSafe
  <1>6. ASSUME NEW o \in Orders, NEW k \in Attempts, bankCapture(o, k) \/ bankRefund(o, k)
        PROVE  \A q \in Orders : Safe(q)'
    <2>1. UNCHANGED <<orders, refunds, history, attempts, payments, linked, acked, opener>>
      BY <1>6 DEF bankCapture, bankRefund, orderVars, paymentVars, procVars
    <2>2. PICK s \in {"captured", "miscaptured", "refunded"} :
              bank' = [bank EXCEPT ![o][k] = s] /\ (bank[o][k] = "idle" \/ s = "refunded")
      BY <1>6 DEF bankCapture, bankRefund
    <2>3. \A q \in Orders, j \in Attempts :
              bank[q][j] \in {"captured", "refunded"} => bank'[q][j] \in {"captured", "refunded"}
      BY <1>0, <2>2 DEF TypeOK
    <2>4. QED
      BY <2>1, <2>3, ProcSafe
  <1>7. ASSUME NEW o \in Orders, NEW k \in Attempts, NEW ev \in CallbackStatus, HandleCallback(o, k, ev)
        PROVE  \A q \in Orders : Safe(q)'
    BY <1>7, ApplySafe, ConflictSafe
  <1>8. ASSUME NEW o \in Orders, CancelByCustomer(o)
        PROVE  \A q \in Orders : Safe(q)'
    BY <1>8, CancelStepSafe DEF CancelByCustomer, customerCanCancel
  <1>9. ASSUME NEW o \in Orders, NEW to \in OrderStatus, NEW role, AdminUpdateStatus(o, to, role)
        PROVE  \A q \in Orders : Safe(q)'
    <2>1. CASE to = "cancelled"
      <3>1. cancelStep(o, "staff") /\ validStatusTransition(orders[o].status, to)
        BY <1>9, <2>1 DEF AdminUpdateStatus
      <3>2. orders[o].status \notin {"none", "cancelled"}
        BY <3>1 DEF validStatusTransition
      <3>3. QED
        BY <3>1, <3>2, CancelStepSafe
    <2>2. CASE to # "cancelled"
      BY <1>9, <2>2, AdvanceSafe
    <2>3. QED
      BY <2>1, <2>2
  <1>10. ASSUME NEW o \in Orders, expireOne(o)
         PROVE  \A q \in Orders : Safe(q)'
    BY <1>10, ExpireSafe
  <1>11. ASSUME UNCHANGED <<orders, refunds, history, attempts, payments, linked, bank, acked>>,
                opener' = opener \/ opener' = [o \in Orders |-> [k \in Attempts |-> "idle"]]
         PROVE  \A q \in Orders : Safe(q)'
    <2>1. \A q \in Orders, k \in Attempts : opener'[q][k] # "idle" => opener[q][k] # "idle"
      BY <1>11, ZenonT(30)
    <2>2. linked' = linked /\ bank' = bank
      BY <1>11
    <2>3. UNCHANGED <<orders, refunds, history, attempts, payments, acked>>
      BY <1>11
    <2>4. \A q \in Orders, k \in Attempts :
            /\ <<q, k>> \in linked' => <<q, k>> \in linked \/ opener[q][k] # "idle"
            /\ bank[q][k] \in {"captured", "refunded"} => bank'[q][k] \in {"captured", "refunded"}
      BY <2>2
    <2>5. QED
      BY <2>1, <2>3, <2>4, ProcSafe
  <1>12. ASSUME NEW o \in Orders, notifyCreated(o) \/ Elapse(o)
         PROVE  \A q \in Orders : Safe(q)'
    BY <1>11, <1>12 DEF notifyCreated, Elapse, orderVars, paymentVars, bankVars, procVars
  <1>13. ASSUME NEW p \in Points, NEW v \in Variants, NEW q \in StockLevels, Upsert(p, v, q)
         PROVE  \A r \in Orders : Safe(r)'
    BY <1>11, <1>13 DEF Upsert, orderVars, paymentVars, bankVars, procVars
  <1>14. CASE ExpirePending \/ Crash
    BY <1>11, <1>14 DEF ExpirePending, Crash, orderVars, paymentVars, bankVars
  <1>15. CASE UNCHANGED vars
    BY <1>11, <1>15 DEF vars
  <1>16. QED
    BY <1>1, <1>2, <1>3, <1>4, <1>5, <1>6, <1>7, <1>8, <1>9, <1>10, <1>12, <1>13, <1>14, <1>15 DEF Next

\* It holds of a shop without orders.
LEMMA InitSafe == Init => IInv
  <1> SUFFICES ASSUME Init PROVE IInv
    OBVIOUS
  <1>1. TypeOK
    BY InitType
  <1>2. ASSUME NEW o \in Orders PROVE Safe(o)
    <2>1. /\ orders[o].status = "none" /\ orders[o].method = "cash_on_delivery" /\ orders[o].pay = "null"
          /\ attempts[o] = 0 /\ history[o] = {}
          /\ \A k \in Attempts : payments[o][k] = "none" /\ opener[o][k] = "idle"
      BY DEF Init, NoOrder
    <2>2. linked = {} /\ acked = {}
      BY DEF Init
    <2>3. Consistent(orders[o], payments[o], attempts[o])
      BY <2>1 DEF Consistent, Recorded, Shipped
    <2>4. \A k \in Attempts : Money(o, k)
      BY <2>1, <2>2 DEF Money, Recorded
    <2>5. Ended(o)
      BY <2>1 DEF Ended, CancelRow
    <2>6. QED
      BY <2>3, <2>4, <2>5 DEF Safe
  <1>3. QED
    BY <1>1, <1>2 DEF IInv

\* The inductive invariant holds throughout.
LEMMA Invariant == Spec => []IInv
  <1>1. QED
    BY InitSafe, SafeStep, PTL DEF Spec

\* For any number of orders, attempts and crashes, a pending attempt is the
\* latest one of an open order that says "pending" itself, and conversely.
THEOREM OpenAttempt == Spec => []OpenAttemptIsLive
  <1>1. IInv => OpenAttemptIsLive
    <2> SUFFICES ASSUME IInv, NEW o \in Orders
                 PROVE  /\ \A k \in Attempts : payments[o][k] = "pending" =>
                               k = attempts[o] /\ orders[o].status = "placed" /\ orders[o].pay = "pending"
                        /\ orders[o].pay = "pending" =>
                               attempts[o] \in Attempts /\ payments[o][attempts[o]] = "pending"
      BY DEF OpenAttemptIsLive
    <2>1. Consistent(orders[o], payments[o], attempts[o]) /\ attempts[o] \in 0..MaxPaymentAttempts
      BY DEF IInv, TypeOK, Safe
    <2>2. orders[o].pay = "pending" => attempts[o] \in Attempts
      BY <2>1, AttemptsAssumption DEF Consistent
    <2>3. QED
      BY <2>1, <2>2 DEF Consistent
  <1>2. QED
    BY <1>1, Invariant, PTL

\* At most one attempt of an order is ever booked as paid or refunded, the
\* order's payment_status is that attempt's, and the bank captured exactly
\* the order's amount for it.
THEOREM OnePayment == Spec => []OneAttemptPays
  <1>1. IInv => OneAttemptPays
    <2> SUFFICES ASSUME IInv, NEW o \in Orders
                 PROVE  /\ \A j, k \in Attempts :
                               Recorded(payments[o][j]) /\ Recorded(payments[o][k]) => j = k
                        /\ \A k \in Attempts : Recorded(payments[o][k]) =>
                               orders[o].pay = payments[o][k] /\ bank[o][k] \in {"captured", "refunded"}
                        /\ Recorded(orders[o].pay) => \E k \in Attempts : Recorded(payments[o][k])
      BY DEF OneAttemptPays
    <2>1. Consistent(orders[o], payments[o], attempts[o]) /\ \A k \in Attempts : Money(o, k)
      BY DEF IInv, Safe
    <2>2. QED
      BY <2>1 DEF Consistent, Money
  <1>2. QED
    BY <1>1, Invariant, PTL

\* No online order is confirmed, on its way or delivered unless an attempt
\* of it was booked as paid.
THEOREM NoMoneyNoGoods == Spec => []GoodsOnlyForMoney
  <1>1. IInv => GoodsOnlyForMoney
    BY DEF IInv, Safe, Consistent, GoodsOnlyForMoney, Shipped
  <1>2. QED
    BY <1>1, Invariant, PTL

\* Money whose "paid" callback was acknowledged is the payment of a live
\* order, was refunded, or the order is flagged for refund.
THEOREM NoMoneyLost == Spec => []MoneyAccounted
  <1>1. IInv => MoneyAccounted
    BY DEF IInv, Safe, Money, MoneyAccounted
  <1>2. QED
    BY <1>1, Invariant, PTL

\* For any number of orders, attempts and crashes, neither the system nor a
\* customer cancels an order whose money has come in, and an order the system
\* cancelled is never paid afterwards.
THEOREM CancelSparesPaid == Spec => []CancelsUnpaid
  <1>1. IInv => CancelsUnpaid
    BY DEF IInv, Safe, Ended, CancelRow, CancelsUnpaid
  <1>2. QED
    BY <1>1, Invariant, PTL
-----------------------------------------------------------------------------
(* Goods and announcements.  A transaction on an order that exists keeps    *)
(* what was ordered and where it was packed, never takes a payment back,    *)
(* and moves between shelf and order exactly what the order stops holding.  *)

Follows(ord, new) ==
    /\ new.method = ord.method /\ new.point = ord.point /\ new.items = ord.items
    /\ new.status = "none" <=> ord.status = "none"
    /\ Recorded(ord.pay) => Recorded(new.pay)

Balanced(o) ==
    \A p \in Points, v \in Variants :
        stock'[p][v] + holds(orders'[o], p, v) = stock[p][v] + holds(orders[o], p, v)

\* The step is a transaction on order o.
Transacts(o) ==
    /\ \A q \in Orders \ {o} : orders'[q] = orders[q]
    /\ Balanced(o)

\* What the invariant says of an order: one nobody placed holds nothing and
\* was not announced; an announcement is sent or about to be sent once, and
\* for an online order only with its money booked.
Told(o) ==
    /\ orders[o].status = "none" =>
            orders[o].point = NoPoint /\ announced[o] = 0 /\ o \notin announcing
    /\ announced[o] = 0 \/ (announced[o] = 1 /\ o \notin announcing)
    /\ (announced[o] > 0 \/ o \in announcing) /\ orders[o].method = "online_card"
            => Recorded(orders[o].pay)

ShopInv == IInv /\ (\A o \in Orders : Told(o)) /\ StockConserved

\* cancelLockedTx puts back what the order held.
LEMMA CancelBalanced ==
    ASSUME TypeOK, NEW o \in Orders, NEW ord \in OrderRow, NEW rows, NEW actor,
           cancelLockedTx(o, ord, rows, actor), ord.status # "cancelled", ord.status # "none",
           Follows(orders[o], ord), orders[o].status = ord.status
    PROVE  Transacts(o) /\ Follows(orders[o], orders'[o])
  <1>1. orders' = [orders EXCEPT ![o] = cancelledOrder(ord)] /\ ord.point # NoPoint
    BY DEF cancelLockedTx
  <1>2. orders'[o] = cancelledOrder(ord) /\ \A q \in Orders \ {o} : orders'[q] = orders[q]
    BY <1>1 DEF TypeOK
  <1>3. /\ orders'[o].status = "cancelled"
        /\ orders'[o].method = ord.method /\ orders'[o].point = ord.point /\ orders'[o].items = ord.items
        /\ orders'[o].pay = ord.pay \/ (ord.pay = "pending" /\ orders'[o].pay = "cancelled")
    BY <1>2 DEF cancelledOrder, withStatus, withPay
  <1>4. Follows(orders[o], orders'[o])
    BY <1>3 DEF Follows, Recorded
  <1>5. ord.point \in Points /\ ord.items \in [Variants -> Nat]
    BY <1>1 DEF OrderRow
  <1>6. \A p \in Points, v \in Variants :
            stock'[p][v] = IF p = ord.point THEN stock[p][v] + ord.items[v] ELSE stock[p][v]
    BY <1>5 DEF cancelLockedTx, restockOrderTx, TypeOK
  <1>7. \A p \in Points, v \in Variants : stock[p][v] \in Nat
    BY DEF TypeOK
  <1>8. \A p \in Points, v \in Variants :
            /\ holds(orders'[o], p, v) = 0
            /\ holds(orders[o], p, v) = IF p = ord.point THEN ord.items[v] ELSE 0
    BY <1>3 DEF holds, Follows
  <1>9. Balanced(o)
    BY <1>5, <1>6, <1>7, <1>8 DEF Balanced
  <1>10. QED
    BY <1>2, <1>4, <1>9 DEF Transacts

\* A transaction that rewrites the row without cancelling moves no goods.
LEMMA RowBalanced ==
    ASSUME TypeOK, NEW o \in Orders, NEW ord, orders' = [orders EXCEPT ![o] = ord], stock' = stock,
           Follows(orders[o], ord), ord.status = "cancelled" <=> orders[o].status = "cancelled"
    PROVE  Transacts(o) /\ Follows(orders[o], orders'[o])
  <1>1. orders'[o] = ord /\ \A q \in Orders \ {o} : orders'[q] = orders[q]
    BY DEF TypeOK
  <1>2. \A p \in Points, v \in Variants : holds(orders'[o], p, v) = holds(orders[o], p, v)
    BY <1>1 DEF holds, Follows
  <1>3. QED
    BY <1>1, <1>2 DEF Transacts, Balanced

\* A transaction that leaves the orders and the shelves alone.
LEMMA IdleBalanced ==
    ASSUME NEW o \in Orders, UNCHANGED <<orders, stock>>
    PROVE  Transacts(o) /\ Follows(orders[o], orders'[o])
  BY DEF Transacts, Balanced, Follows, holds

LEMMA CancelUnpaidBalanced ==
    ASSUME TypeOK, NEW o \in Orders, NEW ord \in OrderRow, NEW rows,
           CancelUnpaidOrderTx(o, ord, rows),
           Follows(orders[o], ord), orders[o].status = ord.status
    PROVE  Transacts(o) /\ Follows(orders[o], orders'[o])
  <1>1. CASE ord.status = "placed" /\ cancelLockedTx(o, ord, rows, "system")
    BY <1>1, CancelBalanced
  <1>2. CASE ord.status # "placed" /\ orders' = [orders EXCEPT ![o] = ord] /\ stock' = stock
    BY <1>2, RowBalanced
  <1>3. QED
    BY <1>1, <1>2 DEF CancelUnpaidOrderTx

\* An order row is unchanged in everything but payment_status.
LEMMA WithPayFollows ==
    ASSUME TypeOK, NEW o \in Orders, NEW s \in PaymentStatus, ~Recorded(orders[o].pay) \/ Recorded(s)
    PROVE  /\ withPay(orders[o], s) \in OrderRow
           /\ Follows(orders[o], withPay(orders[o], s))
           /\ withPay(orders[o], s).status = orders[o].status
  BY SetPayType DEF Follows, withPay

\* Every step is a transaction on one order, the placing of an order, or
\* leaves orders alone.
TxStep(o) ==
    \/ PrepareRetryPayment(o) \/ abort(o) \/ CancelByCustomer(o) \/ expireOne(o)
    \/ \E k \in Attempts : failAttempt(o, k)
    \/ \E k \in Attempts, ev \in CallbackStatus : HandleCallback(o, k, ev)
    \/ \E to \in OrderStatus, role \in {"owner", "manager"} : AdminUpdateStatus(o, to, role)

\* Every transaction on an order conserves goods and never unbooks money.
LEMMA TxBalanced ==
    ASSUME IInv, NEW o \in Orders, TxStep(o)
    PROVE  Transacts(o) /\ Follows(orders[o], orders'[o])
  <1>0. TypeOK /\ Consistent(orders[o], payments[o], attempts[o])
        /\ payments[o] \in Rows /\ orders[o] \in OrderRow
    BY DEF IInv, Safe, TypeOK
  <1>1. CASE PrepareRetryPayment(o)
    <2>1. ~Recorded(orders[o].pay)
      BY <1>1 DEF PrepareRetryPayment, PaymentRetryable, Recorded
    <2>2. orders' = [orders EXCEPT ![o] = withPay(orders[o], "pending")] /\ stock' = stock
      BY <1>1 DEF PrepareRetryPayment, stockVars
    <2>3. QED
      BY <1>0, <2>1, <2>2, WithPayFollows, RowBalanced DEF PaymentStatus
  <1>2. CASE abort(o)
    <2>1. CASE attemptPending(o, 1)
      <3>1. ~Recorded(orders[o].pay)
        BY <1>0, <2>1, AttemptsAssumption DEF attemptPending, Consistent, Recorded
      <3>2. CancelUnpaidOrderTx(o, withPay(orders[o], "failed"), [payments[o] EXCEPT ![1] = "failed"])
        BY <1>2, <2>1 DEF abort
      <3>3. QED
        BY <1>0, <3>1, <3>2, WithPayFollows, CancelUnpaidBalanced DEF PaymentStatus
    <2>2. CASE ~attemptPending(o, 1)
      BY <1>2, <2>2, IdleBalanced DEF abort
    <2>3. QED
      BY <2>1, <2>2
  <1>3. CASE CancelByCustomer(o)
    BY <1>0, <1>3, CancelBalanced DEF CancelByCustomer, cancelStep, customerCanCancel, Follows
  <1>4. CASE expireOne(o)
    <2>1. CASE stillExpired(o)
      <3>1. CancelUnpaidOrderTx(o, orders[o], payments[o])
        BY <1>4, <2>1 DEF expireOne
      <3>2. QED
        BY <1>0, <3>1, CancelUnpaidBalanced DEF Follows
    <2>2. CASE ~stillExpired(o)
      BY <1>4, <2>2, IdleBalanced DEF expireOne
    <2>3. QED
      BY <2>1, <2>2
  <1>5. ASSUME NEW k \in Attempts, failAttempt(o, k)
        PROVE  Transacts(o) /\ Follows(orders[o], orders'[o])
    <2>0. stock' = stock
      BY <1>5 DEF failAttempt, stockVars
    <2>1. CASE attemptPending(o, k)
      <3>1. ~Recorded(orders[o].pay) /\ orders[o].status = "placed"
        BY <1>0, <2>1 DEF attemptPending, Consistent, Recorded
      <3>2. orders' = [orders EXCEPT ![o] = withPay(orders[o], "failed")]
        BY <1>5, <2>1, <3>1 DEF failAttempt
      <3>3. QED
        BY <1>0, <2>0, <3>1, <3>2, WithPayFollows, RowBalanced DEF PaymentStatus
    <2>2. CASE ~attemptPending(o, k)
      BY <1>5, <2>0, <2>2, IdleBalanced DEF failAttempt
    <2>3. QED
      BY <2>1, <2>2
  <1>6. ASSUME NEW k \in Attempts, NEW ev \in CallbackStatus, HandleCallback(o, k, ev)
        PROVE  Transacts(o) /\ Follows(orders[o], orders'[o])
    <2>1. CASE callbackApplies(o, k, ev)
      <3>1. applyCallback(o, k, ev)
        BY <1>6, <2>1 DEF HandleCallback
      <3>2. ~Recorded(orders[o].pay) \/ Recorded(ev)
        BY <1>0, <2>1 DEF callbackApplies, transitionApplies, lateSuccess, PaymentRetryable, Consistent, Recorded
      <3>3. /\ withPay(orders[o], ev) \in OrderRow
            /\ Follows(orders[o], withPay(orders[o], ev))
            /\ withPay(orders[o], ev).status = orders[o].status
        BY <1>0, <3>2, WithPayFollows DEF CallbackStatus
      <3>4. CASE ev = "cancelled"
        BY <1>0, <3>1, <3>3, <3>4, CancelUnpaidBalanced DEF applyCallback
      <3>5. CASE ev # "cancelled"
        <4>1. orders' = [orders EXCEPT ![o] = withPay(orders[o], ev)] /\ stock' = stock
          BY <3>1, <3>5 DEF applyCallback
        <4>2. QED
          BY <1>0, <3>3, <4>1, RowBalanced
      <3>6. QED
        BY <3>4, <3>5
    <2>2. CASE ~callbackApplies(o, k, ev)
      BY <1>6, <2>2, IdleBalanced DEF HandleCallback
    <2>3. QED
      BY <2>1, <2>2
  <1>7. ASSUME NEW to \in OrderStatus, NEW role, AdminUpdateStatus(o, to, role)
        PROVE  Transacts(o) /\ Follows(orders[o], orders'[o])
    <2>0. orders[o].status \notin {"none", "cancelled"}
      BY <1>7 DEF AdminUpdateStatus, validStatusTransition
    <2>1. CASE to = "cancelled"
      BY <1>0, <1>7, <2>0, <2>1, CancelBalanced DEF AdminUpdateStatus, cancelStep, Follows
    <2>2. CASE to # "cancelled"
      <3>1. orders' = [orders EXCEPT ![o] = withStatus(orders[o], to)] /\ stock' = stock
        BY <1>7, <2>2 DEF AdminUpdateStatus, stockVars
      <3>2. Follows(orders[o], withStatus(orders[o], to)) /\ withStatus(orders[o], to).status = to
        BY <2>0 DEF Follows, withStatus, OrderStatus
      <3>3. QED
        BY <1>0, <2>0, <2>2, <3>1, <3>2, RowBalanced
    <2>3. QED
      BY <2>1, <2>2
  <1>8. QED
    BY <1>1, <1>2, <1>3, <1>4, <1>5, <1>6, <1>7 DEF TxStep

\* What an order keeps off a shelf is a number of pieces.
LEMMA HoldsNat ==
    ASSUME NEW ord \in OrderRow, NEW p, NEW v \in Variants
    PROVE  holds(ord, p, v) \in Nat
  BY DEF holds, OrderRow

\* A transaction on one order keeps every shelf's account.
LEMMA TransactsConserves ==
    ASSUME TypeOK, TypeOK', NEW o \in Orders, Transacts(o), adjusted' = adjusted, StockConserved
    PROVE  StockConserved'
  <1> SUFFICES ASSUME NEW p \in Points, NEW v \in Variants
               PROVE  stock'[p][v] + held(p, v)' = InitStock[p][v] + adjusted[p][v]
    BY DEF StockConserved
  <1>1. PICK f : f = [q \in Orders |-> holds(orders[q], p, v)]
    OBVIOUS
  <1>2. PICK g : g = [q \in Orders |-> holds(orders'[q], p, v)]
    OBVIOUS
  <1>3. \A q \in Orders : f[q] \in Int /\ g[q] \in Int
    <2>1. \A q \in Orders : orders[q] \in OrderRow /\ orders'[q] \in OrderRow
      BY DEF TypeOK
    <2>2. \A q \in Orders : holds(orders[q], p, v) \in Nat /\ holds(orders'[q], p, v) \in Nat
      BY <2>1, HoldsNat
    <2>3. QED
      BY <1>1, <1>2, <2>2
  <1>4. \A q \in Orders \ {o} : g[q] = f[q]
    BY <1>1, <1>2 DEF Transacts
  <1>5. SumFunctionOnSet(g, Orders) = SumFunctionOnSet(f, Orders) + g[o] - f[o]
    BY <1>3, <1>4, OrdersAssumption, SumChange
  <1>6. SumFunctionOnSet(f, Orders) \in Int
    BY <1>3, OrdersAssumption, SumInt
  <1>7. stock'[p][v] + g[o] = stock[p][v] + f[o]
    BY <1>1, <1>2 DEF Transacts, Balanced
  <1>8. stock[p][v] + SumFunctionOnSet(f, Orders) = InitStock[p][v] + adjusted[p][v]
    BY <1>1 DEF StockConserved, held
  <1>9. held(p, v)' = SumFunctionOnSet(g, Orders)
    BY <1>2 DEF held
  <1>10. stock[p][v] \in Nat /\ stock'[p][v] \in Nat
    BY DEF TypeOK
  <1>11. QED
    BY <1>3, <1>5, <1>6, <1>7, <1>8, <1>9, <1>10

\* createOrder takes from the shelf what the new order holds.
LEMMA CreateBalanced ==
    ASSUME TypeOK, TypeOK', NEW o \in Orders, NEW method \in PaymentMethod, NEW p \in Points,
           NEW cart \in Carts, createOrder(o, method, p, cart), Told(o)
    PROVE  Transacts(o)
  <1>1. orders'[o] = [status |-> "placed", method |-> method,
                      pay |-> IF method = "online_card" THEN "pending" ELSE "null",
                      point |-> p, items |-> cart]
        /\ \A q \in Orders \ {o} : orders'[q] = orders[q]
    BY DEF createOrder, TypeOK
  <1>2. orders[o].point = NoPoint
    BY DEF createOrder, Told
  <1>3. \A r \in Points, v \in Variants :
            /\ holds(orders[o], r, v) = 0
            /\ holds(orders'[o], r, v) = IF r = p THEN cart[v] ELSE 0
    BY <1>1, <1>2, NoPointAssumption DEF holds
  <1>4. cart \in [Variants -> Nat] /\ stock \in [Points -> [Variants -> Nat]]
    BY CartsAssumption DEF TypeOK
  <1>5. \A r \in Points, v \in Variants :
            stock'[r][v] = IF r = p THEN stock[r][v] - cart[v] ELSE stock[r][v]
    BY <1>4 DEF createOrder, lockAndDecrementStock
  <1>6. Balanced(o)
    BY <1>3, <1>4, <1>5 DEF Balanced
  <1>7. QED
    BY <1>1, <1>6 DEF Transacts

\* Steps that touch neither an order row nor a shelf.
Aside ==
    \/ \E o \in Orders : notifyCreated(o) \/ Elapse(o)
    \/ \E o \in Orders, k \in Attempts :
            \/ openSession(o, k) \/ openSessionFails(o, k) \/ compensationFails(o, k)
            \/ bankCapture(o, k) \/ bankRefund(o, k)
    \/ ExpirePending \/ Crash \/ UNCHANGED vars

LEMMA AsideIdle ==
    ASSUME Aside
    PROVE  UNCHANGED <<orders, stock, adjusted>>
  BY DEF Aside, notifyCreated, Elapse, openSession, openSessionFails, compensationFails, bankCapture,
         bankRefund, ExpirePending, Crash, vars, orderVars, stockVars

LEMMA Steps ==
    ASSUME [Next]_vars
    PROVE  \/ \E o \in Orders, p \in Points, cart \in Carts :
                  PlaceOrder(o, p, cart) \/ CreateOnlineOrder(o, p, cart)
           \/ \E o \in Orders : TxStep(o)
           \/ \E p \in Points, v \in Variants, q \in StockLevels : Upsert(p, v, q)
           \/ Aside
  BY DEF Next, TxStep, Aside

\* Every step keeps the account of every shelf.
LEMMA ConservedStep ==
    ASSUME ShopInv, [Next]_vars
    PROVE  StockConserved'
  <1>0. IInv /\ TypeOK /\ TypeOK' /\ StockConserved /\ \A o \in Orders : Told(o)
    BY TypeStep DEF ShopInv, IInv
  <1>1. ASSUME NEW o \in Orders, NEW p \in Points, NEW cart \in Carts,
               PlaceOrder(o, p, cart) \/ CreateOnlineOrder(o, p, cart)
        PROVE  StockConserved'
    <2>1. PICK method \in PaymentMethod : createOrder(o, method, p, cart)
      BY <1>1 DEF PlaceOrder, CreateOnlineOrder, PaymentMethod
    <2>2. adjusted' = adjusted
      BY <2>1 DEF createOrder
    <2>3. QED
      BY <1>0, <2>1, <2>2, CreateBalanced, TransactsConserves
  <1>2. ASSUME NEW o \in Orders, TxStep(o)
        PROVE  StockConserved'
    <2>1. adjusted' = adjusted
      BY <1>2 DEF TxStep, PrepareRetryPayment, abort, CancelByCustomer, cancelStep, expireOne, failAttempt,
                  HandleCallback, AdminUpdateStatus, stockVars
    <2>2. QED
      BY <1>0, <1>2, <2>1, TxBalanced, TransactsConserves
  <1>3. ASSUME NEW p \in Points, NEW v \in Variants, NEW q \in StockLevels, Upsert(p, v, q)
        PROVE  StockConserved'
    <2>1. orders' = orders
      BY <1>3 DEF Upsert, orderVars
    <2>2. \A r \in Points, w \in Variants : held(r, w)' = held(r, w)
      BY <2>1 DEF held
    <2>3. \A r \in Points, w \in Variants :
              IF r = p /\ w = v
              THEN stock'[r][w] = q /\ adjusted'[r][w] = adjusted[r][w] + q - stock[r][w]
              ELSE stock'[r][w] = stock[r][w] /\ adjusted'[r][w] = adjusted[r][w]
      BY <1>0, <1>3 DEF Upsert, TypeOK
    <2>4. \A r \in Points, w \in Variants : stock[r][w] \in Nat /\ adjusted[r][w] \in Int /\ InitStock[r][w] \in Nat
      BY <1>0, StockAssumption DEF TypeOK
    <2>5. q \in Nat
      BY StockAssumption
    <2>6. \A r \in Points, w \in Variants : held(r, w) \in Int
      <3>1. \A x \in Orders : orders[x] \in OrderRow
        BY <1>0 DEF TypeOK
      <3>2. ASSUME NEW r \in Points, NEW w \in Variants PROVE held(r, w) \in Int
        <4>1. PICK f : f = [x \in Orders |-> holds(orders[x], r, w)]
          OBVIOUS
        <4>2. \A x \in Orders : f[x] \in Int
          BY <3>1, <4>1, HoldsNat
        <4>3. SumFunctionOnSet(f, Orders) \in Int
          BY <4>2, OrdersAssumption, SumInt
        <4>4. QED
          BY <4>1, <4>3 DEF held
      <3>3. QED
        BY <3>2
    <2>7. ASSUME NEW r \in Points, NEW w \in Variants
          PROVE  stock'[r][w] + held(r, w)' = InitStock[r][w] + adjusted'[r][w]
      <3>1. stock[r][w] + held(r, w) = InitStock[r][w] + adjusted[r][w]
        BY <1>0 DEF StockConserved
      <3>2. QED
        BY <2>2, <2>3, <2>4, <2>5, <2>6, <3>1
    <2>8. QED
      BY <2>7 DEF StockConserved
  <1>4. ASSUME Aside
        PROVE  StockConserved'
    BY <1>0, <1>4, AsideIdle DEF StockConserved, held
  <1>5. QED
    BY <1>1, <1>2, <1>3, <1>4, Steps

\* Only a "paid" callback that is applied, to an order whose money was not
\* booked before, makes a transaction announce its order.
LEMMA TxAnnounces ==
    ASSUME IInv, NEW o \in Orders, TxStep(o)
    PROVE  /\ announced' = announced
           /\ \/ announcing' = announcing
              \/ /\ announcing' = announcing \cup {o}
                 /\ orders[o].status # "none" /\ orders[o].method = "online_card"
                 /\ ~Recorded(orders[o].pay) /\ Recorded(orders'[o].pay)
  <1>0. TypeOK /\ Consistent(orders[o], payments[o], attempts[o]) /\ \A k \in Attempts : Money(o, k)
    BY DEF IInv, Safe
  <1>1. announced' = announced
    BY DEF TxStep, PrepareRetryPayment, abort, CancelByCustomer, cancelStep, expireOne, failAttempt,
           HandleCallback, AdminUpdateStatus, procVars
  <1>2. CASE \/ PrepareRetryPayment(o) \/ abort(o) \/ CancelByCustomer(o) \/ expireOne(o)
             \/ \E k \in Attempts : failAttempt(o, k)
             \/ \E to \in OrderStatus, role \in {"owner", "manager"} : AdminUpdateStatus(o, to, role)
    <2>1. announcing' = announcing
      BY <1>2 DEF PrepareRetryPayment, abort, CancelByCustomer, cancelStep, expireOne, failAttempt,
                  AdminUpdateStatus, procVars
    <2>2. QED
      BY <1>1, <2>1
  <1>3. ASSUME NEW k \in Attempts, NEW ev \in CallbackStatus, HandleCallback(o, k, ev),
               announcing' # announcing
        PROVE  /\ announcing' = announcing \cup {o}
               /\ orders[o].status # "none" /\ orders[o].method = "online_card"
               /\ ~Recorded(orders[o].pay) /\ Recorded(orders'[o].pay)
    <2>1. callbackApplies(o, k, ev) /\ applyCallback(o, k, ev)
      BY <1>3 DEF HandleCallback
    <2>2. ev = "paid" /\ announcing' = announcing \cup {o}
      BY <1>3, <2>1 DEF applyCallback, announces
    <2>3. orders'[o].pay = "paid"
      BY <1>0, <2>1, <2>2 DEF applyCallback, withPay, TypeOK
    <2>4. ~Recorded(orders[o].pay)
      BY <1>0, <2>1, <2>2 DEF callbackApplies, transitionApplies, lateSuccess, PaymentRetryable, Consistent, Recorded
    <2>5. payments[o][k] # "none"
      BY <1>0, <1>3 DEF HandleCallback, Money
    <2>6. attempts[o] # 0
      BY <1>0, <2>5, AttemptsAssumption DEF Consistent, TypeOK
    <2>7. orders[o].status # "none" /\ orders[o].method # "cash_on_delivery"
      BY <1>0, <2>6 DEF Consistent
    <2>8. orders[o].method = "online_card"
      BY <1>0, <2>7 DEF TypeOK, OrderRow, PaymentMethod
    <2>9. QED
      BY <2>2, <2>3, <2>4, <2>7, <2>8 DEF Recorded
  <1>4. QED
    BY <1>1, <1>2, <1>3 DEF TxStep

\* Every step announces an order at most once, and with its money in.
LEMMA ToldStep ==
    ASSUME ShopInv, [Next]_vars, NEW q \in Orders
    PROVE  Told(q)'
  <1>0. IInv /\ TypeOK /\ TypeOK' /\ Told(q)
    BY TypeStep DEF ShopInv, IInv
  <1>1. ASSUME NEW o \in Orders, NEW p \in Points, NEW cart \in Carts,
               PlaceOrder(o, p, cart) \/ CreateOnlineOrder(o, p, cart)
        PROVE  Told(q)'
    <2>1. announced' = announced /\ orders[o].status = "none"
      BY <1>1 DEF PlaceOrder, CreateOnlineOrder, createOrder
    <2>2. CASE q # o
      <3>1. orders'[q] = orders[q] /\ (q \in announcing' <=> q \in announcing)
        BY <1>0, <1>1, <2>2 DEF PlaceOrder, CreateOnlineOrder, createOrder, TypeOK
      <3>2. QED
        BY <1>0, <2>1, <3>1 DEF Told
    <2>3. CASE q = o
      <3>1. announced[q] = 0 /\ q \notin announcing
        BY <1>0, <2>1, <2>3 DEF Told
      <3>2. CASE PlaceOrder(o, p, cart)
        <4>1. orders'[q].status = "placed" /\ orders'[q].method = "cash_on_delivery"
          BY <1>0, <2>3, <3>2 DEF PlaceOrder, createOrder, TypeOK
        <4>2. QED
          BY <2>1, <3>1, <4>1 DEF Told
      <3>3. CASE CreateOnlineOrder(o, p, cart)
        <4>1. orders'[q].status = "placed" /\ announcing' = announcing
          BY <1>0, <2>3, <3>3 DEF CreateOnlineOrder, createOrder, TypeOK
        <4>2. QED
          BY <2>1, <3>1, <4>1 DEF Told
      <3>4. QED
        BY <1>1, <3>2, <3>3
    <2>4. QED
      BY <2>2, <2>3
  <1>2. ASSUME NEW o \in Orders, TxStep(o)
        PROVE  Told(q)'
    <2>1. Transacts(o) /\ Follows(orders[o], orders'[o])
      BY <1>0, <1>2, TxBalanced
    <2>2. announced' = announced
      BY <1>0, <1>2, TxAnnounces
    <2>3. \/ announcing' = announcing
          \/ /\ announcing' = announcing \cup {o}
             /\ orders[o].status # "none" /\ orders[o].method = "online_card"
             /\ ~Recorded(orders[o].pay) /\ Recorded(orders'[o].pay)
      BY <1>0, <1>2, TxAnnounces
    <2>4. CASE q # o
      <3>1. orders'[q] = orders[q] /\ (q \in announcing' <=> q \in announcing)
        BY <2>1, <2>3, <2>4 DEF Transacts
      <3>2. QED
        BY <1>0, <2>2, <3>1 DEF Told
    <2>5. CASE q = o
      BY <1>0, <2>1, <2>2, <2>3, <2>5 DEF Told, Follows, TypeOK
    <2>6. QED
      BY <2>4, <2>5
  <1>3. ASSUME orders' = orders, announced' = announced, announcing' = announcing \/ announcing' = {}
        PROVE  Told(q)'
    BY <1>0, <1>3 DEF Told
  <1>4. ASSUME NEW o \in Orders, notifyCreated(o)
        PROVE  Told(q)'
    <2>1. orders' = orders /\ o \in announcing /\ announcing' = announcing \ {o}
      BY <1>4 DEF notifyCreated, orderVars
    <2>2. CASE q # o
      <3>1. announced'[q] = announced[q]
        BY <1>0, <1>4, <2>2 DEF notifyCreated, TypeOK
      <3>2. QED
        BY <1>0, <2>1, <2>2, <3>1 DEF Told
    <2>3. CASE q = o
      <3>1. announced[q] = 0
        BY <1>0, <2>1, <2>3 DEF Told
      <3>2. announced'[q] \in {0, 1}
        BY <1>0, <1>4, <2>3, <3>1 DEF notifyCreated, TypeOK
      <3>3. QED
        BY <1>0, <2>1, <2>3, <3>2 DEF Told
    <2>4. QED
      BY <2>2, <2>3
  <1>5. ASSUME NEW p \in Points, NEW v \in Variants, NEW n \in StockLevels, Upsert(p, v, n)
        PROVE  Told(q)'
    BY <1>3, <1>5 DEF Upsert, orderVars, procVars
  <1>6. ASSUME Aside, \A o \in Orders : ~notifyCreated(o)
        PROVE  Told(q)'
    <2>1. announced' = announced /\ (announcing' = announcing \/ announcing' = {})
      BY <1>6 DEF Aside, Elapse, openSession, openSessionFails, compensationFails, bankCapture,
                  bankRefund, ExpirePending, Crash, vars, procVars
    <2>2. QED
      BY <1>3, <1>6, <2>1, AsideIdle
  <1>7. QED
    BY <1>1, <1>2, <1>4, <1>5, <1>6, Steps

\* The shop's invariant holds throughout.
LEMMA ShopInvariant == Spec => []ShopInv
  <1>1. Init => ShopInv
    <2> SUFFICES ASSUME Init PROVE ShopInv
      OBVIOUS
    <2>1. IInv
      BY InitSafe
    <2>2. \A o \in Orders : Told(o)
      BY DEF Init, NoOrder, Told
    <2>3. ASSUME NEW p \in Points, NEW v \in Variants
          PROVE  stock[p][v] + held(p, v) = InitStock[p][v] + adjusted[p][v]
      <3>1. PICK f : f = [o \in Orders |-> holds(orders[o], p, v)]
        OBVIOUS
      <3>2. \A o \in Orders : f[o] = 0
        BY <3>1, NoPointAssumption DEF Init, NoOrder, holds
      <3>3. SumFunctionOnSet(f, Orders) = 0
        BY <3>2, OrdersAssumption, SumZero
      <3>4. stock[p][v] = InitStock[p][v] /\ adjusted[p][v] = 0 /\ InitStock[p][v] \in Nat
        BY StockAssumption DEF Init
      <3>5. QED
        BY <3>1, <3>3, <3>4 DEF held
    <2>4. QED
      BY <2>1, <2>2, <2>3 DEF ShopInv, StockConserved
  <1>2. ShopInv /\ [Next]_vars => ShopInv'
    BY SafeStep, ToldStep, ConservedStep DEF ShopInv
  <1>3. QED
    BY <1>1, <1>2, PTL DEF Spec

\* For any number of orders, carts, points and crashes, every shelf holds
\* what it started with, plus what staff wrote into it, minus what live or
\* delivered orders took: no cancellation, expiry, abort or callback returns
\* an order's goods twice or forgets them.
THEOREM GoodsConserved == Spec => []StockConserved
  <1>1. ShopInv => StockConserved
    BY DEF ShopInv
  <1>2. QED
    BY <1>1, ShopInvariant, PTL

\* Staff hear of an order at most once and of an online order only with its
\* money in, however often the bank repeats its callbacks.
THEOREM ToldOnce == Spec => []AnnouncedOnce
  <1>1. ShopInv => AnnouncedOnce
    <2> SUFFICES ASSUME ShopInv, NEW o \in Orders
                 PROVE  /\ announced[o] + (IF o \in announcing THEN 1 ELSE 0) <= 1
                        /\ announced[o] > 0 /\ orders[o].method = "online_card" => Recorded(orders[o].pay)
      BY DEF AnnouncedOnce
    <2>1. Told(o)
      BY DEF ShopInv
    <2>2. QED
      BY <2>1 DEF Told
  <1>2. QED
    BY <1>1, ShopInvariant, PTL

-----------------------------------------------------------------------------
(* OrderPayments implements OrderContract: every transaction of the shop    *)
(* is one step of the contract or leaves goods, money and refunds alone.    *)
(* IInv rules out the states in which a transaction would do something the  *)
(* contract does not allow.                                                 *)

\* Two functions that agree except at one argument.
LEMMA FunctionUpdate ==
    ASSUME NEW S, NEW T, NEW f \in [S -> T], NEW g \in [S -> T], NEW o \in S,
           \A q \in S \ {o} : g[q] = f[q]
    PROVE  g = [f EXCEPT ![o] = g[o]]
  OBVIOUS

Goods == {"none", "reserved", "leaving", "delivered", "returned"}
Moneys == {"none", "cash", "due", "taken", "back"}

LEMMA BarTypes ==
    /\ goodsBar \in [Orders -> Goods] /\ goodsBar' \in [Orders -> Goods]
    /\ moneyBar \in [Orders -> Moneys] /\ moneyBar' \in [Orders -> Moneys]
  <1>1. \A ord : goodsOf(ord) \in Goods /\ moneyOf(ord) \in Moneys
    BY DEF goodsOf, moneyOf, Goods, Moneys
  <1>2. QED
    BY <1>1 DEF goodsBar, moneyBar

\* A transaction that rewrites one order row changes what the contract sees
\* of that order only.
LEMMA RowMaps ==
    ASSUME TypeOK, NEW o \in Orders, NEW ord, orders' = [orders EXCEPT ![o] = ord]
    PROVE  /\ goodsBar' = [goodsBar EXCEPT ![o] = goodsOf(ord)]
           /\ moneyBar' = [moneyBar EXCEPT ![o] = moneyOf(ord)]
  <1>1. \A q \in Orders : orders'[q] = IF q = o THEN ord ELSE orders[q]
    BY DEF TypeOK
  <1>2. \A q \in Orders \ {o} : goodsBar'[q] = goodsBar[q] /\ moneyBar'[q] = moneyBar[q]
    BY <1>1 DEF goodsBar, moneyBar, goodsOf, moneyOf
  <1>3. goodsBar'[o] = goodsOf(ord) /\ moneyBar'[o] = moneyOf(ord)
    BY <1>1 DEF goodsBar, moneyBar, goodsOf, moneyOf
  <1>4. QED
    BY <1>2, <1>3, BarTypes, FunctionUpdate

\* A row that maps to the same goods and money is a stuttering step.
LEMMA RowStutters ==
    ASSUME TypeOK, NEW o \in Orders, NEW ord, orders' = [orders EXCEPT ![o] = ord],
           goodsOf(ord) = goodsOf(orders[o]), moneyOf(ord) = moneyOf(orders[o])
    PROVE  goodsBar' = goodsBar /\ moneyBar' = moneyBar
  <1>1. goodsBar[o] = goodsOf(orders[o]) /\ moneyBar[o] = moneyOf(orders[o])
    BY DEF goodsBar, moneyBar, goodsOf, moneyOf
  <1>2. goodsBar' = [goodsBar EXCEPT ![o] = goodsBar[o]] /\ moneyBar' = [moneyBar EXCEPT ![o] = moneyBar[o]]
    BY <1>1, RowMaps, ZenonT(30)
  <1>3. QED
    BY <1>2, BarTypes

\* cancelLockedTx is the contract's Return: a refund is owed exactly when
\* the order's money was taken.
LEMMA CancelReturns ==
    ASSUME TypeOK, NEW o \in Orders, NEW ord \in OrderRow, NEW rows, NEW actor,
           cancelLockedTx(o, ord, rows, actor),
           orders[o].status \in {"placed", "confirmed", "courier_assigned"},
           ord.status = orders[o].status, moneyOf(ord) = moneyOf(orders[o])
    PROVE  Contract!Return(o)
  <1>1. orders' = [orders EXCEPT ![o] = cancelledOrder(ord)]
    BY DEF cancelLockedTx
  <1>2. goodsOf(cancelledOrder(ord)) = "returned"
    BY DEF goodsOf, cancelledOrder, withPay, withStatus
  <1>3. moneyOf(cancelledOrder(ord)) = moneyOf(ord)
    BY DEF moneyOf, cancelledOrder, withPay, withStatus
  <1>4. moneyBar[o] = moneyOf(ord) /\ goodsBar[o] \in {"reserved", "leaving"}
    BY DEF moneyBar, goodsBar, goodsOf, moneyOf
  <1>5. goodsBar' = [goodsBar EXCEPT ![o] = "returned"]
    BY <1>1, <1>2, RowMaps, ZenonT(30)
  <1>6. moneyBar' = moneyBar
    <2>1. moneyBar' = [moneyBar EXCEPT ![o] = moneyOf(cancelledOrder(ord))]
      BY <1>1, RowMaps
    <2>2. moneyOf(cancelledOrder(ord)) = moneyBar[o]
      BY <1>3, <1>4
    <2>3. QED
      BY <2>1, <2>2, BarTypes
  <1>7. cancelOwesRefund(ord) <=> moneyBar[o] = "taken"
    <2>1. ord.status # "none" /\ ord.method \in {"cash_on_delivery", "online_card"}
      BY DEF OrderRow, PaymentMethod
    <2>2. moneyOf(ord) = "taken" <=> ord.method = "online_card" /\ ord.pay = "paid"
      <3>1. CASE ord.method = "cash_on_delivery"
        BY <2>1, <3>1 DEF moneyOf
      <3>2. CASE ord.method = "online_card" /\ ord.pay = "paid"
        BY <2>1, <3>2 DEF moneyOf
      <3>3. CASE ord.method = "online_card" /\ ord.pay # "paid"
        BY <2>1, <3>3 DEF moneyOf
      <3>4. QED
        BY <2>1, <3>1, <3>2, <3>3
    <2>3. QED
      BY <1>4, <2>2 DEF cancelOwesRefund
  <1>8. refunds' = IF moneyBar[o] = "taken" THEN refunds \cup {o} ELSE refunds
    BY <1>7 DEF cancelLockedTx
  <1>9. QED
    BY <1>4, <1>5, <1>6, <1>8 DEF Contract!Return

\* A payment status that moves no money leaves the contract's view alone.
LEMMA UnpaidMoney ==
    ASSUME NEW ord \in OrderRow, NEW s \in {"pending", "failed", "cancelled"}, PaymentRetryable(ord)
    PROVE  moneyOf(withPay(ord, s)) = moneyOf(ord) /\ goodsOf(withPay(ord, s)) = goodsOf(ord)
  <1>1. moneyOf(withPay(ord, s)) = "due" /\ moneyOf(ord) = "due"
    BY DEF moneyOf, withPay, PaymentRetryable
  <1>2. goodsOf(withPay(ord, s)) = "reserved" /\ goodsOf(ord) = "reserved"
    BY DEF goodsOf, withPay, PaymentRetryable
  <1>3. QED
    BY <1>1, <1>2

\* A step that rewrites no order row and no refund flag is invisible.
LEMMA ViewUnchanged ==
    ASSUME UNCHANGED <<orders, refunds>>
    PROVE  UNCHANGED Contract!vars
  <1>1. goodsBar' = goodsBar /\ moneyBar' = moneyBar
    BY DEF goodsBar, moneyBar, goodsOf, moneyOf
  <1>2. QED
    BY <1>1 DEF Contract!vars

\* Checkout reserves goods that were not reserved before.
LEMMA CreateReserves ==
    ASSUME IInv, NEW o \in Orders, NEW p \in Points, NEW cart \in Carts,
           PlaceOrder(o, p, cart) \/ CreateOnlineOrder(o, p, cart)
    PROVE  Contract!Reserve(o)
  <1>1. PICK method \in PaymentMethod : createOrder(o, method, p, cart)
    BY DEF PlaceOrder, CreateOnlineOrder, PaymentMethod
  <1> DEFINE ord == [status |-> "placed", method |-> method,
                     pay |-> IF method = "online_card" THEN "pending" ELSE "null",
                     point |-> p, items |-> cart]
  <1>2. orders[o].status = "none" /\ orders' = [orders EXCEPT ![o] = ord] /\ refunds' = refunds
    BY <1>1 DEF createOrder
  <1>3. goodsOf(ord) = "reserved"
    BY DEF goodsOf
  <1>4. moneyOf(ord) \in {"cash", "due"}
    BY DEF moneyOf, PaymentMethod
  <1>5. goodsBar[o] = "none"
    BY <1>2 DEF goodsBar, goodsOf
  <1> HIDE DEF ord
  <1>6. goodsBar' = [goodsBar EXCEPT ![o] = "reserved"] /\ moneyBar' = [moneyBar EXCEPT ![o] = moneyOf(ord)]
    BY <1>2, <1>3, RowMaps DEF IInv
  <1>7. QED
    BY <1>2, <1>4, <1>5, <1>6 DEF Contract!Reserve

\* A staff transition lets goods go, delivers them or moves them on.
LEMMA AdvanceMaps ==
    ASSUME IInv, NEW o \in Orders, NEW to \in OrderStatus, NEW role,
           AdminUpdateStatus(o, to, role), to # "cancelled"
    PROVE  Contract!LetGo(o) \/ Contract!Deliver(o) \/ UNCHANGED Contract!vars
  <1> DEFINE ord == withStatus(orders[o], to)
  <1>1. orders' = [orders EXCEPT ![o] = ord] /\ refunds' = refunds
    BY DEF AdminUpdateStatus
  <1>2. orders[o] \in OrderRow /\ TypeOK
    BY DEF IInv, TypeOK
  <1>3. \/ orders[o].status = "placed" /\ to = "confirmed"
        \/ orders[o].status = "confirmed" /\ to = "courier_assigned"
        \/ orders[o].status = "courier_assigned" /\ to = "delivered"
    BY DEF AdminUpdateStatus, validStatusTransition
  <1>4. moneyOf(ord) = moneyOf(orders[o]) /\ moneyBar[o] = moneyOf(orders[o])
    BY <1>3 DEF moneyOf, withStatus, moneyBar
  <1>5. moneyBar' = moneyBar
    <2>1. moneyBar' = [moneyBar EXCEPT ![o] = moneyOf(ord)]
      BY <1>1, <1>2, RowMaps
    <2> HIDE DEF ord
    <2>2. QED
      BY <1>4, <2>1, BarTypes
  <1>6. goodsBar' = [goodsBar EXCEPT ![o] = goodsOf(ord)]
    BY <1>1, <1>2, RowMaps
  <1>7. CASE to = "confirmed"
    <2>1. goodsBar[o] = "reserved" /\ goodsOf(ord) = "leaving"
      BY <1>3, <1>7 DEF goodsBar, goodsOf, withStatus
    <2>2. paymentAllowsConfirm(orders[o])
      BY <1>7 DEF AdminUpdateStatus
    <2>3. moneyOf(orders[o]) \in {"cash", "taken"}
      BY <1>2, <1>3, <1>7, <2>2 DEF moneyOf, paymentAllowsConfirm, OrderRow, PaymentMethod
    <2>4. QED
      BY <1>1, <1>4, <1>5, <1>6, <2>1, <2>3 DEF Contract!LetGo
  <1>8. CASE to = "courier_assigned"
    <2>1. goodsBar[o] = "leaving" /\ goodsOf(ord) = "leaving"
      BY <1>3, <1>8 DEF goodsBar, goodsOf, withStatus
    <2>2. goodsBar' = goodsBar
      BY <1>6, <2>1, BarTypes
    <2>3. QED
      BY <1>1, <1>5, <2>2 DEF Contract!vars
  <1>9. CASE to = "delivered"
    <2>1. goodsBar[o] = "leaving" /\ goodsOf(ord) = "delivered"
      BY <1>3, <1>9 DEF goodsBar, goodsOf, withStatus
    <2>2. QED
      BY <1>1, <1>5, <1>6, <2>1 DEF Contract!Deliver
  <1>10. QED
    BY <1>3, <1>7, <1>8, <1>9

\* A cancellation of an open order whose payment was just closed.
LEMMA CancelUnpaidReturns ==
    ASSUME IInv, NEW o \in Orders, NEW rows, NEW ord \in OrderRow,
           CancelUnpaidOrderTx(o, ord, rows), PaymentRetryable(orders[o]),
           ord = orders[o] \/ \E s \in {"failed", "cancelled"} : ord = withPay(orders[o], s)
    PROVE  Contract!Return(o)
  <1>1. TypeOK /\ orders[o] \in OrderRow
    BY DEF IInv, TypeOK
  <1>2. moneyOf(ord) = moneyOf(orders[o])
    BY <1>1, UnpaidMoney
  <1>3. orders[o].status = "placed" /\ ord.status = "placed"
    BY DEF PaymentRetryable, withPay
  <1>4. cancelLockedTx(o, ord, rows, "system")
    BY <1>3 DEF CancelUnpaidOrderTx
  <1>5. QED
    BY <1>1, <1>2, <1>3, <1>4, CancelReturns

\* A callback takes the money, gives it back, returns the goods, owes a
\* refund, or changes nothing the contract sees.
LEMMA CallbackMaps ==
    ASSUME IInv, NEW o \in Orders, NEW k \in Attempts, NEW ev \in CallbackStatus,
           HandleCallback(o, k, ev)
    PROVE  \/ Contract!TakeMoney(o) \/ Contract!GiveMoneyBack(o) \/ Contract!Return(o)
           \/ Contract!OweRefund(o) \/ UNCHANGED Contract!vars
  <1>0. TypeOK /\ orders[o] \in OrderRow /\ Consistent(orders[o], payments[o], attempts[o]) /\ Ended(o)
    BY DEF IInv, TypeOK, Safe
  <1>1. payments[o][k] # "none"
    BY DEF IInv, Safe, Money, HandleCallback
  <1>2. orders[o].method = "online_card" /\ orders[o].status # "none"
    <2>1. attempts[o] \in 0..MaxPaymentAttempts
      BY <1>0 DEF TypeOK
    <2>2. attempts[o] # 0
      BY <1>0, <1>1, <2>1, AttemptsAssumption DEF Consistent
    <2>3. QED
      BY <1>0, <2>2 DEF Consistent, OrderRow, PaymentMethod
  <1> DEFINE ord == withPay(orders[o], ev)
  <1>3. CASE callbackApplies(o, k, ev)
    <2>1. applyCallback(o, k, ev)
      BY <1>3 DEF HandleCallback
    <2>2. CASE ev = "cancelled"
      <3>1. payments[o][k] = "pending"
        BY <1>3, <2>2 DEF callbackApplies, transitionApplies, lateSuccess
      <3>2. PaymentRetryable(orders[o])
        BY <3>1, PendingIsOpen
      <3>3. ord \in OrderRow
        BY <1>0, SetPayType DEF CallbackStatus
      <3>4. CancelUnpaidOrderTx(o, ord, callbackRows(o, k, ev))
        BY <2>1, <2>2 DEF applyCallback
      <3>5. QED
        BY <2>2, <3>2, <3>3, <3>4, CancelUnpaidReturns
    <2>3. CASE ev # "cancelled"
      <3>1. orders' = [orders EXCEPT ![o] = ord] /\
            refunds' = IF ev = "paid" /\ ord.status = "cancelled" THEN refunds \cup {o} ELSE refunds
        BY <2>1, <2>3 DEF applyCallback
      <3>2. CASE ev = "failed"
        <4>1. PaymentRetryable(orders[o])
          BY <1>3, <3>2, PendingIsOpen DEF callbackApplies, transitionApplies, lateSuccess
        <4>2. goodsOf(ord) = goodsOf(orders[o]) /\ moneyOf(ord) = moneyOf(orders[o])
          BY <1>0, <3>2, <4>1, UnpaidMoney
        <4>3. goodsBar' = goodsBar /\ moneyBar' = moneyBar
          BY <1>0, <3>1, <4>2, RowStutters
        <4>4. QED
          BY <3>1, <3>2, <4>3 DEF Contract!vars
      <3>3. CASE ev = "paid"
        <4>1. PaymentRetryable(orders[o])
          BY <1>3, <3>3, PendingIsOpen DEF callbackApplies, transitionApplies, lateSuccess
        <4>2. goodsOf(ord) = "reserved" /\ goodsBar[o] = "reserved"
          BY <4>1 DEF goodsOf, goodsBar, withPay, PaymentRetryable
        <4>3. moneyOf(ord) = "taken" /\ moneyBar[o] = "due"
          BY <3>3, <4>1 DEF moneyOf, moneyBar, withPay, PaymentRetryable
        <4>4. goodsBar' = [goodsBar EXCEPT ![o] = goodsBar[o]] /\ moneyBar' = [moneyBar EXCEPT ![o] = "taken"]
          <5>1. goodsBar' = [goodsBar EXCEPT ![o] = goodsOf(ord)] /\ moneyBar' = [moneyBar EXCEPT ![o] = moneyOf(ord)]
            BY <1>0, <3>1, RowMaps
          <5> HIDE DEF ord
          <5>2. QED
            BY <4>2, <4>3, <5>1
        <4>5. goodsBar' = goodsBar
          BY <4>4, BarTypes
        <4>6. refunds' = refunds
          BY <3>1, <4>1 DEF PaymentRetryable, withPay
        <4>7. QED
          BY <4>2, <4>3, <4>4, <4>5, <4>6 DEF Contract!TakeMoney
      <3>4. CASE ev = "refunded"
        <4>1. payments[o][k] = "paid"
          BY <1>3, <3>4 DEF callbackApplies, transitionApplies, lateSuccess
        <4>2. orders[o].pay = "paid"
          BY <1>0, <4>1 DEF Consistent, Recorded
        <4>3. moneyOf(ord) = "back" /\ moneyBar[o] = "taken"
          BY <1>2, <3>4, <4>2 DEF moneyOf, moneyBar, withPay
        <4>4. goodsOf(ord) = goodsOf(orders[o]) /\ goodsBar[o] = goodsOf(orders[o])
          BY DEF goodsOf, goodsBar, withPay
        <4>5. goodsBar' = [goodsBar EXCEPT ![o] = goodsOf(ord)] /\ moneyBar' = [moneyBar EXCEPT ![o] = moneyOf(ord)]
          BY <1>0, <3>1, RowMaps
        <4> HIDE DEF ord
        <4>6. goodsBar' = goodsBar
          BY <4>4, <4>5, BarTypes
        <4>7. QED
          BY <3>1, <3>4, <4>3, <4>5, <4>6 DEF Contract!GiveMoneyBack
      <3>5. ev # "pending"
        BY <1>3 DEF callbackApplies, transitionApplies, lateSuccess
      <3>6. QED
        BY <2>3, <3>2, <3>3, <3>4, <3>5 DEF CallbackStatus, PaymentStatus
    <2>4. QED
      BY <2>2, <2>3
  <1>4. CASE ~callbackApplies(o, k, ev) /\ refundConflict(o, k, ev)
    <2>1. orders' = orders /\ refunds' = refunds \cup {o}
      BY <1>4 DEF HandleCallback
    <2>2. goodsBar' = goodsBar /\ moneyBar' = moneyBar
      BY <2>1 DEF goodsBar, moneyBar, goodsOf, moneyOf
    <2>3. ~PaymentRetryable(orders[o])
      BY <1>4 DEF callbackApplies, refundConflict, lateSuccess
    <2>4. orders[o].status = "cancelled" \/ orders[o].pay \in {"paid", "refunded"}
      BY <1>0, <1>2, <2>3
      DEF PaymentRetryable, Consistent, Ended, Recorded, Shipped, OrderRow, OrderStatus, PaymentStatus, PaymentMethod
    <2>5. goodsBar[o] = "returned" \/ moneyBar[o] \in {"taken", "back"}
      BY <1>2, <2>4 DEF goodsBar, moneyBar, goodsOf, moneyOf
    <2>6. QED
      BY <2>1, <2>2, <2>5 DEF Contract!OweRefund
  <1>5. CASE ~callbackApplies(o, k, ev) /\ ~refundConflict(o, k, ev)
    BY <1>5, ViewUnchanged DEF HandleCallback
  <1>6. QED
    BY <1>3, <1>4, <1>5

\* Every step of the shop is a step of the contract or invisible to it.
LEMMA ContractStep == IInv /\ [Next]_vars => [Contract!Next]_(Contract!vars)
  <1> SUFFICES ASSUME IInv, [Next]_vars PROVE Contract!Next \/ UNCHANGED Contract!vars
    OBVIOUS
  <1>1. ASSUME NEW o \in Orders, NEW p \in Points, NEW cart \in Carts,
               PlaceOrder(o, p, cart) \/ CreateOnlineOrder(o, p, cart)
        PROVE  Contract!Next
    BY <1>1, CreateReserves DEF Contract!Next
  <1>2. ASSUME NEW o \in Orders, PrepareRetryPayment(o)
        PROVE  UNCHANGED Contract!vars
    <2>1. PaymentRetryable(orders[o]) /\ refunds' = refunds /\ orders' = [orders EXCEPT ![o] = withPay(orders[o], "pending")]
      BY <1>2 DEF PrepareRetryPayment
    <2>2. TypeOK /\ orders[o] \in OrderRow
      BY DEF IInv, TypeOK
    <2>3. goodsBar' = goodsBar /\ moneyBar' = moneyBar
      BY <2>1, <2>2, UnpaidMoney, RowStutters
    <2>4. QED
      BY <2>1, <2>3 DEF Contract!vars
  <1>3. ASSUME NEW o \in Orders, abort(o)
        PROVE  Contract!Next \/ UNCHANGED Contract!vars
    <2>1. CASE attemptPending(o, 1)
      <3>1. PaymentRetryable(orders[o])
        BY <2>1, PendingIsOpen, AttemptsAssumption DEF attemptPending
      <3>2. withPay(orders[o], "failed") \in OrderRow
        BY SetPayType DEF IInv, PaymentStatus
      <3>3. Contract!Return(o)
        BY <1>3, <2>1, <3>1, <3>2, CancelUnpaidReturns DEF abort
      <3>4. QED
        BY <3>3 DEF Contract!Next
    <2>2. CASE ~attemptPending(o, 1)
      BY <1>3, <2>2, ViewUnchanged DEF abort
    <2>3. QED
      BY <2>1, <2>2
  <1>4. ASSUME NEW o \in Orders, NEW k \in Attempts, failAttempt(o, k)
        PROVE  UNCHANGED Contract!vars
    <2>1. CASE attemptPending(o, k)
      <3>1. PaymentRetryable(orders[o])
        BY <2>1, PendingIsOpen DEF attemptPending
      <3>2. orders' = [orders EXCEPT ![o] = withPay(orders[o], "failed")] /\ refunds' = refunds
        BY <1>4, <2>1, <3>1 DEF failAttempt, PaymentRetryable
      <3>3. TypeOK /\ orders[o] \in OrderRow
        BY DEF IInv, TypeOK
      <3>4. goodsBar' = goodsBar /\ moneyBar' = moneyBar
        BY <3>1, <3>2, <3>3, UnpaidMoney, RowStutters
      <3>5. QED
        BY <3>2, <3>4 DEF Contract!vars
    <2>2. CASE ~attemptPending(o, k)
      BY <1>4, <2>2, ViewUnchanged DEF failAttempt
    <2>3. QED
      BY <2>1, <2>2
  <1>5. ASSUME NEW o \in Orders, NEW k \in Attempts, NEW ev \in CallbackStatus, HandleCallback(o, k, ev)
        PROVE  Contract!Next \/ UNCHANGED Contract!vars
    BY <1>5, CallbackMaps DEF Contract!Next
  <1>6. ASSUME NEW o \in Orders, NEW actor, cancelStep(o, actor),
               orders[o].status \in {"placed", "confirmed", "courier_assigned"}
        PROVE  Contract!Next
    <2>1. TypeOK /\ orders[o] \in OrderRow
      BY DEF IInv, TypeOK
    <2>2. Contract!Return(o)
      BY <1>6, <2>1, CancelReturns DEF cancelStep
    <2>3. QED
      BY <2>2 DEF Contract!Next
  <1>7. ASSUME NEW o \in Orders, CancelByCustomer(o)
        PROVE  Contract!Next
    BY <1>6, <1>7 DEF CancelByCustomer, customerCanCancel
  <1>8. ASSUME NEW o \in Orders, NEW to \in OrderStatus, NEW role, AdminUpdateStatus(o, to, role)
        PROVE  Contract!Next \/ UNCHANGED Contract!vars
    <2>1. CASE to = "cancelled"
      <3>1. cancelStep(o, "staff") /\ validStatusTransition(orders[o].status, to)
        BY <1>8, <2>1 DEF AdminUpdateStatus
      <3>2. orders[o].status \in {"placed", "confirmed", "courier_assigned"}
        BY <3>1 DEF validStatusTransition
      <3>3. QED
        BY <1>6, <3>1, <3>2
    <2>2. CASE to # "cancelled"
      BY <1>8, <2>2, AdvanceMaps DEF Contract!Next
    <2>3. QED
      BY <2>1, <2>2
  <1>9. ASSUME NEW o \in Orders, expireOne(o)
        PROVE  Contract!Next \/ UNCHANGED Contract!vars
    <2>1. CASE stillExpired(o)
      <3>1. PaymentRetryable(orders[o]) /\ orders[o] \in OrderRow
        BY <2>1 DEF stillExpired, unpaidExpiredCond, IInv, TypeOK
      <3>2. Contract!Return(o)
        BY <1>9, <2>1, <3>1, CancelUnpaidReturns DEF expireOne
      <3>3. QED
        BY <3>2 DEF Contract!Next
    <2>2. CASE ~stillExpired(o)
      BY <1>9, <2>2, ViewUnchanged DEF expireOne
    <2>3. QED
      BY <2>1, <2>2
  <1>10. ASSUME NEW o \in Orders, NEW k \in Attempts,
                \/ openSession(o, k) \/ openSessionFails(o, k) \/ compensationFails(o, k)
                \/ bankCapture(o, k) \/ bankRefund(o, k)
         PROVE  UNCHANGED Contract!vars
    BY <1>10, ViewUnchanged
    DEF openSession, openSessionFails, compensationFails, bankCapture, bankRefund, orderVars
  <1>11. ASSUME NEW o \in Orders, notifyCreated(o) \/ Elapse(o)
         PROVE  UNCHANGED Contract!vars
    BY <1>11, ViewUnchanged DEF notifyCreated, Elapse, orderVars
  <1>12. ASSUME NEW p \in Points, NEW v \in Variants, NEW q \in StockLevels, Upsert(p, v, q)
         PROVE  UNCHANGED Contract!vars
    BY <1>12, ViewUnchanged DEF Upsert, orderVars
  <1>13. CASE ExpirePending \/ Crash \/ UNCHANGED vars
    BY <1>13, ViewUnchanged DEF ExpirePending, Crash, orderVars, vars
  <1>14. QED
    BY <1>1, <1>2, <1>3, <1>4, <1>5, <1>7, <1>8, <1>9, <1>10, <1>11, <1>12, <1>13 DEF Next

\* Orders, payments, bank callbacks, retries, the expiry job and crashes
\* together implement the contract on goods and money, for every number of
\* orders, points, variants, attempts and crashes.
THEOREM Refinement == Spec => KeepsContract
  <1>1. Init => Contract!Init
    <2> SUFFICES ASSUME Init PROVE Contract!Init
      OBVIOUS
    <2>1. goodsBar = [o \in Orders |-> "none"]
      BY DEF Init, NoOrder, goodsBar, goodsOf
    <2>2. moneyBar = [o \in Orders |-> "none"]
      BY DEF Init, NoOrder, moneyBar, moneyOf
    <2>3. QED
      BY <2>1, <2>2 DEF Init, Contract!Init
  <1>2. QED
    BY <1>1, Invariant, ContractStep, PTL DEF Spec, KeepsContract, Contract!Spec
=============================================================================
