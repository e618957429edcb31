----------------------------- MODULE OrderRules -----------------------------
(***************************************************************************)
(* The pure rules of an order's life: which status may follow which, which *)
(* payment state lets an order be confirmed, cancelled or paid again, and  *)
(* what a bank callback does to a payment attempt.  Operators only: the    *)
(* modules with state (OrderPayments) build their actions from these.      *)
(*                                                                         *)
(* Sources: internal/orders/{admin,lifecycle,payment}.go,                  *)
(* internal/payments/service.go.                                           *)
(***************************************************************************)

\* orders.status; "none" is an order id no row has been inserted for yet.
OrderStatus == {"placed", "confirmed", "courier_assigned", "delivered", "cancelled"}

PaymentMethod == {"cash_on_delivery", "online_card"}

\* The payment_status enum.  NULL (a cash order) is "null".
PaymentStatus == {"pending", "paid", "failed", "cancelled", "refunded"}

\* What a provider callback may report (ParseCallback never yields a value
\* outside the enum; "pending" is a progress event and changes nothing).
CallbackStatus == PaymentStatus

\* Mutant: a delivered order can still be cancelled.
validStatusTransitionReopens(from, to) ==
    CASE from = "placed"           -> to \in {"confirmed", "cancelled"}
      [] from = "confirmed"        -> to \in {"courier_assigned", "cancelled"}
      [] from = "courier_assigned" -> to \in {"delivered", "cancelled"}
      [] OTHER                     -> from = "delivered" /\ to = "cancelled"

\* The order status machine.
validStatusTransition(from, to) ==
    CASE from = "placed"           -> to \in {"confirmed", "cancelled"}
      [] from = "confirmed"        -> to \in {"courier_assigned", "cancelled"}
      [] from = "courier_assigned" -> to \in {"delivered", "cancelled"}
      [] OTHER                     -> FALSE

\* Cash orders are confirmed freely, online ones only once paid.
paymentAllowsConfirm(ord) ==
    ord.method # "online_card" \/ ord.pay = "paid"

\* Only a 'placed' order that has not been paid online.
customerCanCancel(ord) ==
    /\ ord.status = "placed"
    /\ ~(ord.method = "online_card" /\ ord.pay = "paid")

\* Mutant: a paid order takes another attempt.
PaymentRetryableWhenPaid(ord) ==
    /\ ord.method = "online_card"
    /\ ord.status = "placed"
    /\ ord.pay \in {"pending", "failed", "paid"}

\* An open online order whose payment is pending or declined.
PaymentRetryable(ord) ==
    /\ ord.method = "online_card"
    /\ ord.status = "placed"
    /\ ord.pay \in {"pending", "failed"}

isUnpaidFinal(s) == s \in {"failed", "cancelled"}

\* transition(from, to): the callback changes the attempt ...
transitionApplies(from, to) ==
    \/ from = "pending" /\ to \in {"paid", "failed", "cancelled"}
    \/ from = "paid" /\ to = "refunded"

\* ... or is a harmless duplicate or progress event ...
transitionIgnores(from, to) ==
    to = "pending" \/ from = to \/ (isUnpaidFinal(from) /\ isUnpaidFinal(to))

\* ... or contradicts what is recorded.
transitionConflicts(from, to) ==
    ~transitionApplies(from, to) /\ ~transitionIgnores(from, to)

\* "paid" for an attempt already failed or closed, while the order still
\* waits for the money.
lateSuccess(current, to, ord) ==
    to = "paid" /\ isUnpaidFinal(current) /\ PaymentRetryable(ord)
=============================================================================
