---------------------------- MODULE OrderContract ----------------------------
(***************************************************************************)
(* What the shop promises about one order's goods and money, with no       *)
(* attempts, callbacks, jobs or crashes in sight:                          *)
(*   - goods are reserved once and either delivered or returned, never     *)
(*     returned twice and never returned after delivery;                   *)
(*   - goods leave for the customer only on cash or once money was taken;  *)
(*   - money for an order is taken at most once and only while its goods   *)
(*     are still reserved;                                                 *)
(*   - when goods whose money was taken are returned a refund is owed, and *)
(*     a refund is owed otherwise only for money the order did not want.   *)
(* OrderPayments implements this (OrderPayments!Contract).                 *)
(***************************************************************************)
CONSTANT Orders

VARIABLES
    goods,   \* "none", "reserved", "leaving", "delivered" or "returned"
    money,   \* "none", "cash", "due", "taken" or "back"
    owed     \* orders whose customer is owed a refund

vars == <<goods, money, owed>>

Init ==
    /\ goods = [o \in Orders |-> "none"]
    /\ money = [o \in Orders |-> "none"]
    /\ owed = {}

Reserve(o) ==
    /\ goods[o] = "none"
    /\ goods' = [goods EXCEPT ![o] = "reserved"]
    /\ \E m \in {"cash", "due"} : money' = [money EXCEPT ![o] = m]
    /\ UNCHANGED owed

TakeMoney(o) ==
    /\ goods[o] = "reserved"
    /\ money[o] = "due"
    /\ money' = [money EXCEPT ![o] = "taken"]
    /\ UNCHANGED <<goods, owed>>

GiveMoneyBack(o) ==
    /\ money[o] = "taken"
    /\ money' = [money EXCEPT ![o] = "back"]
    /\ UNCHANGED <<goods, owed>>

LetGo(o) ==
    /\ goods[o] = "reserved"
    /\ money[o] \in {"cash", "taken"}
    /\ goods' = [goods EXCEPT ![o] = "leaving"]
    /\ UNCHANGED <<money, owed>>

Deliver(o) ==
    /\ goods[o] = "leaving"
    /\ goods' = [goods EXCEPT ![o] = "delivered"]
    /\ UNCHANGED <<money, owed>>

Return(o) ==
    /\ goods[o] \in {"reserved", "leaving"}
    /\ goods' = [goods EXCEPT ![o] = "returned"]
    /\ owed' = IF money[o] = "taken" THEN owed \cup {o} ELSE owed
    /\ UNCHANGED money

\* Money the order has no use for: its goods are back on the shelf, or it
\* was paid before.
OweRefund(o) ==
    /\ goods[o] = "returned" \/ money[o] \in {"taken", "back"}
    /\ owed' = owed \cup {o}
    /\ UNCHANGED <<goods, money>>

Next ==
    \E o \in Orders :
        \/ Reserve(o) \/ TakeMoney(o) \/ GiveMoneyBack(o) \/ LetGo(o)
        \/ Deliver(o) \/ Return(o) \/ OweRefund(o)

Spec == Init /\ [][Next]_vars
=============================================================================
