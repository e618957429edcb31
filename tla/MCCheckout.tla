----------------------------- MODULE MCCheckout -----------------------------
(* Instances of Checkout for TLC. *)
EXTENDS Checkout

VARIABLE part   \* which requests this behaviour has

\* Variant order and product order disagree.
crossed == [v \in {1, 2} |-> 3 - v]

Cart(a, b) == [v \in {1, 2} |-> IF v = 1 THEN a ELSE b]

order(c, k, cart, p) == [kind |-> "checkout", customer |-> c, key |-> k, cart |-> cart, pickup |-> p]

cancels == [kind : {"cancel", "abort"}, order : Req]

\* Double submits of one customer, another customer, aborted orders.
Submits ==
    {order(1, "k", Cart(1, 1), 1), order(1, "k", Cart(2, 1), 0), order(2, NoKey, Cart(1, 1), 2)} \cup cancels

\* Two customers after the same goods, with staff edits of the same shelf.
Shelf ==
    {order(1, NoKey, Cart(2, 1), 0), order(2, NoKey, Cart(1, 1), 1),
     [kind |-> "cancel", order |-> 1],
     [kind |-> "import", point |-> 1, file |-> <<2, 1>>, qty |-> 1],
     [kind |-> "form", point |-> 1, file |-> <<2, 1>>, qty |-> 1]}

deletion(c) == [kind |-> "deleteCustomer", customer |-> c]

\* Checkouts, staff and the deletion of the customer who has goods delivered
\* in each other's way.
Crowd == Shelf \cup {deletion(1)}

\* A delivery to the saved address and a pickup, and the end of both accounts.
Farewell == {order(1, NoKey, Cart(2, 1), 0), order(2, NoKey, Cart(1, 1), 1), deletion(1), deletion(2)}

Everything == Submits \cup Crowd

sends == [submits |-> Submits, crowd |-> Crowd, farewell |-> Farewell]

PartInit == Init /\ part \in {s \in DOMAIN sends : sends[s] \subseteq Inputs}

PartNext ==
    /\ Next
    /\ \A q \in Req : input'[q] \in {input[q]} \cup sends[part]
    /\ UNCHANGED part

PartSpec == PartInit /\ [][PartNext]_<<vars, part>> /\ Fairness
=============================================================================
