----------------------------- MODULE MCOtpLogin -----------------------------
(* Instances of OtpLogin for TLC. *)
EXTENDS OtpLogin

asks(p, i) == [kind |-> "request", phone |-> p, ip |-> i]

tries(p, i, g) == [kind |-> "verify", phone |-> p, ip |-> i, guess |-> g]

\* A customer's phone and the store-review phone: code requests, right,
\* wrong, outdated and review codes, all from one client address.
Logins ==
    {asks(p, "x") : p \in Phones}
    \cup {tries("a", "x", g) : g \in {0, 1}}
    \cup {tries("r", "x", g) : g \in {0, ReviewCode}}
=============================================================================
