--------------------------- MODULE MCStaffAccounts ---------------------------
(***************************************************************************)
(* StaffAccounts with two owners (one of them stored in a legacy spelling) *)
(* and a free key.                                                         *)
(***************************************************************************)
EXTENDS StaffAccounts, TLC

row(n, exact, role) == [number |-> n, normalized |-> exact, role |-> role, active |-> TRUE, pw |-> 0]

TwoOwners == (1 :> row("n1", TRUE, "owner")) @@ (2 :> row("n2", FALSE, "owner"))
             @@ (3 :> row("n3", TRUE, "none")) @@ (4 :> row("n3", TRUE, "none"))

ask(kind, id, number) ==
    [kind |-> kind, id |-> id, number |-> number, role |-> "owner", active |-> TRUE,
     newPw |-> FALSE, guess |-> 0]

\* Requests about the first owner's account, and the other owner's deactivation.
ownersAsks == <<
    ask("login", 1, "n1"),
    [ask("login", 1, "n1") EXCEPT !.guess = 3],
    ask("logout", 1, "n1"),
    [ask("edit", 1, "n1") EXCEPT !.role = "manager"],
    [ask("edit", 2, "n2") EXCEPT !.active = FALSE],
    [ask("edit", 1, "n1") EXCEPT !.newPw = TRUE],
    ask("toggle", 1, "n1"),
    ask("reset", 1, "n1"),
    ask("ensureOwner", 1, "n1") >>

\* New accounts: a new number, and one an account has in a legacy spelling.
newAsks == <<
    [ask("create", 3, "n3") EXCEPT !.role = "manager"],
    ask("create", 3, "n2"),
    ask("ensureOwner", 3, "n3"),
    ask("ensureOwner", 3, "n2") >>

triples(asks) ==
    {[r \in Req |-> asks[p[r]]] :
        p \in {q \in [Req -> DOMAIN asks] : q[1] <= q[2] /\ q[2] <= q[3]}}

\* Every triple of either group, up to the order of the requests.
Triples == triples(ownersAsks) \cup triples(newAsks)
=============================================================================
