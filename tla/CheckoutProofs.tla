--------------------------- MODULE CheckoutProofs ---------------------------
(***************************************************************************)
(* Proofs about Checkout for any number of requests, customers, shelves    *)
(* and variants.                                                           *)
(*                                                                         *)
(* The inductive invariant is what each transaction may rely on because of *)
(* the locks it holds.  A lock has one holder (Exclusive); what a          *)
(* transaction will write it has locked or will lock (Covers), in one      *)
(* global order if it is a customer's (Ordered); and what it read under a  *)
(* lock is still true (CheckoutReads, CancelReads, FormReads), since only  *)
(* a commit changes a row and a commit holds the locks of its rows.        *)
(***************************************************************************)
EXTENDS Checkout, FiniteLemmas

-----------------------------------------------------------------------------
(* Locks and their order.                                                   *)

Locks ==
    {CustomerLock(c) : c \in Customers} \cup {NumberLock} \cup {CustomerRow(c) : c \in Customers}
    \cup {OrderRow(o) : o \in Req} \cup {StockRow(p, v) : p \in Points, v \in Variants}
    \cup {SalesRow(m) : m \in Products}

Rank(r) ==
    CASE r[1] = "order_customer" -> 1
      [] r[1] = "orders"         -> 2
      [] r[1] = "stock"          -> 3
      [] r[1] = "order_number"   -> 4
      [] r[1] = "customers"      -> 5
      [] r[1] = "product_sales"  -> 6

\* A transaction that holds r may ask for s.
Before(r, s) ==
    \/ Rank(r) < Rank(s)
    \/ r[1] = "stock" /\ s[1] = "stock" /\ r[2] = s[2] /\ r[3] < s[3]
    \/ r[1] = "product_sales" /\ s[1] = "product_sales" /\ r[2] < s[2]

Increasing(s) == \A i, j \in DOMAIN s : i < j => Before(s[i], s[j])

\* The locks a plan still has to take.
Elems(s) == {s[i] : i \in DOMAIN s}

-----------------------------------------------------------------------------
CheckoutInputs == [kind : {"checkout"}, customer : Customers, key : Keys \cup {NoKey},
                   cart : [Variants -> Nat], pickup : Points \cup {0}]
CancelInputs == [kind : {"cancel", "abort"}, order : Req]
StaffInputs == [kind : {"import", "form"}, point : Points, file : Seq(Variants), qty : Nat]
DeletionInputs == [kind : {"deleteCustomer"}, customer : Customers]

Orders == [customer : Customers \cup {0}, key : Keys \cup {NoKey}, items : [Variants -> Nat],
           point : Points \cup {0}, delivery : BOOLEAN, number : Nat, status : {"none", "open", "cancelled"}, fresh : BOOLEAN]

Shelves == [Points -> [Variants -> Int]]

Types ==
    /\ pc \in [Req -> {"idle", "running", "committed", "replayed", "failed"}]
    /\ input \in [Req -> Inputs \cup {[kind |-> "none"]}]
    /\ plan \in [Req -> Seq(Locks)]
    /\ held \in [Req -> SUBSET Locks]
    /\ point \in [Req -> Points \cup {0}]
    /\ stale \in [Req -> Req \cup {0}]
    /\ seen \in [Req -> [Variants -> Int]]
    /\ number \in [Req -> Nat]
    /\ orders \in [Req -> Orders]
    /\ stock \in Shelves /\ adjusted \in Shelves
    /\ sales \in [Products -> Int]

kind(q) == input[q].kind
Runs(q, kinds) == pc[q] = "running" /\ kind(q) \in kinds
Admitted(q) == pc[q] = "running" /\ q \in admitted

Exclusive == \A q, t \in Req, r \in Locks : r \in held[q] /\ r \in held[t] => q = t

\* Where a request is says what it holds and whether its order exists.
Phases(q) ==
    /\ pc[q] = "running" => input[q] \in Inputs
    /\ pc[q] # "running" => held[q] = {} /\ plan[q] = <<>>
    /\ pc[q] = "idle" => q \notin clash
    /\ q \in admitted => pc[q] # "idle" /\ kind(q) = "checkout" /\ point[q] \in Points
    /\ orders[q].status # "none" => pc[q] = "committed" /\ orders[q].point \in Points

\* The rows a transaction will write or has counted on.
Covers(q) ==
    LET mine == Elems(plan[q]) \cup held[q] IN
    /\ Runs(q, {"checkout"}) => CustomerLock(input[q].customer) \in mine
    /\ Admitted(q) =>
        /\ CustomerLock(input[q].customer) \in held[q]
        /\ NumberLock \in mine
        /\ \A v \in lines(input[q].cart) : StockRow(point[q], v) \in mine
    /\ Runs(q, {"cancel", "abort"}) =>
        LET o == input[q].order IN
        /\ orders[o].status # "none"
        /\ OrderRow(o) \in mine
        /\ \A v \in lines(orders[o].items) : StockRow(orders[o].point, v) \in mine
    /\ Runs(q, {"import"}) \/ (Runs(q, {"form"}) /\ q \notin clash) =>
        \A v \in fileVariants(q) : StockRow(input[q].point, v) \in mine

\* Customers' requests take their locks in one order.
Ordered(q) ==
    Runs(q, {"checkout", "cancel", "abort", "deleteCustomer"}) =>
        /\ Increasing(plan[q])
        /\ \A r \in held[q], s \in Elems(plan[q]) : Before(r, s)
        /\ kind(q) = "checkout" /\ q \notin admitted =>
               Elems(plan[q]) \cup held[q] \subseteq {CustomerLock(input[q].customer)}

\* What createOrder read is still so: the key is not taken, the customer may
\* order, the goods are there, the number is the next one.
OpenOf(c) == {o \in OpenOrders : orders[o].customer = c}

CheckoutReads(q) ==
    Admitted(q) =>
        /\ \A o \in withKey(input[q].customer, input[q].key) : o = stale[q]
        /\ Cardinality(OpenOf(input[q].customer)) < MaxOpenOrders
        /\ NumberLock \in held[q] => number[q] = Cardinality(OrderIds) + 1
        /\ \A v \in lines(input[q].cart) :
               StockRow(point[q], v) \in held[q] => stock[point[q]][v] >= input[q].cart[v]

CancelReads(q) ==
    Runs(q, {"cancel", "abort"}) /\ OrderRow(input[q].order) \in held[q] =>
        orders[input[q].order].status = "open"

FormReads(q) ==
    Runs(q, {"form"}) /\ q \notin clash =>
        \A v \in fileVariants(q) :
            StockRow(input[q].point, v) \in held[q] => stock[input[q].point][v] = seen[q][v]

Request(q) == Phases(q) /\ Covers(q) /\ Ordered(q) /\ CheckoutReads(q) /\ CancelReads(q) /\ FormReads(q)

IInv == Types /\ Exclusive /\ (\A q \in Req : Request(q)) /\ SubmitsSettle /\ StockFollowsOrders

-----------------------------------------------------------------------------
(***************************************************************************)
(* Sequences of locks.                                                     *)
(***************************************************************************)
LEMMA TailElems ==
    ASSUME NEW X, NEW s \in Seq(X), s # <<>>
    PROVE  /\ Tail(s) \in Seq(X) /\ Head(s) \in X
           /\ Elems(s) = {Head(s)} \cup Elems(Tail(s))
           /\ Increasing(s) => Increasing(Tail(s)) /\ \A e \in Elems(Tail(s)) : Before(Head(s), e)
<1>1. Len(s) \in Nat /\ Len(s) >= 1 /\ DOMAIN s = 1..Len(s) /\ Head(s) = s[1]
  OBVIOUS
<1>2. Tail(s) \in Seq(X) /\ Head(s) \in X
  OBVIOUS
<1>3. DOMAIN Tail(s) = 1..(Len(s) - 1) /\ \A i \in 1..(Len(s) - 1) : Tail(s)[i] = s[i + 1]
  OBVIOUS
<1>4. Elems(s) = {Head(s)} \cup Elems(Tail(s))
  <2>1. ASSUME NEW x \in Elems(s) PROVE x = Head(s) \/ x \in Elems(Tail(s))
    <3>1. PICK i \in 1..Len(s) : x = s[i]
      BY <1>1 DEF Elems
    <3>2. i = 1 \/ (i - 1 \in 1..(Len(s) - 1) /\ i = (i - 1) + 1)
      BY <1>1
    <3> QED BY <1>1, <1>3, <3>1, <3>2 DEF Elems
  <2>2. ASSUME NEW x \in Elems(Tail(s)) PROVE x \in Elems(s)
    <3>1. PICK i \in 1..(Len(s) - 1) : x = s[i + 1]
      BY <1>3 DEF Elems
    <3>2. i + 1 \in 1..Len(s)
      BY <1>1
    <3> QED BY <1>1, <3>1, <3>2 DEF Elems
  <2>3. Head(s) \in Elems(s)
    BY <1>1 DEF Elems
  <2> QED BY <2>1, <2>2, <2>3
<1>5. ASSUME Increasing(s)
      PROVE  Increasing(Tail(s)) /\ \A e \in Elems(Tail(s)) : Before(Head(s), e)
  <2>1. \A i, j \in 1..Len(s) : i < j => Before(s[i], s[j])
    BY <1>1, <1>5 DEF Increasing
  <2>2. \A i \in 1..(Len(s) - 1) : i + 1 \in 1..Len(s) /\ 1 < i + 1
    BY <1>1
  <2>3. \A i, j \in 1..(Len(s) - 1) : i < j => i + 1 < j + 1
    OBVIOUS
  <2>4. Increasing(Tail(s))
    BY <1>3, <2>1, <2>2, <2>3 DEF Increasing
  <2>5. \A i \in 1..(Len(s) - 1) : Before(s[1], s[i + 1])
    BY <1>1, <2>1, <2>2
  <2> QED BY <1>1, <1>3, <2>4, <2>5 DEF Elems
<1> QED BY <1>2, <1>4, <1>5

LEMMA ConcatElems ==
    ASSUME NEW X, NEW a \in Seq(X), NEW b \in Seq(X)
    PROVE  /\ a \o b \in Seq(X)
           /\ Elems(a \o b) = Elems(a) \cup Elems(b)
           /\ Increasing(a) /\ Increasing(b) /\ (\A x \in Elems(a), y \in Elems(b) : Before(x, y))
                => Increasing(a \o b)
<1> DEFINE n == Len(a)
           k == Len(b)
           c == a \o b
<1>1. n \in Nat /\ k \in Nat /\ DOMAIN a = 1..n /\ DOMAIN b = 1..k
  OBVIOUS
<1>2. c \in Seq(X) /\ DOMAIN c = 1..(n + k)
  OBVIOUS
<1>3. \A i \in 1..(n + k) : c[i] = IF i <= n THEN a[i] ELSE b[i - n]
  OBVIOUS
<1> HIDE DEF c, n, k
<1>4. \A i \in 1..(n + k) : i <= n => i \in 1..n
  BY <1>1
<1>5. \A i \in 1..(n + k) : ~(i <= n) => i - n \in 1..k
  BY <1>1
<1>6. Elems(c) = Elems(a) \cup Elems(b)
  <2>1. ASSUME NEW x \in Elems(c) PROVE x \in Elems(a) \cup Elems(b)
    <3>1. PICK i \in 1..(n + k) : x = c[i]
      BY <1>2 DEF Elems
    <3> QED BY <1>1, <1>3, <1>4, <1>5, <3>1 DEF Elems
  <2>2. ASSUME NEW x \in Elems(a) PROVE x \in Elems(c)
    <3>1. PICK i \in 1..n : x = a[i]
      BY <1>1 DEF Elems
    <3>2. i \in 1..(n + k) /\ i <= n
      BY <1>1
    <3> QED BY <1>2, <1>3, <3>1, <3>2 DEF Elems
  <2>3. ASSUME NEW x \in Elems(b) PROVE x \in Elems(c)
    <3>1. PICK i \in 1..k : x = b[i]
      BY <1>1 DEF Elems
    <3>2. n + i \in 1..(n + k) /\ ~(n + i <= n) /\ (n + i) - n = i
      BY <1>1
    <3>3. c[n + i] = b[i]
      BY <1>3, <3>2
    <3> QED BY <1>2, <3>1, <3>2, <3>3 DEF Elems
  <2> QED BY <2>1, <2>2, <2>3
<1>7. ASSUME Increasing(a), Increasing(b), \A x \in Elems(a), y \in Elems(b) : Before(x, y)
      PROVE  Increasing(c)
  <2> SUFFICES ASSUME NEW i \in 1..(n + k), NEW j \in 1..(n + k), i < j PROVE Before(c[i], c[j])
    BY <1>2 DEF Increasing
  <2>1. CASE j <= n
    <3>1. i \in 1..n /\ j \in 1..n /\ c[i] = a[i] /\ c[j] = a[j]
      BY <1>1, <1>3, <2>1
    <3> QED BY <1>1, <1>7, <3>1 DEF Increasing
  <2>2. CASE ~(i <= n)
    <3>1. i - n \in 1..k /\ j - n \in 1..k /\ i - n < j - n /\ ~(j <= n)
      BY <1>1, <2>2
    <3>2. c[i] = b[i - n] /\ c[j] = b[j - n]
      BY <1>3, <2>2, <3>1
    <3> QED BY <1>1, <1>7, <3>1, <3>2 DEF Increasing
  <2>3. CASE i <= n /\ ~(j <= n)
    <3>1. i \in 1..n /\ j - n \in 1..k /\ c[i] = a[i] /\ c[j] = b[j - n]
      BY <1>3, <1>4, <1>5, <2>3
    <3> QED BY <1>1, <1>7, <3>1 DEF Elems
  <2> QED BY <1>1, <2>1, <2>2, <2>3
<1> QED BY <1>2, <1>6, <1>7 DEF c

LEMMA OneElem ==
    ASSUME NEW r
    PROVE  Elems(<<r>>) = {r} /\ Increasing(<<r>>) /\ Elems(<<>>) = {} /\ Increasing(<<>>)
<1>1. DOMAIN <<r>> = {1} /\ <<r>>[1] = r /\ DOMAIN <<>> = {}
  OBVIOUS
<1> QED BY <1>1 DEF Elems, Increasing

LEMMA Sorted ==
    ASSUME NEW S, IsFiniteSet(S), S \subseteq Nat
    PROVE  /\ sorted(S) \in Seq(S) /\ Elems(sorted(S)) = S
           /\ \A i, j \in DOMAIN sorted(S) : i < j => sorted(S)[i] < sorted(S)[j]
<1>1. /\ sorted(S) \in [1..Cardinality(S) -> S]
      /\ \A i, j \in DOMAIN sorted(S) : i < j => sorted(S)[i] < sorted(S)[j]
      /\ \A x \in S : \E i \in DOMAIN sorted(S) : sorted(S)[i] = x
  BY Ascending DEF sorted
<1>2. Cardinality(S) \in Nat
  BY FS_CardinalityType
<1>3. sorted(S) \in Seq(S)
  BY <1>1, <1>2
<1>4. Elems(sorted(S)) = S
  BY <1>1 DEF Elems
<1> QED BY <1>1, <1>3, <1>4

\* Ranks are numbers, and Before is a strict order.
LEMMA Ranks ==
    /\ \A c : CustomerLock(c)[1] = "order_customer" /\ Rank(CustomerLock(c)) = 1
    /\ \A o : OrderRow(o)[1] = "orders" /\ OrderRow(o)[2] = o /\ Rank(OrderRow(o)) = 2
    /\ \A p, v : StockRow(p, v)[1] = "stock" /\ StockRow(p, v)[2] = p /\ StockRow(p, v)[3] = v
                 /\ Rank(StockRow(p, v)) = 3
    /\ NumberLock[1] = "order_number" /\ Rank(NumberLock) = 4
    /\ \A c : CustomerRow(c)[1] = "customers" /\ CustomerRow(c)[2] = c /\ Rank(CustomerRow(c)) = 5
    /\ \A m : SalesRow(m)[1] = "product_sales" /\ SalesRow(m)[2] = m /\ Rank(SalesRow(m)) = 6
BY DEF CustomerLock, OrderRow, StockRow, NumberLock, CustomerRow, SalesRow, Rank

LEMMA LockKinds ==
    ASSUME NEW r \in Locks
    PROVE  /\ Rank(r) \in 1..6
           /\ r[1] = "stock" => Rank(r) = 3 /\ r[3] \in Nat
           /\ r[1] = "product_sales" => Rank(r) = 6 /\ r[2] \in Nat
<1>1. CASE \E c \in Customers : r = CustomerLock(c) \/ r = CustomerRow(c)
  BY <1>1, Ranks
<1>2. CASE r = NumberLock \/ \E o \in Req : r = OrderRow(o)
  BY <1>2, Ranks
<1>3. CASE \E p \in Points, v \in Variants : r = StockRow(p, v)
  BY <1>3, Ranks, NumberedAssumption
<1>4. CASE \E m \in Products : r = SalesRow(m)
  BY <1>4, Ranks, NumberedAssumption
<1> QED BY <1>1, <1>2, <1>3, <1>4 DEF Locks

LEMMA BeforeOrder ==
    ASSUME NEW r \in Locks, NEW s \in Locks, NEW t \in Locks
    PROVE  ~Before(r, r) /\ (Before(r, s) /\ Before(s, t) => Before(r, t))
BY LockKinds DEF Before

-----------------------------------------------------------------------------
(***************************************************************************)
(* What the transactions plan to lock.                                     *)
(***************************************************************************)
LEMMA LinesFinite ==
    ASSUME NEW cart
    PROVE  lines(cart) \in SUBSET Variants /\ IsFiniteSet(lines(cart)) /\ lines(cart) \subseteq Nat
<1>1. lines(cart) \in SUBSET Variants
  BY DEF lines
<1> QED BY <1>1, NumberedAssumption, FS_Subset

LEMMA StockPlan ==
    ASSUME NEW p \in Points, NEW cart
    PROVE  /\ stockRows(p, cart) \in Seq(Locks) /\ Increasing(stockRows(p, cart))
           /\ Elems(stockRows(p, cart)) = {StockRow(p, v) : v \in lines(cart)}
<1> DEFINE S == lines(cart)
           s == sorted(S)
           t == [i \in DOMAIN s |-> StockRow(p, s[i])]
<1>0. stockRows(p, cart) = t
  BY DEF stockRows, map, lockOrder
<1>1. S \in SUBSET Variants /\ IsFiniteSet(S) /\ S \subseteq Nat
  BY LinesFinite
<1> HIDE DEF S
<1>2. s \in Seq(S) /\ Elems(s) = S /\ \A i, j \in DOMAIN s : i < j => s[i] < s[j]
  BY <1>1, Sorted
<1> HIDE DEF s
<1>3. DOMAIN s = 1..Len(s) /\ Len(s) \in Nat /\ \A i \in DOMAIN s : s[i] \in S
  BY <1>2
<1>4. \A v \in S : StockRow(p, v) \in Locks
  BY <1>1 DEF Locks
<1>5. t \in Seq(Locks)
  <2>1. t \in [1..Len(s) -> Locks]
    BY <1>3, <1>4
  <2> QED BY <1>3, <2>1
<1>6. Elems(t) = {StockRow(p, v) : v \in S}
  <2>1. Elems(t) = {StockRow(p, s[i]) : i \in DOMAIN s}
    BY DEF Elems
  <2>2. \A v \in S : \E i \in DOMAIN s : s[i] = v
    BY <1>2 DEF Elems
  <2> QED BY <1>3, <2>1, <2>2
<1>7. Increasing(t)
  BY <1>2, Ranks DEF Increasing, Before
<1> QED BY <1>0, <1>5, <1>6, <1>7 DEF S

LEMMA SalesPlan ==
    ASSUME NEW cart
    PROVE  /\ salesRows(cart) \in Seq(Locks) /\ Increasing(salesRows(cart))
           /\ \A r \in Elems(salesRows(cart)) : Rank(r) = 6
<1> DEFINE S == {productOf[v] : v \in lines(cart)}
           s == sorted(S)
           t == [i \in DOMAIN s |-> SalesRow(s[i])]
<1>0. salesRows(cart) = t
  BY DEF salesRows, map
<1>1. S \in SUBSET Products /\ S \subseteq Nat
  BY LinesFinite, ProductAssumption, NumberedAssumption
<1>2. IsFiniteSet(S)
  <2> DEFINE f == [v \in lines(cart) |-> productOf[v]]
  <2>1. f \in Surjection(lines(cart), S)
    BY DEF Surjection
  <2> HIDE DEF f, S
  <2> QED BY <2>1, LinesFinite, FS_Surjection
<1> HIDE DEF S
<1>3. s \in Seq(S) /\ Elems(s) = S /\ \A i, j \in DOMAIN s : i < j => s[i] < s[j]
  BY <1>1, <1>2, Sorted
<1> HIDE DEF s
<1>4. DOMAIN s = 1..Len(s) /\ Len(s) \in Nat /\ \A i \in DOMAIN s : s[i] \in S
  BY <1>3
<1>5. \A m \in S : SalesRow(m) \in Locks
  BY <1>1 DEF Locks
<1>6. t \in Seq(Locks)
  <2>1. t \in [1..Len(s) -> Locks]
    BY <1>4, <1>5
  <2> QED BY <1>4, <2>1
<1>7. \A r \in Elems(t) : Rank(r) = 6
  BY Ranks DEF Elems
<1>8. Increasing(t)
  BY <1>3, Ranks DEF Increasing, Before
<1> QED BY <1>0, <1>6, <1>7, <1>8

\* A plan whose locks have ranks l to h.
Within(s, l, h) == s \in Seq(Locks) /\ Increasing(s) /\ \A r \in Elems(s) : l <= Rank(r) /\ Rank(r) <= h

LEMMA WithinConcat ==
    ASSUME NEW a, NEW b, NEW l \in Nat, NEW h \in Nat, NEW k \in Nat, NEW n \in Nat,
           Within(a, l, h), Within(b, k, n), h < k, l <= k, h <= n
    PROVE  Within(a \o b, l, n) /\ Elems(a \o b) = Elems(a) \cup Elems(b)
<1>1. a \in Seq(Locks) /\ b \in Seq(Locks) /\ Increasing(a) /\ Increasing(b)
  BY DEF Within
<1>2. a \o b \in Seq(Locks) /\ Elems(a \o b) = Elems(a) \cup Elems(b)
  BY <1>1, ConcatElems
<1>3. \A x \in Elems(a) \cup Elems(b) : x \in Locks /\ Rank(x) \in Nat
  <2>1. Elems(a) \subseteq Locks /\ Elems(b) \subseteq Locks
    BY <1>1 DEF Elems
  <2> QED BY <2>1, LockKinds
<1>4. /\ \A x \in Elems(a) : l <= Rank(x) /\ Rank(x) <= h
      /\ \A x \in Elems(b) : k <= Rank(x) /\ Rank(x) <= n
  BY DEF Within
<1>5. \A x \in Elems(a), y \in Elems(b) : Before(x, y)
  BY <1>3, <1>4 DEF Before
<1>6. Increasing(a \o b)
  BY <1>1, <1>5, ConcatElems
<1>7. \A x \in Elems(a) \cup Elems(b) : l <= Rank(x) /\ Rank(x) <= n
  BY <1>3, <1>4
<1> QED BY <1>2, <1>6, <1>7 DEF Within

LEMMA WithinOne ==
    ASSUME NEW r \in Locks
    PROVE  Within(<<r>>, Rank(r), Rank(r)) /\ Elems(<<r>>) = {r}
<1>1. <<r>> \in Seq(Locks) /\ Rank(r) \in Nat
  BY LockKinds
<1> QED BY <1>1, OneElem DEF Within

LEMMA CheckoutPlan ==
    ASSUME NEW q, input[q].customer \in Customers, NEW p \in Points, NEW o \in Req \cup {0}
    PROVE  /\ Within(checkoutPlan(q, p, o), 2, 6)
           /\ NumberLock \in Elems(checkoutPlan(q, p, o))
           /\ \A v \in lines(input[q].cart) : StockRow(p, v) \in Elems(checkoutPlan(q, p, o))
<1> DEFINE cart == input[q].cart
           c == input[q].customer
           s1 == IF o = 0 THEN <<>> ELSE <<OrderRow(o)>>
           s2 == stockRows(p, cart)
           s3 == <<NumberLock, CustomerRow(c)>>
           s4 == salesRows(cart)
<1>0. NumberLock \in Locks /\ CustomerRow(c) \in Locks /\ (o # 0 => OrderRow(o) \in Locks)
  BY DEF Locks
<1>1. Within(s1, 2, 2)
  <2>1. CASE o = 0
    <3>1. s1 = <<>> /\ <<>> \in Seq(Locks)
      BY <2>1
    <3> HIDE DEF s1
    <3> QED BY <3>1, OneElem DEF Within
  <2>2. CASE o # 0
    <3>1. Rank(OrderRow(o)) = 2
      BY Ranks
    <3> QED BY <1>0, <2>2, <3>1, WithinOne
  <2> QED BY <2>1, <2>2
<1>2. Within(s2, 3, 3) /\ Elems(s2) = {StockRow(p, v) : v \in lines(cart)}
  BY StockPlan, Ranks DEF Within
<1>3. Within(s3, 4, 5) /\ Elems(s3) = {NumberLock} \cup {CustomerRow(c)}
  <2>1. s3 = <<NumberLock>> \o <<CustomerRow(c)>>
    OBVIOUS
  <2>2. Within(<<NumberLock>>, 4, 4) /\ Elems(<<NumberLock>>) = {NumberLock}
    BY <1>0, WithinOne, Ranks
  <2>3. Within(<<CustomerRow(c)>>, 5, 5) /\ Elems(<<CustomerRow(c)>>) = {CustomerRow(c)}
    BY <1>0, WithinOne, Ranks
  <2> HIDE DEF s3
  <2> QED BY <2>1, <2>2, <2>3, WithinConcat
<1>4. Within(s4, 6, 6)
  BY SalesPlan DEF Within
<1>5. checkoutPlan(q, p, o) = ((s1 \o s2) \o s3) \o s4
  BY DEF checkoutPlan
<1> HIDE DEF s1, s2, s3, s4, cart
<1>6. Within(s1 \o s2, 2, 3) /\ Elems(s1 \o s2) = Elems(s1) \cup Elems(s2)
  BY <1>1, <1>2, WithinConcat
<1>7. Within((s1 \o s2) \o s3, 2, 5) /\ Elems((s1 \o s2) \o s3) = Elems(s1 \o s2) \cup Elems(s3)
  BY <1>6, <1>3, WithinConcat
<1>8. Within(((s1 \o s2) \o s3) \o s4, 2, 6)
      /\ Elems(((s1 \o s2) \o s3) \o s4) = Elems((s1 \o s2) \o s3) \cup Elems(s4)
  BY <1>7, <1>4, WithinConcat
<1> QED BY <1>2, <1>3, <1>5, <1>6, <1>7, <1>8 DEF cart

LEMMA CancelPlan ==
    ASSUME NEW o \in Req, orders[o].point \in Points
    PROVE  /\ Within(cancelPlan(o), 2, 6)
           /\ OrderRow(o) \in Elems(cancelPlan(o))
           /\ \A v \in lines(orders[o].items) : StockRow(orders[o].point, v) \in Elems(cancelPlan(o))
<1> DEFINE p == orders[o].point
           cart == orders[o].items
           s1 == <<OrderRow(o)>>
           s2 == stockRows(p, cart)
           s3 == salesRows(cart)
<1>1. Within(s1, 2, 2) /\ Elems(s1) = {OrderRow(o)}
  <2>1. OrderRow(o) \in Locks
    BY DEF Locks
  <2> QED BY <2>1, WithinOne, Ranks
<1>2. Within(s2, 3, 3) /\ Elems(s2) = {StockRow(p, v) : v \in lines(cart)}
  BY StockPlan, Ranks DEF Within
<1>3. Within(s3, 6, 6)
  BY SalesPlan DEF Within
<1>4. cancelPlan(o) = (s1 \o s2) \o s3
  BY DEF cancelPlan
<1> HIDE DEF s1, s2, s3, cart, p
<1>5. Within(s1 \o s2, 2, 3) /\ Elems(s1 \o s2) = Elems(s1) \cup Elems(s2)
  BY <1>1, <1>2, WithinConcat
<1>6. Within((s1 \o s2) \o s3, 2, 6) /\ Elems((s1 \o s2) \o s3) = Elems(s1 \o s2) \cup Elems(s3)
  BY <1>5, <1>3, WithinConcat
<1> QED BY <1>1, <1>2, <1>4, <1>5, <1>6 DEF p, cart

LEMMA InputKinds ==
    ASSUME NEW in \in Inputs
    PROVE  /\ in.kind \in {"checkout", "cancel", "abort", "import", "form", "deleteCustomer"}
           /\ in.kind = "checkout" => in \in CheckoutInputs
           /\ in.kind \in {"cancel", "abort"} => in \in CancelInputs
           /\ in.kind \in {"import", "form"} => in \in StaffInputs
           /\ in.kind = "deleteCustomer" => in \in DeletionInputs
BY InputAssumption DEF CheckoutInputs, CancelInputs, StaffInputs, DeletionInputs

LEMMA FilePlan ==
    ASSUME NEW p \in Points, NEW file \in Seq(Variants)
    PROVE  LET s == map(LAMBDA v : StockRow(p, v), file) IN
           s \in Seq(Locks) /\ \A i \in DOMAIN file : StockRow(p, file[i]) \in Elems(s)
<1> DEFINE s == [i \in DOMAIN file |-> StockRow(p, file[i])]
<1>1. DOMAIN file = 1..Len(file) /\ Len(file) \in Nat /\ \A i \in DOMAIN file : file[i] \in Variants
  OBVIOUS
<1>2. s \in [1..Len(file) -> Locks]
  BY <1>1 DEF Locks
<1>3. s \in Seq(Locks)
  BY <1>1, <1>2
<1>4. \A i \in DOMAIN file : StockRow(p, file[i]) \in Elems(s)
  BY DEF Elems
<1> QED BY <1>3, <1>4 DEF map

-----------------------------------------------------------------------------
(***************************************************************************)
(* Requests and tables.                                                    *)
(***************************************************************************)
LEMMA OrderFields ==
    ASSUME NEW r \in Orders
    PROVE  /\ r.items \in [Variants -> Nat] /\ r.number \in Nat /\ r.point \in Points \cup {0}
           /\ r.status \in {"none", "open", "cancelled"}
BY DEF Orders

LEMMA IdsFinite ==
    /\ OrderIds \in SUBSET Req /\ IsFiniteSet(OrderIds) /\ Cardinality(OrderIds) \in Nat
    /\ OpenOrders \in SUBSET Req /\ IsFiniteSet(OpenOrders)
    /\ \A c : IsFiniteSet(OpenOf(c)) /\ Cardinality(OpenOf(c)) \in Nat
<1>1. OrderIds \in SUBSET Req /\ OpenOrders \in SUBSET Req /\ \A c : OpenOf(c) \in SUBSET Req
  BY DEF OrderIds, OpenOrders, OpenOf
<1> QED BY <1>1, NumberedAssumption, FS_Subset, FS_CardinalityType

LEMMA UnitsNat ==
    ASSUME NEW m, NEW items \in [Variants -> Nat]
    PROVE  units(m, items) \in Nat
<1> DEFINE f == [v \in Variants |-> IF productOf[v] = m THEN items[v] ELSE 0]
<1>1. \A v \in Variants : f[v] \in Nat
  OBVIOUS
<1> HIDE DEF f
<1>2. SumFunctionOnSet(f, Variants) \in Nat
  BY <1>1, NumberedAssumption, SumNat
<1> QED BY <1>2 DEF units, f

\* t's own part of the state does not change.
Rests(t) ==
    /\ pc'[t] = pc[t] /\ input'[t] = input[t] /\ plan'[t] = plan[t] /\ held'[t] = held[t]
    /\ point'[t] = point[t] /\ stale'[t] = stale[t] /\ seen'[t] = seen[t] /\ number'[t] = number[t]
    /\ (t \in admitted' <=> t \in admitted) /\ (t \in clash' <=> t \in clash)

\* What a writer that holds the locks H may do to the tables.
Writes(H) ==
    /\ \A o \in Req : orders[o].status # "none" =>
           /\ orders'[o].status # "none" /\ orders'[o].point = orders[o].point
           /\ orders'[o].items = orders[o].items
    /\ \A o \in Req : orders[o].status = "open" /\ orders'[o].status # "open" => OrderRow(o) \in H
    /\ \A p \in Points, v \in Variants : StockRow(p, v) \notin H => stock'[p][v] = stock[p][v]
    /\ \A c \in Customers : CustomerLock(c) \notin H =>
           /\ OpenOf(c)' \subseteq OpenOf(c)
           /\ \A k \in Keys \cup {NoKey} : withKey(c, k)' \subseteq withKey(c, k)
    /\ NumberLock \notin H => OrderIds' = OrderIds

\* A request that does not share a lock with the writer can still rely on
\* what it read.
LEMMA Undisturbed ==
    ASSUME Types, NEW t \in Req, Request(t), NEW H, Writes(H), Rests(t),
           \A r \in held[t] : r \notin H,
           orders'[t].status # "none" => orders[t].status # "none"
    PROVE  Request(t)'
<1> USE DEF Rests, Request
<1>1. Runs(t, {"checkout"})' = Runs(t, {"checkout"}) /\ Runs(t, {"form"})' = Runs(t, {"form"})
      /\ Runs(t, {"import"})' = Runs(t, {"import"}) /\ Admitted(t)' = Admitted(t)
      /\ Runs(t, {"cancel", "abort"})' = Runs(t, {"cancel", "abort"})
      /\ fileVariants(t)' = fileVariants(t) /\ Elems(plan[t])' = Elems(plan[t])
      /\ Increasing(plan[t])' = Increasing(plan[t])
  BY DEF Runs, Admitted, kind, fileVariants, Elems, Increasing
<1>2. pc[t] = "running" => input[t] \in Inputs
  BY DEF Phases
<1>3. Phases(t)'
  BY DEF Phases, kind, Writes
<1>4. Runs(t, {"cancel", "abort"}) => input[t].order \in Req
  BY <1>2, InputKinds DEF Runs, kind, CancelInputs
<1>5. Covers(t)'
  <2>1. Runs(t, {"cancel", "abort"}) =>
           LET o == input[t].order IN
           orders[o].status # "none" /\ orders'[o].status # "none"
           /\ orders'[o].point = orders[o].point /\ orders'[o].items = orders[o].items
    BY <1>4 DEF Covers, Writes
  <2> QED BY <1>1, <2>1 DEF Covers
<1>6. Ordered(t)'
  BY <1>1 DEF Ordered, Runs, kind
<1>7. ASSUME Admitted(t)
      PROVE  /\ input[t].customer \in Customers /\ input[t].key \in Keys \cup {NoKey}
             /\ point[t] \in Points /\ CustomerLock(input[t].customer) \in held[t]
  BY <1>2, <1>7, InputKinds DEF Admitted, Phases, Covers, CheckoutInputs, kind
<1>8. CheckoutReads(t)'
  <2> SUFFICES ASSUME Admitted(t)
               PROVE  /\ \A o \in withKey(input[t].customer, input[t].key)' : o = stale[t]
                      /\ Cardinality(OpenOf(input[t].customer)') < MaxOpenOrders
                      /\ NumberLock \in held[t] => number[t] = Cardinality(OrderIds') + 1
                      /\ \A v \in lines(input[t].cart) :
                             StockRow(point[t], v) \in held[t] => stock'[point[t]][v] >= input[t].cart[v]
    BY <1>1 DEF CheckoutReads
  <2>1. PICK c \in Customers, k \in Keys \cup {NoKey} : c = input[t].customer /\ k = input[t].key
    BY <1>7
  <2>2. OpenOf(c)' \subseteq OpenOf(c) /\ withKey(c, k)' \subseteq withKey(c, k)
    BY <1>7, <2>1 DEF Writes
  <2>3. OpenOf(input[t].customer)' = OpenOf(c)' /\ withKey(input[t].customer, input[t].key)' = withKey(c, k)'
    BY <2>1 DEF OpenOf, withKey
  <2>4. Cardinality(OpenOf(c)') <= Cardinality(OpenOf(c)) /\ Cardinality(OpenOf(c)') \in Nat
    BY <2>2, IdsFinite, FS_Subset, FS_CardinalityType
  <2>5. Cardinality(OpenOf(c)) < MaxOpenOrders /\ Cardinality(OpenOf(c)) \in Nat /\ MaxOpenOrders \in Nat
    BY <2>1, IdsFinite, ShelvesAssumption DEF CheckoutReads
  <2>6. Cardinality(OpenOf(c)') < MaxOpenOrders
    BY <2>4, <2>5
  <2>7. NumberLock \in held[t] => OrderIds' = OrderIds
    BY DEF Writes
  <2>8. \A v \in lines(input[t].cart) : StockRow(point[t], v) \in held[t] => stock'[point[t]][v] = stock[point[t]][v]
    BY <1>7, LinesFinite DEF Writes
  <2> QED BY <2>1, <2>2, <2>3, <2>6, <2>7, <2>8 DEF CheckoutReads
<1>9. CancelReads(t)'
  BY <1>1, <1>4 DEF CancelReads, Writes
<1>10. FormReads(t)'
  <2>1. Runs(t, {"form"}) => input[t].point \in Points /\ fileVariants(t) \subseteq Variants
    BY <1>2, InputKinds DEF Runs, kind, StaffInputs, fileVariants
  <2> QED BY <1>1, <2>1 DEF FormReads, Writes
<1> QED BY <1>3, <1>5, <1>6, <1>8, <1>9, <1>10

-----------------------------------------------------------------------------
(***************************************************************************)
(* Steps that leave the tables alone.                                      *)
(***************************************************************************)
tables == <<orders, stock, sales, adjusted>>

LEMMA UntouchedTables ==
    ASSUME IInv, UNCHANGED tables, Types', Exclusive', \A t \in Req : Rests(t) \/ Request(t)'
    PROVE  IInv'
<1> USE DEF IInv, tables
<1>1. Writes({})
  BY DEF Writes, OpenOf, withKey, OrderIds, OpenOrders
<1>2. \A t \in Req : Request(t)'
  BY <1>1, Undisturbed
<1>3. SubmitsSettle'
  BY DEF SubmitsSettle, OrderIds, OpenOrders
<1>4. StockFollowsOrders'
  BY DEF StockFollowsOrders, taken, sold, OpenOrders
<1> QED BY <1>2, <1>3, <1>4

LEMMA OneMoves ==
    ASSUME IInv, NEW q \in Req, UNCHANGED tables, Types', Exclusive', Request(q)',
           \A t \in Req : t # q => Rests(t)
    PROVE  IInv'
BY UntouchedTables

\* ROLLBACK, or the answer of a replay.
LEMMA Ends ==
    ASSUME IInv, NEW q \in Req, pc[q] = "running", NEW how \in {"failed", "replayed"}, end(q, how),
           UNCHANGED <<input, admitted, point, stale, seen, clash, number, orders, stock, sales, adjusted>>
    PROVE  IInv'
<1> USE DEF IInv
<1>1. /\ pc'[q] = how /\ held'[q] = {} /\ plan'[q] = <<>>
      /\ \A t \in Req : t # q => pc'[t] = pc[t] /\ held'[t] = held[t] /\ plan'[t] = plan[t]
  BY DEF end, Types
<1>2. Types'
  <2>1. pc' \in [Req -> {"idle", "running", "committed", "replayed", "failed"}]
        /\ held' \in [Req -> SUBSET Locks] /\ plan' \in [Req -> Seq(Locks)]
    BY DEF end, Types
  <2> QED BY <2>1 DEF Types
<1>3. Exclusive'
  BY <1>1 DEF Exclusive
<1>4. Request(q)'
  <2>1. Phases(q)'
    BY <1>1 DEF Request, Phases, kind
  <2>2. pc'[q] # "running"
    BY <1>1
  <2> QED BY <2>1, <2>2 DEF Request, Covers, Ordered, CheckoutReads, CancelReads, FormReads, Runs, Admitted
<1>5. \A t \in Req : t # q => Rests(t)
  BY <1>1 DEF Rests
<1> HIDE DEF IInv
<1> QED BY <1>2, <1>3, <1>4, <1>5, OneMoves DEF tables

LEMMA RollbackPreserves == ASSUME IInv, NEW q \in Req, pc[q] = "running", rollback(q) PROVE IInv'
BY Ends DEF rollback

LEMMA FirstLocks ==
    ASSUME NEW in \in Inputs, in.kind \in {"cancel", "abort"} => orders[in.order].point \in Points
    PROVE  /\ firstLocks(in) \in Seq(Locks)
           /\ in.kind \notin {"import", "form"} => Increasing(firstLocks(in))
           /\ in.kind = "checkout" => Elems(firstLocks(in)) = {CustomerLock(in.customer)}
           /\ in.kind \in {"cancel", "abort"} =>
                /\ OrderRow(in.order) \in Elems(firstLocks(in))
                /\ \A v \in lines(orders[in.order].items) :
                       StockRow(orders[in.order].point, v) \in Elems(firstLocks(in))
           /\ in.kind \in {"import", "form"} =>
                \A i \in DOMAIN in.file : StockRow(in.point, in.file[i]) \in Elems(firstLocks(in))
<1>1. CASE in.kind = "checkout"
  <2>1. in.customer \in Customers
    BY <1>1, InputKinds DEF CheckoutInputs
  <2>2. CustomerLock(in.customer) \in Locks
    BY <2>1 DEF Locks
  <2>3. firstLocks(in) = <<CustomerLock(in.customer)>>
    BY <1>1 DEF firstLocks, serialized
  <2> QED BY <1>1, <2>2, <2>3, WithinOne DEF Within
<1>2. CASE in.kind \in {"cancel", "abort"}
  <2>1. in.order \in Req
    BY <1>2, InputKinds DEF CancelInputs
  <2>2. firstLocks(in) = cancelPlan(in.order)
    BY <1>2 DEF firstLocks
  <2> QED BY <1>2, <2>1, <2>2, CancelPlan DEF Within
<1>3. CASE in.kind \in {"import", "form"}
  <2>1. in.point \in Points /\ in.file \in Seq(Variants)
    BY <1>3, InputKinds DEF StaffInputs
  <2>2. firstLocks(in) = map(LAMBDA v : StockRow(in.point, v), in.file)
    BY <1>3 DEF firstLocks
  <2> QED BY <1>3, <2>1, <2>2, FilePlan
<1>4. CASE in.kind = "deleteCustomer"
  <2>1. in.customer \in Customers
    BY <1>4, InputKinds DEF DeletionInputs
  <2>2. CustomerRow(in.customer) \in Locks
    BY <2>1 DEF Locks
  <2>3. firstLocks(in) = <<CustomerRow(in.customer)>>
    BY <1>4 DEF firstLocks
  <2> QED BY <1>4, <2>2, <2>3, WithinOne DEF Within
<1> QED BY <1>1, <1>2, <1>3, <1>4, InputKinds

LEMMA BeginPreserves == ASSUME IInv, NEW q \in Req, NEW in \in Inputs, begin(q, in) PROVE IInv'
<1> USE DEF IInv
<1>1. pc[q] = "idle" /\ UNCHANGED <<held, admitted, point, stale, clash, number, orders, stock, sales, adjusted>>
  BY DEF begin
<1>2. Phases(q) /\ held[q] = {} /\ q \notin admitted /\ q \notin clash
  BY <1>1 DEF Request, Phases
<1>3. in.kind \in {"cancel", "abort"} => /\ in.order \in Req /\ orders[in.order].status # "none"
                                         /\ orders[in.order].point \in Points
  <2> SUFFICES ASSUME in.kind \in {"cancel", "abort"}
               PROVE  in.order \in Req /\ orders[in.order].status # "none" /\ orders[in.order].point \in Points
    OBVIOUS
  <2>1. in.order \in OpenOrders
    BY DEF begin
  <2> QED BY <2>1 DEF OpenOrders, Request, Phases
<1> DEFINE l == firstLocks(in)
<1>4. /\ l \in Seq(Locks)
      /\ in.kind \notin {"import", "form"} => Increasing(l)
      /\ in.kind = "checkout" => Elems(l) = {CustomerLock(in.customer)}
      /\ in.kind \in {"cancel", "abort"} =>
           /\ OrderRow(in.order) \in Elems(l)
           /\ \A v \in lines(orders[in.order].items) : StockRow(orders[in.order].point, v) \in Elems(l)
      /\ in.kind \in {"import", "form"} =>
           \A i \in DOMAIN in.file : StockRow(in.point, in.file[i]) \in Elems(l)
  BY <1>3, FirstLocks
<1>5. /\ pc' = [pc EXCEPT ![q] = "running"] /\ input' = [input EXCEPT ![q] = in] /\ plan' = [plan EXCEPT ![q] = l]
      /\ seen' = IF in.kind = "form" THEN [seen EXCEPT ![q] = stock[in.point]] ELSE seen
  BY DEF begin
<1> HIDE DEF l
<1>6. /\ pc'[q] = "running" /\ input'[q] = in /\ plan'[q] = l /\ held'[q] = {}
      /\ \A t \in Req : t # q => pc'[t] = pc[t] /\ input'[t] = input[t] /\ plan'[t] = plan[t]
                                  /\ seen'[t] = seen[t] /\ held'[t] = held[t]
  BY <1>1, <1>2, <1>5 DEF Types
<1>7. Types'
  <2>1. in.kind = "form" => stock[in.point] \in [Variants -> Int]
    BY InputKinds DEF StaffInputs, Types, Shelves
  <2>2. pc' \in [Req -> {"idle", "running", "committed", "replayed", "failed"}]
        /\ input' \in [Req -> Inputs \cup {[kind |-> "none"]}] /\ plan' \in [Req -> Seq(Locks)]
    BY <1>4, <1>5 DEF Types
  <2>3. seen' \in [Req -> [Variants -> Int]]
    BY <1>5, <2>1 DEF Types
  <2> QED BY <1>1, <2>2, <2>3 DEF Types
<1>8. Exclusive'
  BY <1>1 DEF Exclusive
<1>9. Phases(q)'
  BY <1>1, <1>2, <1>6 DEF Phases
<1>10. Covers(q)'
  <2>1. Elems(plan[q])' = Elems(l) /\ kind(q)' = in.kind /\ ~Admitted(q)'
    BY <1>1, <1>2, <1>6 DEF Elems, kind, Admitted
  <2>2. in.kind \in {"import", "form"} => \A v \in fileVariants(q)' : StockRow(in.point, v) \in Elems(l)
    BY <1>4, <1>6 DEF fileVariants
  <2> QED BY <1>1, <1>3, <1>4, <1>6, <2>1, <2>2 DEF Covers, Runs
<1>11. Ordered(q)'
  <2>1. Elems(plan[q])' = Elems(l) /\ kind(q)' = in.kind /\ Increasing(plan[q])' = Increasing(l)
    BY <1>6 DEF Elems, kind, Increasing
  <2> QED BY <1>4, <1>6, <2>1 DEF Ordered, Runs
<1>12. CheckoutReads(q)' /\ CancelReads(q)' /\ FormReads(q)'
  BY <1>1, <1>2, <1>6 DEF CheckoutReads, CancelReads, FormReads, Admitted
<1>13. \A t \in Req : t # q => Rests(t)
  BY <1>1, <1>6 DEF Rests
<1>14. Request(q)'
  BY <1>9, <1>10, <1>11, <1>12 DEF Request
<1> HIDE DEF IInv
<1> QED BY <1>1, <1>7, <1>8, <1>13, <1>14, OneMoves DEF tables

\* A locking statement: a changed cell is noted, a failed check rolls back,
\* or the lock is taken and what it protects has been read.
LEMMA StatementPreserves == ASSUME IInv, NEW q \in Req, statement(q) PROVE IInv'
<1>0. Types /\ Exclusive /\ Request(q) /\ pc[q] = "running" /\ plan[q] # <<>>
  BY DEF IInv, statement
<1>1. plan[q] \in Seq(Locks) /\ held[q] \in SUBSET Locks
  BY <1>0 DEF Types
<1>2. PICK r \in Locks, s \in Seq(Locks) : r = Head(plan[q]) /\ s = Tail(plan[q])
  BY <1>0, <1>1, TailElems
<1>3. /\ Elems(plan[q]) = {r} \cup Elems(s)
      /\ Increasing(plan[q]) => Increasing(s) /\ \A e \in Elems(s) : Before(r, e)
  BY <1>0, <1>1, <1>2, TailElems
<1>4. \/ /\ input[q].kind = "form" /\ ~unchangedCell(q, r[2], r[3])
         /\ clash' = clash \cup {q}
         /\ plan' = [plan EXCEPT ![q] = s]
         /\ UNCHANGED <<pc, input, held, admitted, point, stale, seen, number,
                        orders, stock, sales, adjusted, deleted, saved>>
      \/ ~passes(q, r) /\ rollback(q)
      \/ /\ passes(q, r) /\ (input[q].kind = "form" => unchangedCell(q, r[2], r[3]))
         /\ held' = [held EXCEPT ![q] = held[q] \cup {r}]
         /\ plan' = [plan EXCEPT ![q] = s]
         /\ number' = IF r = NumberLock
                      THEN [number EXCEPT ![q] = nextOrderNumber] ELSE number
         /\ UNCHANGED <<pc, input, admitted, point, stale, seen, clash,
                        orders, stock, sales, adjusted, deleted, saved>>
  BY <1>0, <1>2 DEF statement, Types
<1>5. free(q, r)
  BY <1>2 DEF statement
<1>6. CASE /\ input[q].kind = "form"
           /\ clash' = clash \cup {q}
           /\ plan' = [plan EXCEPT ![q] = s]
           /\ UNCHANGED <<pc, input, held, admitted, point, stale, seen, number,
                          orders, stock, sales, adjusted, deleted, saved>>
  <2>1. plan'[q] = s /\ \A t \in Req : t # q => plan'[t] = plan[t]
    BY <1>0, <1>6 DEF Types
  <2>2. Types'
    <3>1. plan' \in [Req -> Seq(Locks)]
      BY <1>0, <1>6 DEF Types
    <3> QED BY <1>0, <1>6, <3>1 DEF Types
  <2>3. Exclusive'
    BY <1>0, <1>6 DEF Exclusive
  <2>4. Phases(q)'
    BY <1>0, <1>6 DEF Request, Phases, kind
  <2>5. ~Admitted(q)' /\ kind(q)' = "form" /\ q \in clash'
    BY <1>0, <1>6 DEF Request, Phases, kind, Admitted
  <2>6. Request(q)'
    BY <2>4, <2>5 DEF Request, Covers, Ordered, CheckoutReads, CancelReads, FormReads, Runs
  <2>7. \A t \in Req : t # q => Rests(t)
    BY <1>6, <2>1 DEF Rests
  <2> QED BY <1>6, <2>2, <2>3, <2>6, <2>7, OneMoves DEF tables
<1>7. CASE rollback(q)
  BY <1>0, <1>7, RollbackPreserves
<1>8. CASE /\ passes(q, r) /\ (input[q].kind = "form" => unchangedCell(q, r[2], r[3]))
           /\ held' = [held EXCEPT ![q] = held[q] \cup {r}]
           /\ plan' = [plan EXCEPT ![q] = s]
           /\ number' = IF r = NumberLock
                        THEN [number EXCEPT ![q] = nextOrderNumber] ELSE number
           /\ UNCHANGED <<pc, input, admitted, point, stale, seen, clash,
                          orders, stock, sales, adjusted, deleted, saved>>
  <2>1. /\ plan'[q] = s /\ held'[q] = held[q] \cup {r}
        /\ \A t \in Req : t # q => plan'[t] = plan[t] /\ held'[t] = held[t] /\ number'[t] = number[t]
    BY <1>0, <1>8 DEF Types
  <2>2. number'[q] = IF r = NumberLock THEN Cardinality(OrderIds) + 1 ELSE number[q]
    BY <1>0, <1>8 DEF Types, nextOrderNumber
  <2>3. Types'
    <3>1. plan' \in [Req -> Seq(Locks)] /\ held' \in [Req -> SUBSET Locks]
      BY <1>0, <1>8 DEF Types
    <3>2. nextOrderNumber \in Nat
      BY IdsFinite DEF nextOrderNumber
    <3>3. number' \in [Req -> Nat]
      BY <1>0, <1>8, <3>2 DEF Types
    <3> QED BY <1>0, <1>8, <3>1, <3>3 DEF Types
  <2>4. Exclusive'
    BY <1>0, <1>5, <2>1 DEF Exclusive, free
  <2>5. Phases(q)'
    BY <1>0, <1>8 DEF Request, Phases, kind
  <2>6. Elems(plan[q])' = Elems(s) /\ Elems(plan[q])' \cup held'[q] = Elems(plan[q]) \cup held[q]
    BY <1>3, <2>1 DEF Elems
  <2>7. /\ \A k : Runs(q, k)' = Runs(q, k)
        /\ Admitted(q)' = Admitted(q) /\ kind(q)' = kind(q) /\ fileVariants(q)' = fileVariants(q)
    BY <1>8 DEF Runs, Admitted, kind, fileVariants
  <2>8. Covers(q)'
    BY <1>0, <1>8, <2>1, <2>6, <2>7 DEF Request, Covers
  <2>9. Ordered(q)'
    <3>1. Increasing(plan[q])' = Increasing(s)
      BY <2>1 DEF Increasing
    <3> QED BY <1>0, <1>3, <1>8, <2>1, <2>6, <2>7, <3>1 DEF Request, Ordered
  <2>10. CheckoutReads(q)'
    <3> SUFFICES ASSUME Admitted(q)
                 PROVE  /\ \A o \in withKey(input[q].customer, input[q].key) : o = stale[q]
                        /\ Cardinality(OpenOf(input[q].customer)) < MaxOpenOrders
                        /\ NumberLock \in held'[q] => number'[q] = Cardinality(OrderIds) + 1
                        /\ \A v \in lines(input[q].cart) :
                               StockRow(point[q], v) \in held'[q] => stock[point[q]][v] >= input[q].cart[v]
      BY <1>8, <2>7 DEF CheckoutReads, withKey, OpenOf, OrderIds, OpenOrders
    <3>1. NumberLock \in held'[q] => number'[q] = Cardinality(OrderIds) + 1
      BY <1>0, <2>1, <2>2 DEF Request, CheckoutReads
    <3>2. kind(q) = "checkout"
      BY <1>0 DEF Request, Phases, Admitted
    <3>3. ASSUME NEW v \in lines(input[q].cart), StockRow(point[q], v) = r
          PROVE  stock[point[q]][v] >= input[q].cart[v]
      <4>1. r[1] = "stock" /\ r[2] = point[q] /\ r[3] = v
        BY <3>3, Ranks
      <4> QED BY <1>8, <3>2, <4>1 DEF passes, enough, kind
    <3> QED BY <1>0, <2>1, <3>1, <3>3 DEF Request, CheckoutReads
  <2>11. CancelReads(q)'
    <3> SUFFICES ASSUME Runs(q, {"cancel", "abort"}), OrderRow(input[q].order) \in held'[q]
                 PROVE  orders[input[q].order].status = "open"
      BY <1>8, <2>7 DEF CancelReads
    <3>1. ASSUME OrderRow(input[q].order) = r PROVE orders[input[q].order].status = "open"
      <4>1. r[1] = "orders" /\ r[2] = input[q].order
        BY <3>1, Ranks
      <4> QED BY <1>8, <4>1 DEF passes, Runs, kind
    <3> QED BY <1>0, <2>1, <3>1 DEF Request, CancelReads
  <2>12. FormReads(q)'
    <3> SUFFICES ASSUME Runs(q, {"form"}), q \notin clash, NEW v \in fileVariants(q),
                        StockRow(input[q].point, v) \in held'[q]
                 PROVE  stock[input[q].point][v] = seen[q][v]
      BY <1>8, <2>7 DEF FormReads
    <3>1. ASSUME StockRow(input[q].point, v) = r PROVE stock[input[q].point][v] = seen[q][v]
      <4>1. r[2] = input[q].point /\ r[3] = v
        BY <3>1, Ranks
      <4> QED BY <1>8, <4>1 DEF unchangedCell, Runs, kind
    <3> QED BY <1>0, <2>1, <3>1 DEF Request, FormReads
  <2>13. Request(q)'
    BY <2>5, <2>8, <2>9, <2>10, <2>11, <2>12 DEF Request
  <2>14. \A t \in Req : t # q => Rests(t)
    BY <1>8, <2>1 DEF Rests
  <2> QED BY <1>8, <2>3, <2>4, <2>13, <2>14, OneMoves DEF tables
<1> QED BY <1>4, <1>6, <1>7, <1>8

LEMMA ReplayPreserves == ASSUME IInv, NEW q \in Req, replay(q) PROVE IInv'
BY Ends DEF replay, ready

\* The checks under the customer lock pass, or the checkout is refused.
LEMMA AdmitPreserves == ASSUME IInv, NEW q \in Req, admit(q) PROVE IInv'
<1>0. Types /\ Exclusive /\ Request(q) /\ SubmitsSettle
      /\ pc[q] = "running" /\ kind(q) = "checkout" /\ plan[q] = <<>> /\ q \notin admitted
  BY DEF IInv, admit, ready, kind
<1>1. CASE rollback(q)
  BY <1>0, <1>1, RollbackPreserves
<1>2. CASE ~rollback(q)
  <2>1. input[q] \in CheckoutInputs
    BY <1>0, InputKinds DEF Request, Phases, kind
  <2>2. PICK c \in Customers, k \in Keys \cup {NoKey} : c = input[q].customer /\ k = input[q].key
    BY <2>1 DEF CheckoutInputs
  <2>3. PICK p \in pickFulfillmentPoint(input[q]) :
            LET old == withKey(c, k)
                o   == IF old = {} THEN 0 ELSE CHOOSE x \in old : TRUE
            IN  /\ admitted' = admitted \cup {q}
                /\ point' = [point EXCEPT ![q] = p]
                /\ stale' = [stale EXCEPT ![q] = o]
                /\ plan' = [plan EXCEPT ![q] = checkoutPlan(q, p, o)]
                /\ UNCHANGED <<pc, input, held, seen, clash, number,
                               orders, stock, sales, adjusted, deleted, saved>>
    BY <1>2, <2>2 DEF admit
  <2>4. checkOpenOrdersLimit(c)
    BY <1>2, <2>2 DEF admit
  <2>5. p \in Points
    BY <2>1, <2>3 DEF pickFulfillmentPoint, CheckoutInputs
  <2>6. \A x, y \in withKey(c, k) : x = y
    BY <1>0 DEF SubmitsSettle, withKey
  <2>7. PICK o \in Req \cup {0} : /\ o = IF withKey(c, k) = {} THEN 0 ELSE CHOOSE x \in withKey(c, k) : TRUE
                                  /\ \A x \in withKey(c, k) : x = o
    BY <2>6 DEF withKey, OrderIds
  <2>8. PICK l \in Seq(Locks) : /\ l = checkoutPlan(q, p, o) /\ Within(l, 2, 6) /\ NumberLock \in Elems(l)
                                /\ \A v \in lines(input[q].cart) : StockRow(p, v) \in Elems(l)
    BY <2>2, <2>5, CheckoutPlan DEF Within
  <2>9. /\ admitted' = admitted \cup {q} /\ point' = [point EXCEPT ![q] = p]
        /\ stale' = [stale EXCEPT ![q] = o] /\ plan' = [plan EXCEPT ![q] = l]
        /\ UNCHANGED <<pc, input, held, seen, clash, number, orders, stock, sales, adjusted>>
    BY <2>3, <2>7, <2>8
  <2>10. /\ point'[q] = p /\ stale'[q] = o /\ plan'[q] = l
         /\ \A t \in Req : t # q => point'[t] = point[t] /\ stale'[t] = stale[t] /\ plan'[t] = plan[t]
    BY <1>0, <2>9 DEF Types
  <2>11. Types'
    <3>1. point' \in [Req -> Points \cup {0}] /\ stale' \in [Req -> Req \cup {0}] /\ plan' \in [Req -> Seq(Locks)]
      BY <1>0, <2>5, <2>9 DEF Types
    <3> QED BY <1>0, <2>9, <3>1 DEF Types
  <2>12. Exclusive'
    BY <1>0, <2>9 DEF Exclusive
  <2>13. held[q] = {CustomerLock(c)}
    <3>1. Elems(plan[q]) = {}
      BY <1>0, OneElem
    <3>2. CustomerLock(c) \in Elems(plan[q]) \cup held[q]
      BY <1>0, <2>2 DEF Request, Covers, Runs
    <3>3. Elems(plan[q]) \cup held[q] \subseteq {CustomerLock(c)}
      BY <1>0, <2>2 DEF Request, Ordered, Runs
    <3> QED BY <3>1, <3>2, <3>3
  <2>14. Phases(q)'
    BY <1>0, <2>5, <2>9, <2>10 DEF Request, Phases, kind
  <2>15. Elems(plan[q])' = Elems(l) /\ Increasing(plan[q])' = Increasing(l)
         /\ kind(q)' = "checkout" /\ pc'[q] = "running" /\ held'[q] = {CustomerLock(c)} /\ q \in admitted'
    BY <1>0, <2>9, <2>10, <2>13 DEF Elems, Increasing, kind
  <2>16. Covers(q)'
    BY <2>2, <2>8, <2>9, <2>10, <2>15 DEF Covers, Runs
  <2>17. Ordered(q)'
    <3>1. \A x \in Elems(l) : x \in Locks /\ Rank(x) \in Nat /\ 2 <= Rank(x)
      <4>1. Elems(l) \subseteq Locks
        BY DEF Elems
      <4> QED BY <2>8, <4>1, LockKinds DEF Within
    <3>2. \A x \in Elems(l) : Before(CustomerLock(c), x)
      BY <3>1, Ranks DEF Before
    <3> QED BY <2>8, <2>15, <3>2 DEF Ordered, Within
  <2>18. CheckoutReads(q)'
    <3>1. Cardinality(OpenOf(c)) < MaxOpenOrders
      BY <2>4 DEF checkOpenOrdersLimit, OpenOf
    <3>2. CustomerLock(c) # NumberLock /\ \A v : CustomerLock(c) # StockRow(p, v)
      BY Ranks
    <3>3. withKey(c, k)' = withKey(c, k) /\ OpenOf(c)' = OpenOf(c)
      BY <2>9 DEF withKey, OpenOf, OrderIds, OpenOrders
    <3>4. input'[q].customer = c /\ input'[q].key = k
      BY <2>2, <2>9
    <3>5. OpenOf(input[q].customer)' = OpenOf(c)' /\ withKey(input[q].customer, input[q].key)' = withKey(c, k)'
      BY <3>4 DEF OpenOf, withKey
    <3> QED BY <2>7, <2>10, <2>15, <3>1, <3>2, <3>3, <3>5 DEF CheckoutReads
  <2>19. CancelReads(q)' /\ FormReads(q)'
    BY <2>15 DEF CancelReads, FormReads, Runs
  <2>20. Request(q)'
    BY <2>14, <2>16, <2>17, <2>18, <2>19 DEF Request
  <2>21. \A t \in Req : t # q => Rests(t)
    BY <2>9, <2>10 DEF Rests
  <2> QED BY <2>9, <2>11, <2>12, <2>20, <2>21, OneMoves DEF tables
<1> QED BY <1>1, <1>2

-----------------------------------------------------------------------------
(***************************************************************************)
(* Commits.  A commit writes only rows whose locks it holds, so the other  *)
(* requests, which hold other locks, are undisturbed.                      *)
(***************************************************************************)
LEMMA Commits ==
    ASSUME IInv, NEW q \in Req, pc[q] = "running", end(q, "committed"),
           UNCHANGED <<input, admitted, point, stale, seen, clash, number>>,
           Writes(held[q]), orders' \in [Req -> Orders], stock' \in Shelves, adjusted' \in Shelves,
           sales' \in [Products -> Int], SubmitsSettle', StockFollowsOrders',
           orders'[q].status # "none" => orders'[q].point \in Points,
           \A t \in Req : t # q /\ orders'[t].status # "none" => orders[t].status # "none"
    PROVE  IInv'
<1> USE DEF IInv
<1>1. /\ pc'[q] = "committed" /\ held'[q] = {} /\ plan'[q] = <<>>
      /\ \A t \in Req : t # q => pc'[t] = pc[t] /\ held'[t] = held[t] /\ plan'[t] = plan[t]
  BY DEF end, Types
<1>2. Types'
  <2>1. pc' \in [Req -> {"idle", "running", "committed", "replayed", "failed"}]
        /\ held' \in [Req -> SUBSET Locks] /\ plan' \in [Req -> Seq(Locks)]
    BY DEF end, Types
  <2> QED BY <2>1 DEF Types
<1>3. Exclusive'
  BY <1>1 DEF Exclusive
<1>4. Request(q)'
  <2>1. Phases(q)'
    BY <1>1 DEF Request, Phases, kind
  <2>2. pc'[q] # "running"
    BY <1>1
  <2> QED BY <2>1, <2>2 DEF Request, Covers, Ordered, CheckoutReads, CancelReads, FormReads, Runs, Admitted
<1>5. ASSUME NEW t \in Req, t # q PROVE Request(t)'
  <2>1. Rests(t)
    BY <1>1, <1>5 DEF Rests
  <2>2. \A r \in held[t] : r \notin held[q]
    BY <1>5 DEF Exclusive, Types
  <2> QED BY <1>5, <2>1, <2>2, Undisturbed
<1> QED BY <1>2, <1>3, <1>4, <1>5

\* What each order takes from a shelf, and sells of a product.
Takes(a, p, v) == [o \in Req |-> IF a[o].point = p THEN a[o].items[v] ELSE 0]
Sells(a, m) == [o \in Req |-> units(m, a[o].items)]

LEMMA TakesNat ==
    ASSUME NEW a \in [Req -> Orders], NEW S \in SUBSET Req, NEW p, NEW v \in Variants
    PROVE  (\A o \in Req : Takes(a, p, v)[o] \in Nat) /\ SumFunctionOnSet(Takes(a, p, v), S) \in Nat
<1>1. \A o \in Req : a[o].items \in [Variants -> Nat]
  BY OrderFields
<1>2. \A o \in Req : Takes(a, p, v)[o] \in Nat
  BY <1>1 DEF Takes
<1>3. IsFiniteSet(S) /\ \A o \in S : Takes(a, p, v)[o] \in Nat
  BY <1>2, NumberedAssumption, FS_Subset
<1>4. SumFunctionOnSet(Takes(a, p, v), S) \in Nat
  BY <1>3, SumNat
<1> QED BY <1>2, <1>4

LEMMA SellsNat ==
    ASSUME NEW a \in [Req -> Orders], NEW S \in SUBSET Req, NEW m
    PROVE  (\A o \in Req : Sells(a, m)[o] \in Nat) /\ SumFunctionOnSet(Sells(a, m), S) \in Nat
<1>1. \A o \in Req : a[o].items \in [Variants -> Nat]
  BY OrderFields
<1>2. \A o \in Req : Sells(a, m)[o] \in Nat
  BY <1>1, UnitsNat DEF Sells
<1>3. IsFiniteSet(S) /\ \A o \in S : Sells(a, m)[o] \in Nat
  BY <1>2, NumberedAssumption, FS_Subset
<1>4. SumFunctionOnSet(Sells(a, m), S) \in Nat
  BY <1>3, SumNat
<1> QED BY <1>2, <1>4

\* One more open order adds its own part to a sum over the open orders.
LEMMA OneMore ==
    ASSUME NEW S \in SUBSET Req, NEW q \in Req, q \notin S, NEW f, NEW g,
           \A o \in Req : f[o] \in Nat, \A o \in S : f[o] = g[o]
    PROVE  SumFunctionOnSet(f, S \cup {q}) = f[q] + SumFunctionOnSet(g, S)
<1>1. IsFiniteSet(S)
  BY NumberedAssumption, FS_Subset
<1>2. f[q] \in Int /\ \A o \in S : f[o] \in Int
  OBVIOUS
<1>3. SumFunctionOnSet(f, S \cup {q}) = f[q] + SumFunctionOnSet(f, S)
  BY <1>1, <1>2, SumAdd
<1>4. SumFunctionOnSet(f, S) = SumFunctionOnSet(g, S)
  BY <1>1, SumSame
<1> QED BY <1>3, <1>4

\* The orders a with S \cup {q} open and the orders b with S open differ in q.
OneApart(S, q, a, b) ==
    /\ S \in SUBSET Req /\ q \in Req /\ q \notin S /\ a \in [Req -> Orders]
    /\ \A o \in S : a[o].point = b[o].point /\ a[o].items = b[o].items

AddsUp(f, g, S, q) == SumFunctionOnSet(f, S \cup {q}) = f[q] + SumFunctionOnSet(g, S)

LEMMA OneMoreTaken ==
    ASSUME NEW S, NEW q, NEW a, NEW b, OneApart(S, q, a, b), NEW p, NEW v \in Variants
    PROVE  AddsUp(Takes(a, p, v), Takes(b, p, v), S, q)
<1> USE DEF OneApart
<1>1. \A o \in Req : Takes(a, p, v)[o] \in Nat
  BY TakesNat
<1>2. \A o \in S : Takes(a, p, v)[o] = Takes(b, p, v)[o]
  BY DEF Takes
<1> QED BY <1>1, <1>2, OneMore DEF AddsUp

LEMMA OneMoreSold ==
    ASSUME NEW S, NEW q, NEW a, NEW b, OneApart(S, q, a, b), NEW m
    PROVE  AddsUp(Sells(a, m), Sells(b, m), S, q)
<1> USE DEF OneApart
<1>1. \A o \in Req : Sells(a, m)[o] \in Nat
  BY SellsNat
<1>2. \A o \in S : Sells(a, m)[o] = Sells(b, m)[o]
  BY DEF Sells
<1> QED BY <1>1, <1>2, OneMore DEF AddsUp

LEMMA TakenNat == ASSUME Types, NEW p, NEW v \in Variants PROVE taken(p, v) \in Nat
<1>1. taken(p, v) = SumFunctionOnSet(Takes(orders, p, v), OpenOrders)
  BY DEF taken, Takes
<1>2. orders \in [Req -> Orders] /\ OpenOrders \in SUBSET Req
  BY IdsFinite DEF Types
<1> QED BY <1>1, <1>2, TakesNat

LEMMA CommitCheckoutPreserves ==
    ASSUME IInv, NEW q \in Req, pc[q] = "running", plan[q] = <<>>, kind(q) = "checkout",
           commitCheckout(q), end(q, "committed"),
           UNCHANGED <<input, admitted, point, stale, seen, clash, number>>
    PROVE  IInv'
<1>0. Types /\ Request(q) /\ SubmitsSettle /\ StockFollowsOrders /\ Elems(plan[q]) = {} /\ Admitted(q)
  BY OneElem DEF IInv, Admitted, commitCheckout
<1>1. input[q] \in CheckoutInputs
  BY <1>0, InputKinds DEF Request, Phases, kind
<1>2. PICK c \in Customers, k \in Keys \cup {NoKey}, cart \in [Variants -> Nat], p \in Points, n \in Nat, z \in Req \cup {0} :
          /\ c = input[q].customer /\ k = input[q].key /\ cart = input[q].cart
          /\ p = point[q] /\ n = number[q] /\ z = stale[q]
  BY <1>0, <1>1 DEF CheckoutInputs, Request, Phases, Admitted, Types
<1>3. /\ CustomerLock(c) \in held[q] /\ NumberLock \in held[q]
      /\ \A v \in lines(cart) : StockRow(p, v) \in held[q]
  BY <1>0, <1>2 DEF Request, Covers
<1>4. /\ \A o \in withKey(c, k) : o = z
      /\ Cardinality(OpenOf(c)) < MaxOpenOrders
      /\ n = Cardinality(OrderIds) + 1
      /\ \A v \in lines(cart) : stock[p][v] >= cart[v]
  BY <1>0, <1>2, <1>3 DEF Request, CheckoutReads
<1>5. orders[q].status = "none" /\ q \notin OrderIds /\ q \notin OpenOrders
  BY <1>0 DEF Request, Phases, OrderIds, OpenOrders
<1> DEFINE new == [customer |-> c, key |-> k, items |-> cart, point |-> p,
                   delivery |-> input[q].pickup = 0,
                   number |-> n, status |-> "open", fresh |-> TRUE]
           old == IF z = 0 THEN orders ELSE [orders EXCEPT ![z].key = NoKey]
<1>6. /\ orders' = [old EXCEPT ![q] = new]
      /\ stock' = [stock EXCEPT ![p] = [v \in Variants |-> stock[p][v] - cart[v]]]
      /\ sales' = [m \in Products |-> sales[m] + units(m, cart)]
      /\ adjusted' = adjusted
  BY <1>0, <1>2 DEF commitCheckout, clearStaleKey, Types, Shelves
<1>7. new \in Orders
  <2>1. (input[q].pickup = 0) \in BOOLEAN
    OBVIOUS
  <2> QED BY <2>1 DEF Orders
<1>8. old \in [Req -> Orders]
  <2>1. ASSUME z # 0 PROVE [orders[z] EXCEPT !.key = NoKey] \in Orders
    <3>1. orders[z] \in Orders
      BY <1>0, <2>1 DEF Types
    <3> QED BY <3>1 DEF Orders
  <2> QED BY <1>0, <2>1 DEF Types
<1>9. \A o \in Req : /\ old[o].customer = orders[o].customer /\ old[o].items = orders[o].items
                     /\ old[o].point = orders[o].point /\ old[o].number = orders[o].number
                     /\ old[o].status = orders[o].status
                     /\ old[o].key = IF o = z THEN NoKey ELSE orders[o].key
  <2>1. 0 \notin Req
    BY NumberedAssumption
  <2>2. \A o \in Req : orders[o] \in Orders
    BY <1>0 DEF Types
  <2> QED BY <1>0, <2>1, <2>2 DEF Types, Orders
<1>10. /\ new.customer = c /\ new.key = k /\ new.items = cart /\ new.point = p /\ new.number = n
       /\ new.status = "open"
  OBVIOUS
<1> HIDE DEF new, old
<1>11. /\ orders' \in [Req -> Orders] /\ orders'[q] = new
       /\ \A o \in Req : o # q => orders'[o] = old[o]
  BY <1>6, <1>7, <1>8
<1>12. \A o \in Req : o # q =>
           /\ orders'[o].customer = orders[o].customer /\ orders'[o].items = orders[o].items
           /\ orders'[o].point = orders[o].point /\ orders'[o].number = orders[o].number
           /\ orders'[o].status = orders[o].status
           /\ orders'[o].key = IF o = z THEN NoKey ELSE orders[o].key
  BY <1>9, <1>11
<1>13. /\ orders'[q].customer = c /\ orders'[q].key = k /\ orders'[q].items = cart /\ orders'[q].point = p
       /\ orders'[q].number = n /\ orders'[q].status = "open"
  BY <1>10, <1>11
<1>14. OrderIds' = OrderIds \cup {q} /\ OpenOrders' = OpenOrders \cup {q}
  BY <1>12, <1>13 DEF OrderIds, OpenOrders
<1>15. stock' \in Shelves /\ adjusted' \in Shelves /\ sales' \in [Products -> Int]
  <2>1. \A v \in Variants : stock[p][v] \in Int /\ cart[v] \in Nat
    BY <1>0 DEF Types, Shelves
  <2>2. [v \in Variants |-> stock[p][v] - cart[v]] \in [Variants -> Int]
    BY <2>1
  <2>3. \A m \in Products : sales[m] \in Int /\ units(m, cart) \in Nat
    BY <1>0, UnitsNat DEF Types
  <2> QED BY <1>0, <1>6, <2>2, <2>3 DEF Types, Shelves
<1>16. \A r \in Points, v \in Variants :
           stock'[r][v] = IF r = p THEN stock[p][v] - cart[v] ELSE stock[r][v]
  BY <1>0, <1>6 DEF Types, Shelves
<1>17. \A v \in Variants : v \notin lines(cart) => cart[v] = 0
  BY DEF lines
<1>18. Writes(held[q])
  <2>1. /\ \A o \in Req : orders[o].status # "none" =>
               /\ orders'[o].status # "none" /\ orders'[o].point = orders[o].point
               /\ orders'[o].items = orders[o].items
        /\ \A o \in Req : orders[o].status = "open" => orders'[o].status = "open"
    BY <1>5, <1>12
  <2>2. ASSUME NEW r \in Points, NEW v \in Variants, StockRow(r, v) \notin held[q]
        PROVE  stock'[r][v] = stock[r][v]
    <3>1. CASE r = p
      <4>1. cart[v] = 0 /\ stock[p][v] \in Int
        BY <1>0, <1>3, <1>17, <2>2, <3>1 DEF Types, Shelves
      <4> QED BY <1>16, <3>1, <4>1
    <3>2. CASE r # p
      BY <1>16, <3>2
    <3> QED BY <3>1, <3>2
  <2>3. ASSUME NEW d \in Customers, CustomerLock(d) \notin held[q]
        PROVE  /\ OpenOf(d)' \subseteq OpenOf(d)
               /\ \A j \in Keys \cup {NoKey} : withKey(d, j)' \subseteq withKey(d, j)
    <3>1. d # c
      BY <1>3, <2>3
    <3>2. OpenOf(d)' \subseteq OpenOf(d)
      BY <1>12, <1>13, <1>14, <3>1, IdsFinite DEF OpenOf
    <3>3. ASSUME NEW j \in Keys \cup {NoKey} PROVE withKey(d, j)' \subseteq withKey(d, j)
      BY <1>12, <1>13, <1>14, <3>1, IdsFinite DEF withKey
    <3> QED BY <3>2, <3>3
  <2> QED BY <1>3, <2>1, <2>2, <2>3 DEF Writes
<1>19. SubmitsSettle'
  <2>1. ASSUME NEW o \in OrderIds', NEW r \in OrderIds', orders'[o].key # NoKey,
               orders'[o].key = orders'[r].key, orders'[o].customer = orders'[r].customer
        PROVE  o = r
    <3>1. \A x \in OrderIds : x # q /\ x \in Req
      BY <1>5, IdsFinite
    <3>2. \A x \in OrderIds : orders'[x].key # NoKey => orders'[x].key = orders[x].key /\ x # z
      BY <1>12, <3>1
    <3>3. CASE o # q /\ r # q
      <4>1. o \in OrderIds /\ r \in OrderIds
        BY <1>14, <3>3
      <4> QED BY <1>0, <1>12, <2>1, <3>1, <3>2, <4>1 DEF SubmitsSettle
    <3>4. ASSUME NEW x \in OrderIds, orders'[x].key = k, orders'[x].customer = c, k # NoKey PROVE FALSE
      <4>1. x \in withKey(c, k)
        BY <1>12, <3>1, <3>2, <3>4 DEF withKey
      <4> QED BY <1>4, <3>2, <3>4, <4>1
    <3> QED BY <1>13, <1>14, <2>1, <3>3, <3>4
  <2>2. ASSUME NEW d \in Customers PROVE Cardinality(OpenOf(d)') <= MaxOpenOrders
    <3>1. CASE d = c
      <4>1. OpenOf(c)' = OpenOf(c) \cup {q} /\ q \notin OpenOf(c)
        BY <1>5, <1>12, <1>13, <1>14, IdsFinite DEF OpenOf
      <4>2. Cardinality(OpenOf(c)') = Cardinality(OpenOf(c)) + 1
        BY <4>1, IdsFinite, FS_AddElement
      <4> QED BY <1>4, <3>1, <4>2, IdsFinite, ShelvesAssumption
    <3>2. CASE d # c
      <4>1. OpenOf(d)' = OpenOf(d)
        BY <1>5, <1>12, <1>13, <1>14, <3>2, IdsFinite DEF OpenOf
      <4> QED BY <1>0, <4>1 DEF SubmitsSettle, OpenOf
    <3> QED BY <3>1, <3>2
  <2>3. {orders'[o].number : o \in OrderIds'} = 1..Cardinality(OrderIds')
    <3>1. Cardinality(OrderIds') = n
      BY <1>4, <1>5, <1>14, IdsFinite, FS_AddElement
    <3>2. {orders'[o].number : o \in OrderIds} = {orders[o].number : o \in OrderIds}
      BY <1>5, <1>12, IdsFinite
    <3>3. {orders'[o].number : o \in OrderIds'} = {orders[o].number : o \in OrderIds} \cup {n}
      BY <1>13, <1>14, <3>2
    <3>4. {orders[o].number : o \in OrderIds} = 1..Cardinality(OrderIds)
      BY <1>0 DEF SubmitsSettle
    <3>5. (1..Cardinality(OrderIds)) \cup {n} = 1..n
      BY <1>4, IdsFinite
    <3> QED BY <3>1, <3>3, <3>4, <3>5
  <2> QED BY <2>1, <2>2, <2>3 DEF SubmitsSettle, OpenOf
<1>20. \A r \in Points, v \in Variants :
           taken(r, v)' = (IF p = r THEN cart[v] ELSE 0) + taken(r, v)
  <2> SUFFICES ASSUME NEW r \in Points, NEW v \in Variants
               PROVE  taken(r, v)' = (IF p = r THEN cart[v] ELSE 0) + taken(r, v)
    OBVIOUS
  <2>1. \A o \in OpenOrders : o \in Req /\ orders'[o].point = orders[o].point /\ orders'[o].items = orders[o].items
    BY <1>5, <1>12, IdsFinite
  <2>2. PICK a \in [Req -> Orders], b \in [Req -> Orders], S \in SUBSET Req :
            a = orders' /\ b = orders /\ S = OpenOrders
    BY <1>0, <1>11, IdsFinite DEF Types
  <2>3. OneApart(S, q, a, b)
    BY <1>5, <2>1, <2>2 DEF OneApart
  <2>4. taken(r, v)' = SumFunctionOnSet(Takes(a, r, v), S \cup {q})
        /\ taken(r, v) = SumFunctionOnSet(Takes(b, r, v), S)
    BY <1>14, <2>2 DEF taken, Takes
  <2>5. Takes(a, r, v)[q] = IF p = r THEN cart[v] ELSE 0
    BY <1>13, <2>2 DEF Takes
  <2>6. AddsUp(Takes(a, r, v), Takes(b, r, v), S, q)
    BY <2>3, OneMoreTaken
  <2> QED BY <2>4, <2>5, <2>6 DEF AddsUp
<1>21. ASSUME NEW m \in Products PROVE sold(m)' = units(m, cart) + sold(m)
  <2>1. \A o \in OpenOrders : o \in Req /\ orders'[o].point = orders[o].point /\ orders'[o].items = orders[o].items
    BY <1>5, <1>12, IdsFinite
  <2>2. PICK a \in [Req -> Orders], b \in [Req -> Orders], S \in SUBSET Req :
            a = orders' /\ b = orders /\ S = OpenOrders
    BY <1>0, <1>11, IdsFinite DEF Types
  <2>3. OneApart(S, q, a, b)
    BY <1>5, <2>1, <2>2 DEF OneApart
  <2>4. sold(m)' = SumFunctionOnSet(Sells(a, m), S \cup {q})
        /\ sold(m) = SumFunctionOnSet(Sells(b, m), S)
    BY <1>14, <2>2 DEF sold, Sells
  <2>5. Sells(a, m)[q] = units(m, cart)
    BY <1>13, <2>2 DEF Sells
  <2>6. AddsUp(Sells(a, m), Sells(b, m), S, q)
    BY <2>3, OneMoreSold
  <2> QED BY <2>4, <2>5, <2>6 DEF AddsUp
<1>22. StockFollowsOrders'
  <2>1. ASSUME NEW r \in Points, NEW v \in Variants
        PROVE  stock'[r][v] >= 0 /\ stock'[r][v] + taken(r, v)' = InitStock + adjusted'[r][v]
    <3>1. stock[r][v] \in Int /\ adjusted[r][v] \in Int /\ cart[v] \in Nat /\ taken(r, v) \in Nat
          /\ InitStock \in Nat
      BY <1>0, TakenNat, ShelvesAssumption DEF Types, Shelves
    <3>2. stock[r][v] >= 0 /\ stock[r][v] + taken(r, v) = InitStock + adjusted[r][v]
      BY <1>0 DEF StockFollowsOrders
    <3>3. r = p => stock[r][v] >= cart[v]
      BY <1>4, <1>17, <3>1, <3>2
    <3>4. stock'[r][v] = IF r = p THEN stock[r][v] - cart[v] ELSE stock[r][v]
      BY <1>16
    <3>5. taken(r, v)' = (IF r = p THEN cart[v] ELSE 0) + taken(r, v)
      BY <1>20
    <3> QED BY <1>6, <3>1, <3>2, <3>3, <3>4, <3>5
  <2>2. ASSUME NEW m \in Products PROVE sales'[m] = sold(m)'
    <3>1. sales[m] \in Int /\ units(m, cart) \in Nat /\ sales[m] = sold(m)
      BY <1>0, UnitsNat DEF Types, StockFollowsOrders
    <3>2. sales'[m] = sales[m] + units(m, cart)
      BY <1>6
    <3> QED BY <1>21, <3>1, <3>2
  <2> QED BY <2>1, <2>2 DEF StockFollowsOrders
<1> QED BY <1>11, <1>12, <1>13, <1>15, <1>18, <1>19, <1>22, Commits

LEMMA CommitCancelPreserves ==
    ASSUME IInv, NEW q \in Req, pc[q] = "running", plan[q] = <<>>, kind(q) \in {"cancel", "abort"},
           commitCancel(q), end(q, "committed"),
           UNCHANGED <<input, admitted, point, stale, seen, clash, number>>
    PROVE  IInv'
<1>0. Types /\ Request(q) /\ SubmitsSettle /\ StockFollowsOrders /\ Elems(plan[q]) = {}
      /\ Runs(q, {"cancel", "abort"})
  BY OneElem DEF IInv, Runs
<1>1. PICK o \in Req : o = input[q].order
  BY <1>0, InputKinds DEF Request, Phases, kind, CancelInputs
<1>2. OrderRow(o) \in held[q] /\ orders[o].status = "open" /\ orders[o] \in Orders
  BY <1>0, <1>1 DEF Request, Covers, CancelReads, Types
<1>3. PICK p \in Points, items \in [Variants -> Nat] : p = orders[o].point /\ items = orders[o].items
  <2>1. Request(o)
    BY DEF IInv
  <2> QED BY <1>2, <2>1, OrderFields DEF Request, Phases
<1>4. \A v \in lines(items) : StockRow(p, v) \in held[q]
  BY <1>0, <1>1, <1>3 DEF Request, Covers
<1>5. PICK k \in Keys \cup {NoKey} : k = IF kind(q) = "abort" THEN NoKey ELSE orders[o].key
  BY <1>2 DEF Orders
<1> DEFINE row == [orders[o] EXCEPT !.status = "cancelled", !.key = k]
<1>6. /\ orders' = [orders EXCEPT ![o] = row]
      /\ stock' = [stock EXCEPT ![p] = [v \in Variants |-> stock[p][v] + items[v]]]
      /\ sales' = [m \in Products |-> sales[m] - units(m, items)]
      /\ adjusted' = adjusted
  <2>1. orders' = [orders EXCEPT ![o] = row]
    BY <1>0, <1>1, <1>2, <1>5 DEF commitCancel, kind, Types, Orders
  <2> QED BY <1>0, <1>1, <1>3, <2>1, ZenonT(30) DEF commitCancel, cancelledSales, Types, Shelves
<1>7. /\ row \in Orders /\ row.customer = orders[o].customer /\ row.key = k /\ row.items = items /\ row.point = p
      /\ row.number = orders[o].number /\ row.status = "cancelled"
  BY <1>2, <1>3 DEF Orders
<1> HIDE DEF row
<1>8. /\ orders' \in [Req -> Orders]
      /\ \A x \in Req : /\ orders'[x].customer = orders[x].customer /\ orders'[x].items = orders[x].items
                        /\ orders'[x].point = orders[x].point /\ orders'[x].number = orders[x].number
                        /\ orders'[x].status = IF x = o THEN "cancelled" ELSE orders[x].status
                        /\ orders'[x].key = orders[x].key \/ orders'[x].key = NoKey
  <2>1. orders' \in [Req -> Orders]
    BY <1>0, <1>6, <1>7 DEF Types
  <2>2. orders'[o] = row /\ \A x \in Req : x # o => orders'[x] = orders[x]
    BY <1>0, <1>6 DEF Types
  <2> QED BY <1>3, <1>5, <1>7, <2>1, <2>2
<1>9. OrderIds' = OrderIds /\ OpenOrders' = OpenOrders \ {o} /\ o \in OpenOrders
  BY <1>2, <1>8 DEF OrderIds, OpenOrders
<1>10. \A v \in Variants : stock[p][v] \in Int /\ items[v] \in Nat
  BY <1>0 DEF Types, Shelves
<1>11. \A m \in Products : sales[m] \in Int /\ units(m, items) \in Nat
  BY <1>0, UnitsNat DEF Types
<1>12. stock' \in Shelves /\ adjusted' \in Shelves /\ sales' \in [Products -> Int]
  <2>1. [v \in Variants |-> stock[p][v] + items[v]] \in [Variants -> Int]
    BY <1>10
  <2> QED BY <1>0, <1>6, <1>11, <2>1 DEF Types, Shelves
<1>13. \A r \in Points, v \in Variants :
           stock'[r][v] = IF r = p THEN stock[p][v] + items[v] ELSE stock[r][v]
  BY <1>0, <1>6 DEF Types, Shelves
<1>14. \A c : OpenOf(c)' \subseteq OpenOf(c) /\ \A j : withKey(c, j)' \subseteq withKey(c, j)
  BY <1>8, <1>9, IdsFinite DEF OpenOf, withKey
<1>15. Writes(held[q])
  <2>1. ASSUME NEW r \in Points, NEW v \in Variants, StockRow(r, v) \notin held[q]
        PROVE  stock'[r][v] = stock[r][v]
    <3>1. CASE r = p
      <4>1. items[v] = 0
        BY <1>4, <2>1, <3>1 DEF lines
      <4> QED BY <1>10, <1>13, <3>1, <4>1
    <3>2. CASE r # p
      BY <1>13, <3>2
    <3> QED BY <3>1, <3>2
  <2>2. /\ \A x \in Req : orders[x].status # "none" =>
               /\ orders'[x].status # "none" /\ orders'[x].point = orders[x].point
               /\ orders'[x].items = orders[x].items
        /\ \A x \in Req : orders[x].status = "open" /\ orders'[x].status # "open" => OrderRow(x) \in held[q]
    BY <1>2, <1>8
  <2> QED BY <1>9, <1>14, <2>1, <2>2 DEF Writes
<1>16. SubmitsSettle'
  <2>1. ASSUME NEW x \in OrderIds', NEW y \in OrderIds', orders'[x].key # NoKey,
               orders'[x].key = orders'[y].key, orders'[x].customer = orders'[y].customer
        PROVE  x = y
    <3>1. x \in OrderIds /\ y \in OrderIds /\ x \in Req /\ y \in Req
      BY <1>9, IdsFinite
    <3> QED BY <1>0, <1>8, <2>1, <3>1 DEF SubmitsSettle
  <2>2. ASSUME NEW c \in Customers PROVE Cardinality(OpenOf(c)') <= MaxOpenOrders
    <3>1. Cardinality(OpenOf(c)') <= Cardinality(OpenOf(c)) /\ Cardinality(OpenOf(c)') \in Nat
      BY <1>14, IdsFinite, FS_Subset, FS_CardinalityType
    <3>2. Cardinality(OpenOf(c)) <= MaxOpenOrders
      BY <1>0 DEF SubmitsSettle, OpenOf
    <3> QED BY <3>1, <3>2, IdsFinite, ShelvesAssumption
  <2>3. {orders'[x].number : x \in OrderIds'} = {orders[x].number : x \in OrderIds}
    BY <1>8, <1>9, IdsFinite
  <2> QED BY <1>0, <1>9, <2>1, <2>2, <2>3 DEF SubmitsSettle, OpenOf
<1>17. PICK a \in [Req -> Orders], b \in [Req -> Orders], S \in SUBSET Req :
           a = orders /\ b = orders' /\ S = OpenOrders'
  BY <1>0, <1>8, <1>9, IdsFinite DEF Types
<1>18. OpenOrders = S \cup {o} /\ OneApart(S, o, a, b)
  BY <1>8, <1>9, <1>17 DEF OneApart
<1>19. ASSUME NEW r \in Points, NEW v \in Variants
       PROVE  taken(r, v) = (IF p = r THEN items[v] ELSE 0) + taken(r, v)'
  <2>1. taken(r, v) = SumFunctionOnSet(Takes(a, r, v), S \cup {o})
        /\ taken(r, v)' = SumFunctionOnSet(Takes(b, r, v), S)
    BY <1>17, <1>18 DEF taken, Takes
  <2>2. Takes(a, r, v)[o] = IF p = r THEN items[v] ELSE 0
    BY <1>3, <1>17 DEF Takes
  <2>3. AddsUp(Takes(a, r, v), Takes(b, r, v), S, o)
    BY <1>18, OneMoreTaken
  <2> QED BY <2>1, <2>2, <2>3 DEF AddsUp
<1>20. ASSUME NEW m \in Products PROVE sold(m) = units(m, items) + sold(m)'
  <2>1. sold(m) = SumFunctionOnSet(Sells(a, m), S \cup {o}) /\ sold(m)' = SumFunctionOnSet(Sells(b, m), S)
    BY <1>17, <1>18 DEF sold, Sells
  <2>2. AddsUp(Sells(a, m), Sells(b, m), S, o)
    BY <1>18, OneMoreSold
  <2>3. Sells(a, m)[o] = units(m, items)
    BY <1>3, <1>17 DEF Sells
  <2> QED BY <2>1, <2>2, <2>3 DEF AddsUp
<1>22. StockFollowsOrders'
  <2>1. ASSUME NEW r \in Points, NEW v \in Variants
        PROVE  stock'[r][v] >= 0 /\ stock'[r][v] + taken(r, v)' = InitStock + adjusted'[r][v]
    <3>1. stock[r][v] \in Int /\ adjusted[r][v] \in Int /\ items[v] \in Nat
          /\ InitStock \in Nat
      BY <1>0, ShelvesAssumption DEF Types, Shelves
    <3>2. taken(r, v) \in Nat /\ taken(r, v)' \in Nat
      <4>1. taken(r, v)' = SumFunctionOnSet(Takes(b, r, v), S)
        BY <1>17 DEF taken, Takes
      <4>2. SumFunctionOnSet(Takes(b, r, v), S) \in Nat
        BY TakesNat
      <4> QED BY <1>0, <4>1, <4>2, TakenNat
    <3>3. stock[r][v] >= 0 /\ stock[r][v] + taken(r, v) = InitStock + adjusted[r][v]
      BY <1>0 DEF StockFollowsOrders
    <3>4. stock'[r][v] = IF r = p THEN stock[r][v] + items[v] ELSE stock[r][v]
      BY <1>13
    <3>5. taken(r, v) = (IF r = p THEN items[v] ELSE 0) + taken(r, v)'
      BY <1>19
    <3> QED BY <1>6, <3>1, <3>2, <3>3, <3>4, <3>5
  <2>2. ASSUME NEW m \in Products PROVE sales'[m] = sold(m)'
    <3>1. sales[m] = sold(m)
      BY <1>0 DEF StockFollowsOrders
    <3>2. sales'[m] = sales[m] - units(m, items)
      BY <1>6
    <3>3. sold(m) = units(m, items) + sold(m)'
      BY <1>20
    <3>4. sold(m)' \in Nat
      <4>1. sold(m)' = SumFunctionOnSet(Sells(b, m), S)
        BY <1>17 DEF sold, Sells
      <4> QED BY <4>1, SellsNat
    <3> QED BY <1>11, <3>1, <3>2, <3>3, <3>4
  <2> QED BY <2>1, <2>2 DEF StockFollowsOrders
<1>23. \A t \in Req : orders'[t].status # "none" => orders[t].status # "none"
  BY <1>2, <1>8
<1>24. orders[q].status = "none"
  BY <1>0 DEF Request, Phases
<1> QED BY <1>8, <1>12, <1>15, <1>16, <1>22, <1>23, <1>24, Commits

\* A staff write that moves the adjustments with the shelf, on rows it holds.
StaffWrite(q, p, s, a) ==
    /\ p \in Points /\ s \in [Variants -> Nat] /\ a \in [Variants -> Int]
    /\ stock' = [stock EXCEPT ![p] = s] /\ adjusted' = [adjusted EXCEPT ![p] = a]
    /\ \A v \in Variants : StockRow(p, v) \notin held[q] => s[v] = stock[p][v]
    /\ \A v \in Variants : a[v] = adjusted[p][v] + s[v] - stock[p][v]
    /\ UNCHANGED <<orders, sales>>

LEMMA StaffWrites ==
    ASSUME IInv, NEW q \in Req, pc[q] = "running", end(q, "committed"),
           UNCHANGED <<input, admitted, point, stale, seen, clash, number>>,
           NEW p, NEW s, NEW a, StaffWrite(q, p, s, a)
    PROVE  IInv'
<1> USE DEF StaffWrite
<1>0. Types /\ Request(q) /\ SubmitsSettle /\ StockFollowsOrders
  BY DEF IInv
<1>1. orders' \in [Req -> Orders] /\ stock' \in Shelves /\ adjusted' \in Shelves /\ sales' \in [Products -> Int]
  <2>1. s \in [Variants -> Int]
    OBVIOUS
  <2> QED BY <1>0, <2>1 DEF Types, Shelves
<1>2. \A r \in Points, v \in Variants :
          /\ stock'[r][v] = IF r = p THEN s[v] ELSE stock[r][v]
          /\ adjusted'[r][v] = IF r = p THEN a[v] ELSE adjusted[r][v]
  BY <1>0 DEF Types, Shelves
<1>3. Writes(held[q])
  BY <1>2 DEF Writes, OpenOf, withKey, OrderIds, OpenOrders
<1>4. SubmitsSettle'
  BY <1>0 DEF SubmitsSettle, OrderIds, OpenOrders
<1>5. StockFollowsOrders'
  <2>1. ASSUME NEW r \in Points, NEW v \in Variants
        PROVE  stock'[r][v] >= 0 /\ stock'[r][v] + taken(r, v)' = InitStock + adjusted'[r][v]
    <3>1. stock[r][v] \in Int /\ adjusted[r][v] \in Int /\ s[v] \in Nat /\ taken(r, v) \in Nat
          /\ InitStock \in Nat
      BY <1>0, TakenNat, ShelvesAssumption DEF Types, Shelves
    <3>2. stock[r][v] >= 0 /\ stock[r][v] + taken(r, v) = InitStock + adjusted[r][v]
      BY <1>0 DEF StockFollowsOrders
    <3>3. taken(r, v)' = taken(r, v)
      BY DEF taken, OpenOrders
    <3>4. a[v] = adjusted[p][v] + s[v] - stock[p][v]
      OBVIOUS
    <3> QED BY <1>2, <3>1, <3>2, <3>3, <3>4
  <2>2. ASSUME NEW m \in Products PROVE sales'[m] = sold(m)'
    BY <1>0 DEF StockFollowsOrders, sold, OpenOrders
  <2> QED BY <2>1, <2>2 DEF StockFollowsOrders
<1>6. orders[q].status = "none" /\ orders' = orders
  BY <1>0 DEF Request, Phases
<1> QED BY <1>1, <1>3, <1>4, <1>5, <1>6, Commits

LEMMA StaffFields ==
    ASSUME NEW q, input[q] \in Inputs, kind(q) \in {"import", "form"}
    PROVE  input[q].point \in Points /\ input[q].qty \in Nat /\ fileVariants(q) \in SUBSET Variants
<1>1. input[q] \in StaffInputs
  BY InputKinds DEF kind
<1>2. input[q].point \in Points /\ input[q].qty \in Nat /\ input[q].file \in Seq(Variants)
  BY <1>1 DEF StaffInputs
<1>3. \A i \in DOMAIN input[q].file : input[q].file[i] \in Variants
  BY <1>2
<1> QED BY <1>2, <1>3 DEF fileVariants

LEMMA CommitImportPreserves ==
    ASSUME IInv, NEW q \in Req, pc[q] = "running", plan[q] = <<>>, kind(q) = "import",
           commitImport(q), end(q, "committed"),
           UNCHANGED <<input, admitted, point, stale, seen, clash, number>>
    PROVE  IInv'
<1>0. Types /\ Request(q) /\ StockFollowsOrders /\ Elems(plan[q]) = {} /\ Runs(q, {"import"})
  BY OneElem DEF IInv, Runs
<1>1. PICK p \in Points, n \in Nat, F \in SUBSET Variants :
          p = input[q].point /\ n = input[q].qty /\ F = fileVariants(q)
  BY <1>0, StaffFields DEF Request, Phases, Runs
<1>2. \A v \in F : StockRow(p, v) \in held[q]
  BY <1>0, <1>1 DEF Request, Covers
<1> DEFINE s == [v \in Variants |-> IF v \in F THEN n ELSE stock[p][v]]
           a == [v \in Variants |-> adjusted[p][v] + s[v] - stock[p][v]]
<1>3. stock' = [stock EXCEPT ![p] = s] /\ adjusted' = [adjusted EXCEPT ![p] = a] /\ orders' = orders /\ sales' = sales
  BY <1>0, <1>1 DEF commitImport, Types, Shelves
<1>4. \A v \in Variants : stock[p][v] \in Nat /\ adjusted[p][v] \in Int
  BY <1>0 DEF Types, Shelves, StockFollowsOrders
<1>5. s \in [Variants -> Nat]
  BY <1>4
<1>6. \A v \in Variants : s[v] \in Nat /\ (StockRow(p, v) \notin held[q] => s[v] = stock[p][v])
  BY <1>2, <1>5
<1> HIDE DEF s
<1>7. a \in [Variants -> Int] /\ \A v \in Variants : a[v] = adjusted[p][v] + s[v] - stock[p][v]
  BY <1>4, <1>6
<1> HIDE DEF a
<1>8. StaffWrite(q, p, s, a)
  BY <1>3, <1>5, <1>6, <1>7 DEF StaffWrite
<1> QED BY <1>8, StaffWrites

LEMMA CommitFormPreserves ==
    ASSUME IInv, NEW q \in Req, pc[q] = "running", plan[q] = <<>>, kind(q) = "form",
           commitForm(q), end(q, "committed"),
           UNCHANGED <<input, admitted, point, stale, seen, clash, number>>
    PROVE  IInv'
<1>0. Types /\ Request(q) /\ StockFollowsOrders /\ Elems(plan[q]) = {} /\ Runs(q, {"form"}) /\ q \notin clash
  BY OneElem DEF IInv, Runs, commitForm
<1>1. PICK p \in Points, n \in Nat, F \in SUBSET Variants :
          p = input[q].point /\ n = input[q].qty /\ F = fileVariants(q)
  BY <1>0, StaffFields DEF Request, Phases, Runs
<1>2. \A v \in F : StockRow(p, v) \in held[q] /\ stock[p][v] = seen[q][v]
  BY <1>0, <1>1 DEF Request, Covers, FormReads
<1> DEFINE d(v) == IF v \in F THEN n ELSE 0
           s == [v \in Variants |-> stock[p][v] + d(v)]
           a == [v \in Variants |-> adjusted[p][v] + d(v)]
<1>3. \A v \in Variants : stock[p][v] \in Nat /\ adjusted[p][v] \in Int /\ d(v) \in Nat
  BY <1>0 DEF Types, Shelves, StockFollowsOrders
<1>4. stock' = [stock EXCEPT ![p] = s] /\ adjusted' = [adjusted EXCEPT ![p] = a] /\ orders' = orders /\ sales' = sales
  <2>1. stock' = [stock EXCEPT ![p] = [v \in Variants |-> IF v \in F THEN seen[q][v] + n ELSE stock[p][v]]]
        /\ adjusted' = [adjusted EXCEPT ![p] = a] /\ orders' = orders /\ sales' = sales
    BY <1>0, <1>1 DEF commitForm, Types, Shelves
  <2>2. \A v \in Variants : (IF v \in F THEN seen[q][v] + n ELSE stock[p][v]) = stock[p][v] + d(v)
    BY <1>2, <1>3
  <2>3. [v \in Variants |-> IF v \in F THEN seen[q][v] + n ELSE stock[p][v]] = s
    BY <2>2
  <2> QED BY <2>1, <2>3
<1>5. s \in [Variants -> Nat] /\ a \in [Variants -> Int]
  BY <1>3
<1>6. \A v \in Variants : s[v] \in Nat /\ (StockRow(p, v) \notin held[q] => s[v] = stock[p][v])
  BY <1>2, <1>3
<1>7. \A v \in Variants : a[v] = adjusted[p][v] + s[v] - stock[p][v]
  BY <1>3
<1> HIDE DEF s, a, d
<1>8. StaffWrite(q, p, s, a)
  BY <1>4, <1>5, <1>6, <1>7 DEF StaffWrite
<1> QED BY <1>8, StaffWrites

LEMMA DeletionPreserves ==
    ASSUME IInv, NEW q \in Req, pc[q] = "running", deleteCustomer(q), end(q, "committed"),
           UNCHANGED <<input, admitted, point, stale, seen, clash, number>>
    PROVE  IInv'
<1>0. Types /\ Request(q) /\ SubmitsSettle /\ StockFollowsOrders
  BY DEF IInv
<1>1. orders' = orders /\ stock' = stock /\ sales' = sales /\ adjusted' = adjusted
  BY DEF deleteCustomer
<1>2. Writes(held[q])
  BY <1>1 DEF Writes, OpenOf, withKey, OrderIds, OpenOrders
<1>3. SubmitsSettle'
  BY <1>0, <1>1 DEF SubmitsSettle, OrderIds, OpenOrders
<1>4. StockFollowsOrders'
  BY <1>0, <1>1 DEF StockFollowsOrders, taken, sold, OpenOrders
<1>5. orders[q].status = "none"
  BY <1>0 DEF Request, Phases
<1> QED BY <1>0, <1>1, <1>2, <1>3, <1>4, <1>5, Commits DEF Types

LEMMA CommitPreserves == ASSUME IInv, NEW q \in Req, commit(q) PROVE IInv'
<1>1. /\ pc[q] = "running" /\ plan[q] = <<>> /\ end(q, "committed")
      /\ UNCHANGED <<input, admitted, point, stale, seen, clash, number>>
  BY DEF commit
<1>2. input[q] \in Inputs
  BY <1>1 DEF IInv, Request, Phases
<1>3. kind(q) \in {"checkout", "cancel", "abort", "import", "form", "deleteCustomer"}
  BY <1>2, InputKinds DEF kind
<1>4. CASE kind(q) = "checkout"
  <2>1. commitCheckout(q)
    BY <1>4 DEF commit, kind
  <2> QED BY <1>1, <1>4, <2>1, CommitCheckoutPreserves
<1>5. CASE kind(q) \in {"cancel", "abort"}
  <2>1. commitCancel(q)
    BY <1>5 DEF commit, kind
  <2> QED BY <1>1, <1>5, <2>1, CommitCancelPreserves
<1>6. CASE kind(q) = "import"
  <2>1. commitImport(q)
    BY <1>6 DEF commit, kind
  <2> QED BY <1>1, <1>6, <2>1, CommitImportPreserves
<1>7. CASE kind(q) = "form"
  <2>1. commitForm(q)
    BY <1>7 DEF commit, kind
  <2> QED BY <1>1, <1>7, <2>1, CommitFormPreserves
<1>8. CASE kind(q) = "deleteCustomer"
  <2>1. deleteCustomer(q)
    BY <1>8 DEF commit, kind
  <2> QED BY <1>1, <2>1, DeletionPreserves
<1> QED BY <1>3, <1>4, <1>5, <1>6, <1>7, <1>8

\* An order leaves the idempotency window: nothing that is relied on changes.
LEMMA AgePreserves == ASSUME IInv, NEW o \in Req, age(o) PROVE IInv'
<1>0. Types /\ Exclusive /\ SubmitsSettle /\ StockFollowsOrders /\ orders[o] \in Orders
  BY DEF IInv, Types
<1>1. orders' = [orders EXCEPT ![o] = [orders[o] EXCEPT !.fresh = FALSE]]
  BY <1>0 DEF age, Types
<1>2. /\ UNCHANGED <<pc, input, plan, held, admitted, point, stale, seen, clash, number>>
      /\ UNCHANGED <<stock, sales, adjusted>>
  BY DEF age
<1> DEFINE row == [orders[o] EXCEPT !.fresh = FALSE]
<1>3. /\ row \in Orders /\ row.customer = orders[o].customer /\ row.key = orders[o].key
      /\ row.items = orders[o].items /\ row.point = orders[o].point /\ row.number = orders[o].number
      /\ row.status = orders[o].status
  BY <1>0 DEF Orders
<1>4. orders' \in [Req -> Orders] /\ orders'[o] = row /\ \A x \in Req : x # o => orders'[x] = orders[x]
  BY <1>0, <1>1, <1>3 DEF Types
<1> HIDE DEF row
<1>5. \A x \in Req : /\ orders'[x].customer = orders[x].customer /\ orders'[x].key = orders[x].key
                     /\ orders'[x].items = orders[x].items /\ orders'[x].point = orders[x].point
                     /\ orders'[x].number = orders[x].number /\ orders'[x].status = orders[x].status
  BY <1>3, <1>4
<1>6. OrderIds' = OrderIds /\ OpenOrders' = OpenOrders
  BY <1>5 DEF OrderIds, OpenOrders
<1>7. Types'
  BY <1>0, <1>2, <1>4 DEF Types
<1>8. Exclusive'
  BY <1>0, <1>2 DEF Exclusive
<1>9. \A c : OpenOf(c)' = OpenOf(c) /\ \A k : withKey(c, k)' = withKey(c, k)
  BY <1>5, <1>6, IdsFinite DEF OpenOf, withKey
<1>10. Writes({})
  BY <1>2, <1>5, <1>6, <1>9 DEF Writes
<1>11. ASSUME NEW t \in Req PROVE Request(t)'
  <2>1. Request(t) /\ Rests(t)
    BY <1>2 DEF IInv, Rests
  <2>2. orders'[t].status # "none" => orders[t].status # "none"
    BY <1>5
  <2> QED BY <1>0, <1>10, <2>1, <2>2, Undisturbed
<1>12. SubmitsSettle'
  <2>1. \A x \in OrderIds : x \in Req
    BY IdsFinite
  <2>2. {orders'[x].number : x \in OrderIds} = {orders[x].number : x \in OrderIds}
    BY <1>5, <2>1
  <2>3. \A c \in Customers : Cardinality(OpenOf(c)') <= MaxOpenOrders
    BY <1>0, <1>9 DEF SubmitsSettle, OpenOf
  <2> QED BY <1>0, <1>5, <1>6, <2>1, <2>2, <2>3 DEF SubmitsSettle, OpenOf
<1>13. \A p, v : taken(p, v)' = taken(p, v)
  BY <1>5, <1>6 DEF taken
<1>14. \A m : sold(m)' = sold(m)
  BY <1>5, <1>6 DEF sold
<1>15. StockFollowsOrders'
  BY <1>0, <1>2, <1>13, <1>14 DEF StockFollowsOrders
<1> QED BY <1>7, <1>8, <1>11, <1>12, <1>15 DEF IInv

-----------------------------------------------------------------------------
LEMMA Initial == Init => IInv
<1> SUFFICES ASSUME Init PROVE IInv
  OBVIOUS
<1> USE DEF Init
<1>1. NoOrder \in Orders /\ NoOrder.status = "none"
  BY DEF NoOrder, Orders
<1>2. <<>> \in Seq(Locks)
  OBVIOUS
<1>3. Types
  BY <1>1, <1>2, ShelvesAssumption DEF Types, Shelves
<1>4. Exclusive
  BY DEF Exclusive
<1>5. OrderIds = {} /\ OpenOrders = {}
  BY <1>1 DEF OrderIds, OpenOrders
<1>6. \A q \in Req : pc[q] = "idle" /\ held[q] = {} /\ plan[q] = <<>> /\ orders[q].status = "none"
  BY <1>1
<1>7. \A q \in Req : Request(q)
  BY <1>6 DEF Request, Phases, Covers, Ordered, CheckoutReads, CancelReads, FormReads, Runs, Admitted
<1>8. SubmitsSettle
  <2>1. Cardinality({}) = 0
    BY FS_EmptySet
  <2>2. 1..0 = {}
    OBVIOUS
  <2>3. \A c \in Customers : {o \in OpenOrders : orders[o].customer = c} = {}
    BY <1>5
  <2> QED BY <1>5, <2>1, <2>2, <2>3, ShelvesAssumption DEF SubmitsSettle
<1>9. StockFollowsOrders
  <2>1. \A p \in Points, v \in Variants : taken(p, v) = 0
    BY <1>5, SumEmpty DEF taken
  <2>2. \A m \in Products : sold(m) = 0
    BY <1>5, SumEmpty DEF sold
  <2> QED BY <2>1, <2>2, ShelvesAssumption DEF StockFollowsOrders
<1> QED BY <1>3, <1>4, <1>7, <1>8, <1>9 DEF IInv

\* A member of a wait cycle is a running transaction.
LEMMA CycleRuns == ASSUME NEW q, NEW S, inCycle(q, S) PROVE pc[q] = "running"
<1> DEFINE waiting == {t \in S : \E u \in S : waitsFor(t, u)}
<1>1. PICK n \in 2..Cardinality(waiting) : \E w \in [1..n -> waiting] :
          w[1] = q /\ \A i \in 1..n : waitsFor(w[i], w[IF i = n THEN 1 ELSE i + 1])
  BY DEF inCycle
<1>2. PICK w \in [1..n -> waiting] : w[1] = q
  BY <1>1
<1>3. 1 \in 1..n
  BY <1>1
<1> QED BY <1>2, <1>3 DEF waitsFor

LEMMA Inductive == IInv /\ [Next]_vars => IInv'
<1> SUFFICES ASSUME IInv, [Next]_vars PROVE IInv'
  OBVIOUS
<1>1. ASSUME NEW q \in Req, NEW in \in Inputs, begin(q, in) PROVE IInv'
  BY <1>1, BeginPreserves
<1>2. ASSUME NEW q \in Req, step(q) PROVE IInv'
  BY <1>2, StatementPreserves, ReplayPreserves, AdmitPreserves, CommitPreserves, RollbackPreserves
     DEF step, conflict
<1>3. ASSUME NEW q \in Req, fail(q) \/ deadlockVictim(q) PROVE IInv'
  BY <1>3, RollbackPreserves, CycleRuns DEF fail, deadlockVictim
<1>4. ASSUME NEW q \in Req, age(q) PROVE IInv'
  BY <1>4, AgePreserves
<1>5. CASE UNCHANGED vars
  <2>1. UNCHANGED <<pc, input, plan, held, admitted, point, stale, seen, clash, number>> /\ UNCHANGED tables
    BY <1>5 DEF vars, tables
  <2>2. Types' /\ Exclusive'
    BY <2>1 DEF IInv, Types, Exclusive, tables
  <2>3. \A t \in Req : Request(t) /\ Rests(t)
    BY <2>1 DEF IInv, Rests
  <2> QED BY <2>1, <2>2, <2>3, UntouchedTables
<1> QED BY <1>1, <1>2, <1>3, <1>4, <1>5 DEF Next

\* What each transaction has read is still so while it holds its locks, after
\* every statement of every other transaction (createOrder, cancelLockedTx,
\* SetStock, writeStockCellTx).
THEOREM Invariance == Spec => []IInv
BY Initial, Inductive, PTL DEF Spec

-----------------------------------------------------------------------------
(***************************************************************************)
(* However many checkouts of however many customers interleave, a double   *)
(* submit places one order, nobody exceeds the limit of open orders, and   *)
(* order numbers have neither duplicates nor gaps (createOrder).           *)
(***************************************************************************)
THEOREM DoubleSubmitsSettle == Spec => []SubmitsSettle
BY Invariance, PTL DEF IInv

(***************************************************************************)
(* No shelf is oversold and no reservation or staff edit is lost, for any  *)
(* interleaving of checkouts, cancellations, imports and product forms     *)
(* (lockAndDecrementStock, cancelLockedTx, SetStock, writeStockCellTx).    *)
(***************************************************************************)
THEOREM NothingOversold == Spec => []StockFollowsOrders
BY Invariance, PTL DEF IInv

\* A request that waits asks for a later lock than the one it keeps another
\* request waiting for.
LEMMA WaitsRise ==
    ASSUME IInv, NEW q \in ShopRequests, NEW t \in ShopRequests, NEW u,
           waitsFor(q, t), waitsFor(t, u)
    PROVE  Head(plan[q]) \in Locks /\ Head(plan[t]) \in Locks /\ Before(Head(plan[q]), Head(plan[t]))
<1>1. q \in Req /\ t \in Req /\ Runs(t, {"checkout", "cancel", "abort", "deleteCustomer"})
  BY DEF ShopRequests, waitsFor, Runs, kind
<1>2. plan[q] \in Seq(Locks) /\ plan[t] \in Seq(Locks) /\ plan[q] # <<>> /\ plan[t] # <<>>
  BY <1>1 DEF IInv, Types, waitsFor
<1>3. Head(plan[q]) \in Locks /\ Head(plan[t]) \in Locks /\ Head(plan[t]) \in Elems(plan[t])
  BY <1>2, TailElems
<1>4. \A r \in held[t], s \in Elems(plan[t]) : Before(r, s)
  BY <1>1 DEF IInv, Request, Ordered
<1> QED BY <1>3, <1>4 DEF waitsFor

(***************************************************************************)
(* Customers' requests never deadlock each other: along a chain of waits   *)
(* the awaited locks rise in one order, so no chain closes                 *)
(* (mergeItemQuantities, itemsInProductOrder, cancelLockedTx).             *)
(***************************************************************************)
THEOREM CustomersNeverDeadlock == Spec => []NoShopDeadlock
<1>1. IInv => NoShopDeadlock
  <2> SUFFICES ASSUME IInv, NEW q \in ShopRequests, inCycle(q, ShopRequests)
               PROVE  FALSE
    BY DEF NoShopDeadlock
  <2> DEFINE waiting == {t \in ShopRequests : \E u \in ShopRequests : waitsFor(t, u)}
  <2>1. PICK n \in 2..Cardinality(waiting) : \E w \in [1..n -> waiting] :
            w[1] = q /\ \A i \in 1..n : waitsFor(w[i], w[IF i = n THEN 1 ELSE i + 1])
    BY DEF inCycle
  <2>2. PICK w \in [1..n -> waiting] :
            w[1] = q /\ \A i \in 1..n : waitsFor(w[i], w[IF i = n THEN 1 ELSE i + 1])
    BY <2>1
  <2>3. n \in Nat /\ n >= 2
    BY <2>1
  <2> DEFINE lock(i) == Head(plan[w[i]])
  <2>4. \A i \in 1..n : w[i] \in ShopRequests /\ lock(i) \in Locks
    <3> SUFFICES ASSUME NEW i \in 1..n PROVE w[i] \in ShopRequests /\ lock(i) \in Locks
      OBVIOUS
    <3>1. w[i] \in ShopRequests /\ w[i] \in Req /\ plan[w[i]] # <<>>
      BY <2>2 DEF ShopRequests, waitsFor
    <3>2. plan[w[i]] \in Seq(Locks)
      BY <3>1 DEF IInv, Types
    <3> QED BY <3>1, <3>2, TailElems
  \* One step along the cycle: the lock waited for is a later one.
  <2>5. \A i \in 1..n : Before(lock(i), lock(IF i = n THEN 1 ELSE i + 1))
    <3> SUFFICES ASSUME NEW i \in 1..n PROVE Before(lock(i), lock(IF i = n THEN 1 ELSE i + 1))
      OBVIOUS
    <3> DEFINE j == IF i = n THEN 1 ELSE i + 1
               k == IF j = n THEN 1 ELSE j + 1
    <3>1. j \in 1..n
      BY <2>3
    <3>2. waitsFor(w[i], w[j]) /\ waitsFor(w[j], w[k])
      BY <2>2, <3>1
    <3> QED BY <2>4, <3>1, <3>2, WaitsRise
  \* The whole way round: every request of the cycle waits for a later lock than q.
  <2> DEFINE D == {i \in 2..n : ~Before(lock(1), lock(i))}
  <2>6. D = {}
    <3> SUFFICES ASSUME D # {} PROVE FALSE
      OBVIOUS
    <3>0. D \subseteq Nat
      BY <2>3
    <3>1. PICK i \in D : \A j \in D : i <= j
      <4> HIDE DEF D
      <4> QED BY <3>0, NatLeast
    <3>2. i \in 2..n /\ i - 1 \in 1..n /\ i - 1 # n /\ (i - 1) + 1 = i
      BY <2>3, <3>1
    <3>3. Before(lock(i - 1), lock(i))
      BY <2>5, <3>2
    <3>4. i - 1 = 1 \/ Before(lock(1), lock(i - 1))
      BY <2>3, <3>1, <3>2
    <3>5. 1 \in 1..n /\ i \in 1..n
      BY <2>3, <3>2
    <3>6. Before(lock(1), lock(i))
      BY <2>4, <3>2, <3>3, <3>4, <3>5, BeforeOrder
    <3> QED BY <3>1, <3>6
  <2>7. Before(lock(1), lock(n)) /\ Before(lock(n), lock(1))
    BY <2>3, <2>5, <2>6
  <2> QED BY <2>3, <2>4, <2>7, BeforeOrder
<1> QED BY <1>1, Invariance, PTL
=============================================================================
