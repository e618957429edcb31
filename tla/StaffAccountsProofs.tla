------------------------- MODULE StaffAccountsProofs -------------------------
(***************************************************************************)
(* Proofs about StaffAccounts for any number of requests and accounts: an  *)
(* active owner remains, a number has one account, no edit brings an old   *)
(* password back, sessions follow the password and guesses stay bounded.   *)
(*                                                                         *)
(* The inductive invariant says what a transaction of Repo.Update knows    *)
(* while it holds its rows: the password it read is the present one        *)
(* (Holding), and whoever it counted is an active owner it has locked      *)
(* (Counting).  Spelling is what is left of a lookup that found nothing    *)
(* when its INSERT runs.  SessionInv adds what a login read before it      *)
(* opened its session, LoginInv the budget: wrong guesses made and on      *)
(* their way are paid for by the limiter's count or by a right one.        *)
(***************************************************************************)
EXTENDS StaffAccounts, FiniteLemmas

Places == {"login", "credentials", "compare", "open", "logout", "session", "gate", "lookup",
           "insert", "recover", "list", "lock", "count", "owners", "write", "set", "revoke", "done"}

Types ==
    /\ in \in [Req -> Asks]
    /\ pc \in [Req -> Places]
    /\ DOMAIN cur = Req
    /\ \A r \in Req : pc[r] = "recover" => cur[r].id \in Ids
    /\ todo \in [Req -> SUBSET Ids]
    /\ others \in [Req -> Nat]
    /\ staff \in [Ids -> Rows]
    /\ lock \in [Ids -> Req \cup {0}]

\* Only the requests of the admin pages pass the gate.
Gated ==
    \A r \in Req : pc[r] \in {"session", "gate"} =>
        in[r].kind \in {"create", "edit", "toggle", "reset"}

\* An open Repo.Update holds its account and has read its present password.
Holding ==
    \A r \in Req : pc[r] \in {"count", "owners", "write"} =>
        /\ lock[target(r)] = r
        /\ exists(target(r))
        /\ cur[r].row.pw = staff[target(r)].pw

\* Another active owner the request holds.
Holds(r) == \E a \in Ids : a # target(r) /\ lock[a] = r /\ activeOwner(a)

Counting ==
    \A r \in Req :
        /\ pc[r] = "owners" => target(r) \notin todo[r]
        /\ pc[r] = "owners" /\ others[r] > 0 => Holds(r)
        /\ pc[r] = "write" /\ losesOwnerStatus(r, staff[target(r)]) => Holds(r)

\* No legacy spelling of the number a request is about to insert.
Spelling ==
    \A r \in Req : pc[r] = "insert" =>
        \A a \in Ids : exists(a) /\ staff[a].number = in[r].number => staff[a].normalized

IInv == Types /\ Gated /\ Holding /\ Counting /\ Spelling /\ ActiveOwnerRemains /\ OneAccountPerNumber

-----------------------------------------------------------------------------
(* Sessions.  A login knows an account of the table, and a session keeps    *)
(* its account: what SessionsFollowPassword needs to be inductive.          *)

Sessions == [by : Req \cup {0}, account : Ids, pw : Passwords, raced : BOOLEAN,
             state : {"live", "revoked", "expired"}]

Opened == sessions \subseteq Sessions /\ \A s \in sessions : exists(s.account)

Looked ==
    \A r \in Req :
        /\ pc[r] \in {"compare", "open"} /\ cur[r] # NoAccount =>
               cur[r].id \in Ids /\ cur[r].row \in Rows /\ exists(cur[r].id)
        /\ pc[r] = "open" => cur[r] # NoAccount

SessionInv == Opened /\ Looked /\ SessionsFollowPassword

-----------------------------------------------------------------------------
(* The login budget.  An admitted attempt that has not compared its         *)
(* password yet will count as wrong if its window is still open: the budget *)
(* spent and given back pays for the wrong passwords and for those.         *)

Trying(r) == pc[r] \in {"credentials", "compare"}
InFlight(n) == {r \in Req : Trying(r) /\ in[r].number = n /\ admitted[r] = window[n]}

Counters ==
    /\ attempts \in [LimiterKeys -> Nat] /\ window \in [LimiterKeys -> Nat]
    /\ admitted \in [Req -> Nat]
    /\ ledger \in [Numbers -> [wrong : Nat, right : Nat]]

Budget ==
    /\ \A r \in Req : Trying(r) => admitted[r] <= window[in[r].number]
    /\ \A n \in Numbers :
        /\ attempts[n] <= PhoneLimit
        /\ ledger[n].wrong + Cardinality(InFlight(n)) <= PhoneLimit * ledger[n].right + attempts[n]

LoginInv == Counters /\ Budget

-----------------------------------------------------------------------------
LEMMA ZeroIsNoRequest == 0 \notin Req
BY StaffAssumption

\* getByPhone returns no account only if there is none.
LEMMA FoundNone ==
    ASSUME NEW n, found(n) = NoAccount
    PROVE  \A a \in Ids : ~(exists(a) /\ staff[a].number = n)
<1> DEFINE all == {a \in Ids : exists(a) /\ staff[a].number = n}
           exact == {a \in all : staff[a].normalized}
           a0 == CHOOSE b \in (IF exact = {} THEN all ELSE exact) : TRUE
<1>1. CASE all # {}
  <2>1. found(n) = [id |-> a0, row |-> staff[a0]]
    BY <1>1 DEF found
  <2>2. "row" \in DOMAIN found(n)
    BY <2>1
  <2>3. "row" \notin DOMAIN NoAccount
    BY DEF NoAccount
  <2> QED BY <2>2, <2>3
<1> QED BY <1>1

\* ... and otherwise one of the table.
LEMMA FoundSome ==
    ASSUME NEW n, found(n) # NoAccount
    PROVE  found(n).id \in Ids
<1> DEFINE all == {a \in Ids : exists(a) /\ staff[a].number = n}
           exact == {a \in all : staff[a].normalized}
           S == IF exact = {} THEN all ELSE exact
           a0 == CHOOSE b \in S : TRUE
<1>1. all # {} /\ found(n) = [id |-> a0, row |-> staff[a0]]
  BY DEF found
<1>2. S # {} /\ S \subseteq Ids
  BY <1>1
<1>3. a0 \in S
  BY <1>2
<1> HIDE DEF a0, S
<1> QED BY <1>1, <1>2, <1>3

LEMMA Initial == Init => IInv
<1> SUFFICES ASSUME Init PROVE IInv
    OBVIOUS
<1> USE StaffAssumption DEF Init
<1>1. Types
  <2>1. in \in [Req -> Asks]
    OBVIOUS
  <2>2. \A r \in Req : entry(in[r]) \in Places
    BY <2>1 DEF entry, Asks, Places
  <2>3. pc \in [Req -> Places]
    BY <2>2
  <2>4. lock \in [Ids -> Req \cup {0}] /\ todo \in [Req -> SUBSET Ids] /\ others \in [Req -> Nat]
    OBVIOUS
  <2>5. \A r \in Req : pc[r] # "recover"
    BY <2>1 DEF entry, Asks
  <2> QED BY <2>1, <2>3, <2>4, <2>5 DEF Types
<1>2. Gated
  BY DEF Gated, entry, Asks
<1>3. Holding /\ Counting /\ Spelling
  BY DEF Holding, Counting, Spelling, entry, Asks
<1>4. ActiveOwnerRemains /\ OneAccountPerNumber
  BY DEF ActiveOwnerRemains, OneAccountPerNumber, activeOwner, exists
<1> QED BY <1>1, <1>2, <1>3, <1>4 DEF IInv

-----------------------------------------------------------------------------
\* Steps that change no account and no lock, and lead nowhere near one.
LEMMA Aside ==
    ASSUME IInv, NEW r \in Req,
           UNCHANGED <<in, todo, others, staff, lock>>, DOMAIN cur' = Req,
           \A q \in Req \ {r} : cur'[q] = cur[q],
           NEW w \in Places, to(r, w), w \notin {"count", "owners", "write", "insert"},
           w = "recover" => cur'[r].id \in Ids,
           w \in {"session", "gate"} => pc[r] \in {"session", "gate"}
    PROVE  IInv'
<1> USE DEF IInv, to
<1>1. Types'
  BY DEF Types
<1>2. Gated'
  BY DEF Gated, Types
<1>3. Holding'
  BY DEF Holding, Types, target, exists
<1>4. Counting'
  BY DEF Counting, Types, Holds, target, losesOwnerStatus, activeOwner
<1>5. Spelling'
  BY DEF Spelling, Types, exists
<1>6. ActiveOwnerRemains' /\ OneAccountPerNumber'
  BY DEF ActiveOwnerRemains, OneAccountPerNumber, activeOwner, exists
<1> QED BY <1>1, <1>2, <1>3, <1>4, <1>5, <1>6

\* A transaction ends without having written: its rows are free again.
LEMMA RolledBack ==
    ASSUME IInv, NEW r \in Req, lock' = unlocked(r), to(r, "done"),
           UNCHANGED <<in, todo, others, staff, cur>>
    PROVE  IInv'
<1> USE DEF IInv, to, unlocked
<1>0. \A a \in Ids : lock'[a] = IF lock[a] = r THEN 0 ELSE lock[a]
  BY DEF Types
<1>1. Types'
  <2>1. lock' \in [Ids -> Req \cup {0}]
    BY DEF Types
  <2>2. pc' \in [Req -> Places]
    BY DEF Types, Places
  <2> QED BY <2>1, <2>2 DEF Types
<1>2. Gated'
  BY DEF Gated, Types
<1>3. Holding'
  BY <1>0 DEF Holding, Types, target, exists, Asks
<1>4. Counting'
  BY <1>0 DEF Counting, Types, Holds, target, losesOwnerStatus, activeOwner
<1>5. Spelling'
  BY DEF Spelling, Types, exists
<1>6. ActiveOwnerRemains' /\ OneAccountPerNumber'
  BY DEF ActiveOwnerRemains, OneAccountPerNumber, activeOwner, exists
<1> QED BY <1>1, <1>2, <1>3, <1>4, <1>5, <1>6

-----------------------------------------------------------------------------
(***************************************************************************)
(* The steps that matter, one lemma per action.                            *)
(***************************************************************************)
LEMMA TogglePreserves == ASSUME IInv, NEW r \in Req, staffToggle(r) PROVE IInv'
<1> USE DEF IInv, staffToggle, target, at, to, accounts, limiter
<1>0. /\ in' \in [Req -> Asks]
      /\ \A q \in Req : q # r => in'[q] = in[q]
      /\ \A q \in Req : in'[q].kind = in[q].kind /\ in'[q].number = in[q].number /\ in'[q].id = in[q].id
  <2> DEFINE a == in[r].id
             rec == [in[r] EXCEPT !.role = IF exists(a) THEN staff[a].role ELSE @,
                                  !.active = ~staff[a].active, !.newPw = FALSE]
  <2>1. in' = [in EXCEPT ![r] = rec]
    BY DEF Types
  <2>2. in[r] \in Asks /\ staff[a] \in Rows
    BY DEF Types, Asks
  <2>3. rec \in Asks
    BY <2>2 DEF Asks, Rows, exists
  <2>4. rec.kind = in[r].kind /\ rec.number = in[r].number /\ rec.id = in[r].id
    BY <2>2 DEF Asks
  <2> QED BY <2>1, <2>2, <2>3, <2>4, SMTT(20) DEF Types
<1>1. Types'
  BY <1>0 DEF Types, Places
<1>2. Gated'
  BY <1>0 DEF Gated, Types
<1>3. Holding'
  BY <1>0, ZenonT(30) DEF Holding, Types, exists
<1>4. Counting'
  <2>1. \A q \in Req : Holds(q) => Holds(q)'
    BY <1>0 DEF Holds, activeOwner
  <2>2. pc' = [pc EXCEPT ![r] = IF exists(in[r].id) THEN "lock" ELSE "done"]
    OBVIOUS
  <2>3. pc'[r] \notin {"owners", "write"} /\ \A q \in Req : q # r => pc'[q] = pc[q]
    BY <2>2 DEF Types
  <2> QED BY <2>1, <2>3, <1>0, ZenonT(30) DEF Counting, Types, losesOwnerStatus
<1>5. Spelling'
  BY <1>0 DEF Spelling, Types, exists
<1>6. ActiveOwnerRemains' /\ OneAccountPerNumber'
  BY DEF ActiveOwnerRemains, OneAccountPerNumber, activeOwner, exists
<1> QED BY <1>1, <1>2, <1>3, <1>4, <1>5, <1>6

LEMMA LockPreserves == ASSUME IInv, NEW r \in Req, lockStaff(r) PROVE IInv'
<1> USE DEF IInv, to
<1>0. target(r) \in Ids
  BY DEF Types, Asks, target
<1>1. CASE ~exists(target(r))
  BY <1>1, Aside, <1>0 DEF lockStaff, local, limiter, Types, Places
<1>2. CASE exists(target(r))
  <2> DEFINE a == target(r)
             w == IF losesOwnerStatus(r, staff[a]) THEN "count" ELSE "write"
  <2>1. /\ pc[r] = "lock" /\ lock[a] = 0
        /\ lock' = [lock EXCEPT ![a] = r]
        /\ cur' = [cur EXCEPT ![r] = [id |-> a, row |-> staff[a]]]
        /\ pc' = [pc EXCEPT ![r] = w]
        /\ UNCHANGED <<in, todo, others, staff>>
    BY <1>2 DEF lockStaff, lockTarget, readAccount, local, at
  <2>2. cur'[r].row.pw = staff[a].pw
    BY <2>1 DEF Types
  <2>3. Types'
    BY <2>1, <1>0 DEF Types, Places
  <2>4. Gated'
    BY <2>1 DEF Gated, Types
  <2>5. Holding'
    BY <2>1, <2>2, <1>0, <1>2, ZeroIsNoRequest DEF Holding, Types, target, exists
  <2>6. Counting'
    BY <2>1, <1>0, ZeroIsNoRequest DEF Counting, Types, Holds, target, losesOwnerStatus, activeOwner
  <2>7. Spelling'
    BY <2>1 DEF Spelling, Types, exists
  <2>8. ActiveOwnerRemains' /\ OneAccountPerNumber'
    BY <2>1 DEF ActiveOwnerRemains, OneAccountPerNumber, activeOwner, exists
  <2> QED BY <2>3, <2>4, <2>5, <2>6, <2>7, <2>8
<1> QED BY <1>1, <1>2

LEMMA SnapshotPreserves == ASSUME IInv, NEW r \in Req, otherOwners(r) PROVE IInv'
<1> USE DEF IInv, at, to, otherOwners, accounts, limiter
<1>1. Types'
  BY DEF Types, Places
<1>2. Gated'
  BY DEF Gated, Types
<1>3. Holding'
  BY DEF Holding, Types, target, exists
<1>4. Counting'
  BY DEF Counting, Types, Holds, target, losesOwnerStatus, activeOwner
<1>5. Spelling'
  BY DEF Spelling, Types, exists
<1>6. ActiveOwnerRemains' /\ OneAccountPerNumber'
  BY DEF ActiveOwnerRemains, OneAccountPerNumber, activeOwner, exists
<1> QED BY <1>1, <1>2, <1>3, <1>4, <1>5, <1>6

LEMMA LockOwnerPreserves == ASSUME IInv, NEW r \in Req, NEW a \in Ids, lockOwner(r, a) PROVE IInv'
<1> USE DEF IInv, lockOwner, at, limiter
<1>0. /\ lock[a] = 0 /\ lock' = [lock EXCEPT ![a] = r] /\ a # target(r)
      /\ UNCHANGED <<in, pc, cur, staff>>
  BY DEF lockRow, Counting
<1>1. Types'
  BY <1>0 DEF Types
<1>2. Gated'
  BY DEF Gated
<1>3. Holding'
  BY <1>0, ZeroIsNoRequest DEF Holding, Types, target, exists
<1>4. Counting'
  <2>1. \A q \in Req : Holds(q) => Holds(q)'
    BY <1>0, ZeroIsNoRequest DEF Types, Holds, target, activeOwner
  <2>2. activeOwner(a) => Holds(r)'
    BY <1>0 DEF Types, Holds, target, activeOwner
  <2>3. others'[r] > 0 => others[r] > 0 \/ activeOwner(a)
    BY DEF Types
  <2> QED BY <2>1, <2>2, <2>3, <1>0 DEF Counting, Types, target, losesOwnerStatus
<1>5. Spelling'
  BY <1>0 DEF Spelling, exists
<1>6. ActiveOwnerRemains' /\ OneAccountPerNumber'
  BY <1>0 DEF ActiveOwnerRemains, OneAccountPerNumber, activeOwner, exists
<1> QED BY <1>1, <1>2, <1>3, <1>4, <1>5, <1>6

LEMMA EnoughPreserves == ASSUME IInv, NEW r \in Req, enoughOwners(r) PROVE IInv'
<1> USE DEF IInv, to, enoughOwners, counted, at, local, accounts, limiter
<1>1. Types'
  BY DEF Types, Places
<1>2. Gated'
  BY DEF Gated, Types
<1>3. Holding'
  BY DEF Holding, Types, target, exists
<1>4. Counting'
  BY DEF Counting, Types, Holds, target, losesOwnerStatus, activeOwner
<1>5. Spelling'
  BY DEF Spelling, Types, exists
<1>6. ActiveOwnerRemains' /\ OneAccountPerNumber'
  BY DEF ActiveOwnerRemains, OneAccountPerNumber, activeOwner, exists
<1> QED BY <1>1, <1>2, <1>3, <1>4, <1>5, <1>6

LEMMA UpdatePreserves == ASSUME IInv, NEW r \in Req, Update(r) PROVE IInv'
<1> USE DEF IInv, at, to
<1> DEFINE a == target(r)
<1>0. /\ a \in Ids /\ lock[a] = r /\ exists(a) /\ pc[r] = "write" /\ in[r] \in Asks
      /\ lock' = unlocked(r) /\ UNCHANGED <<in, todo, others, cur>>
      /\ cur[r].row.pw = staff[a].pw
  BY DEF Types, Asks, target, Holding, Update, local
<1> DEFINE w == IF endsSessions(r) THEN "revoke" ELSE "done"
<1>1. pc' = [pc EXCEPT ![r] = w] /\ w \in {"revoke", "done"}
  BY DEF Update
<1>2. /\ staff' \in [Ids -> Rows]
      /\ \A b \in Ids : b # a => staff'[b] = staff[b]
      /\ staff'[a].role = in[r].role /\ staff'[a].active = in[r].active
      /\ staff'[a].number = staff[a].number /\ staff'[a].normalized = staff[a].normalized
  <2> DEFINE rec == [staff[a] EXCEPT !.role = in[r].role, !.active = in[r].active,
                                     !.pw = IF in[r].newPw THEN r ELSE cur[r].row.pw]
  <2>1. staff' = [staff EXCEPT ![a] = rec]
    BY <1>0 DEF Update, Types
  <2>2. staff[a] \in Rows
    BY <1>0 DEF Types
  <2>3. rec \in Rows
    BY <2>2, <1>0 DEF Rows, Asks, Passwords
  <2>4. rec.role = in[r].role /\ rec.active = in[r].active /\ rec.number = staff[a].number
        /\ rec.normalized = staff[a].normalized
    BY <2>2 DEF Rows
  <2> QED BY <2>1, <2>3, <2>4, <1>0 DEF Types
<1>3. \A b \in Ids : lock'[b] = IF lock[b] = r THEN 0 ELSE lock[b]
  BY <1>0 DEF unlocked, Types
<1>4. Types'
  <2>1. lock' \in [Ids -> Req \cup {0}]
    BY <1>0 DEF unlocked, Types
  <2> QED BY <2>1, <1>0, <1>1, <1>2 DEF Types, Places
<1>5. Gated'
  BY <1>0, <1>1 DEF Gated, Types
<1>6. \A b \in Ids : exists(b)' <=> exists(b)
  BY <1>0, <1>2 DEF exists, Asks, Roles
<1>7. Holding'
  <2>1. \A q \in Req \ {r} : pc[q] \in {"count", "owners", "write"} => target(q) \in Ids /\ target(q) # a
    BY <1>0 DEF Holding, Types, Asks, target
  <2>2. \A q \in Req : pc'[q] \in {"count", "owners", "write"} => q # r /\ pc'[q] = pc[q]
    BY <1>1 DEF Types
  <2>3. \A q \in Req : target(q)' = target(q)
    BY <1>0 DEF target
  <2> SUFFICES ASSUME NEW q \in Req, pc'[q] \in {"count", "owners", "write"}
               PROVE  /\ lock'[target(q)] = q
                      /\ exists(target(q))'
                      /\ cur'[q].row.pw = staff'[target(q)].pw
    BY <2>3 DEF Holding
  <2>4. /\ q # r /\ target(q) \in Ids /\ target(q) # a /\ lock[target(q)] = q
        /\ exists(target(q)) /\ cur[q].row.pw = staff[target(q)].pw
    BY <2>1, <2>2 DEF Holding
  <2>5. exists(target(q))'
    BY <2>3, <2>4, <1>6
  <2> QED BY <2>4, <2>5, <1>0, <1>2, <1>3
<1>8. Counting'
  <2>1. \A q \in Req \ {r} : Holds(q) => Holds(q)'
    BY <1>0, <1>2, <1>3 DEF Holds, target, activeOwner
  <2>2. \A q \in Req \ {r} : pc[q] = "write" => target(q) \in Ids /\ target(q) # a
    BY <1>0 DEF Holding, Types, Asks, target
  <2> QED BY <2>1, <2>2, <1>0, <1>1, <1>2 DEF Counting, Types, target, losesOwnerStatus
<1>9. Spelling'
  <2>1. \A b \in Ids : staff'[b].number = staff[b].number /\ staff'[b].normalized = staff[b].normalized
    BY <1>2
  <2>2. \A q \in Req : pc'[q] = "insert" => pc[q] = "insert"
    BY <1>1 DEF Types
  <2> SUFFICES ASSUME NEW q \in Req, pc'[q] = "insert", NEW b \in Ids, exists(b)',
                      staff'[b].number = in'[q].number
               PROVE  staff'[b].normalized
    BY DEF Spelling
  <2>3. pc[q] = "insert" /\ exists(b) /\ staff[b].number = in[q].number
    BY <2>1, <2>2, <1>0, <1>6
  <2>4. staff[b].normalized
    BY <2>3 DEF Spelling
  <2> QED BY <2>1, <2>4
<1>10. ActiveOwnerRemains'
  <2>1. CASE losesOwnerStatus(r, staff[a])
    <3>1. PICK b \in Ids : b # a /\ activeOwner(b)
      BY <2>1, <1>0 DEF Counting, Holds
    <3> QED BY <3>1, <1>2 DEF ActiveOwnerRemains, activeOwner
  <2>2. CASE ~losesOwnerStatus(r, staff[a])
    <3>1. PICK b \in Ids : activeOwner(b)
      BY DEF ActiveOwnerRemains
    <3>2. CASE b # a
      BY <3>1, <3>2, <1>2 DEF ActiveOwnerRemains, activeOwner
    <3>3. CASE b = a
      BY <3>1, <3>3, <2>2, <1>2, <1>0 DEF ActiveOwnerRemains, activeOwner, losesOwnerStatus
    <3> QED BY <3>2, <3>3
  <2> QED BY <2>1, <2>2
<1>11. OneAccountPerNumber'
  BY <1>0, <1>2, <1>6 DEF OneAccountPerNumber
<1> QED BY <1>4, <1>5, <1>7, <1>8, <1>9, <1>10, <1>11

\* A row nobody holds gets a password, and perhaps its owner back.
LEMMA FreeRowPreserves ==
    ASSUME IInv, NEW r \in Req, NEW a \in Ids, lock[a] = 0,
           NEW f \in BOOLEAN, f = staff[a].active \/ f = TRUE,
           staff' = [staff EXCEPT ![a].pw = r, ![a].active = f],
           NEW w \in {"revoke", "done"}, to(r, w), pc[r] \notin {"count", "owners", "write"},
           UNCHANGED <<in, todo, others, lock, cur>>
    PROVE  IInv'
<1> USE DEF IInv, to
<1>1. /\ staff' \in [Ids -> Rows]
      /\ \A b \in Ids : b # a => staff'[b] = staff[b]
      /\ staff'[a].role = staff[a].role /\ staff'[a].active = f
      /\ staff'[a].number = staff[a].number /\ staff'[a].normalized = staff[a].normalized
  <2> DEFINE rec == [staff[a] EXCEPT !.pw = r, !.active = f]
  <2>1. staff' = [staff EXCEPT ![a] = rec]
    BY DEF Types
  <2>2. staff[a] \in Rows
    BY DEF Types
  <2>3. rec \in Rows
    BY <2>2 DEF Rows, Passwords
  <2>4. rec.role = staff[a].role /\ rec.active = f /\ rec.number = staff[a].number
        /\ rec.normalized = staff[a].normalized
    BY <2>2 DEF Rows
  <2> QED BY <2>1, <2>3, <2>4 DEF Types
<1>2. Types'
  BY <1>1 DEF Types, Places
<1>3. Gated'
  BY DEF Gated, Types
<1>4. \A q \in Req : pc[q] \in {"count", "owners", "write"} => target(q) \in Ids /\ target(q) # a
  <2> SUFFICES ASSUME NEW q \in Req, pc[q] \in {"count", "owners", "write"}
               PROVE  target(q) \in Ids /\ target(q) # a
    OBVIOUS
  <2>1. target(q) \in Ids
    BY DEF Types, target, Asks
  <2>2. lock[target(q)] = q
    BY DEF Holding
  <2> QED BY <2>1, <2>2, ZeroIsNoRequest
<1>5. Holding'
  BY <1>1, <1>4 DEF Holding, Types, target, exists
<1>6. Counting'
  <2>1. \A q \in Req : Holds(q) => Holds(q)'
    BY <1>1, ZeroIsNoRequest DEF Holds, target, activeOwner
  <2> QED BY <2>1, <1>1, <1>4 DEF Counting, Types, target, losesOwnerStatus
<1>7. Spelling'
  BY <1>1 DEF Spelling, Types, exists
<1>8. ActiveOwnerRemains'
  BY <1>1 DEF ActiveOwnerRemains, activeOwner
<1>9. OneAccountPerNumber'
  BY <1>1 DEF OneAccountPerNumber, exists
<1> QED BY <1>2, <1>3, <1>5, <1>6, <1>7, <1>8, <1>9

LEMMA InsertPreserves == ASSUME IInv, NEW r \in Req, insertStaff(r) PROVE IInv'
<1> USE DEF IInv, at, to
<1>0. pc[r] = "insert" /\ pc' = [pc EXCEPT ![r] = "done"] /\ UNCHANGED <<in, todo, others, lock, cur>>
  BY DEF insertStaff, local
<1>1. CASE UNCHANGED staff
  BY <1>0, <1>1, Aside DEF Types, Places
<1>2. CASE ~UNCHANGED staff
  <2>1. /\ uniquePhone(in[r].number) /\ free # {}
        /\ staff' = [staff EXCEPT ![CHOOSE a \in free : TRUE] =
              [number |-> in[r].number, normalized |-> TRUE, active |-> TRUE, pw |-> r,
               role |-> IF in[r].kind = "ensureOwner" THEN "owner" ELSE in[r].role]]
    BY <1>2 DEF insertStaff
  <2>2. PICK a \in Ids : ~exists(a) /\ staff' = [staff EXCEPT ![a] =
              [number |-> in[r].number, normalized |-> TRUE, active |-> TRUE, pw |-> r,
               role |-> IF in[r].kind = "ensureOwner" THEN "owner" ELSE in[r].role]]
    BY <2>1 DEF free
  <2>3. in[r] \in Asks
    BY DEF Types
  <2>4. /\ staff' \in [Ids -> Rows]
        /\ \A b \in Ids : b # a => staff'[b] = staff[b]
        /\ staff'[a].number = in[r].number /\ staff'[a].normalized
    BY <2>2, <2>3 DEF Types, Rows, Asks, Roles, Passwords
  <2>5. \A b \in Ids : exists(b) => b # a
    BY <2>2
  <2>6. Types'
    BY <1>0, <2>4 DEF Types, Places
  <2>7. Gated'
    BY <1>0 DEF Gated, Types
  <2>8. Holding'
    BY <1>0, <2>4, <2>5 DEF Holding, Types, target, Asks, exists
  <2>9. Counting'
    <3>1. \A b \in Ids : activeOwner(b) => exists(b)
      BY DEF activeOwner, exists
    <3>2. \A q \in Req : Holds(q) => Holds(q)'
      BY <1>0, <2>4, <2>5, <3>1 DEF Holds, target, activeOwner
    <3>3. \A q \in Req : pc[q] = "write" => staff'[target(q)] = staff[target(q)]
      BY <2>4, <2>5 DEF Holding, Types, Asks, target
    <3> QED BY <3>2, <3>3, <1>0 DEF Counting, Types, target, losesOwnerStatus
  <2>10. Spelling'
    BY <1>0, <2>4 DEF Spelling, Types, exists
  <2>11. ActiveOwnerRemains'
    BY <2>4, <2>5 DEF ActiveOwnerRemains, activeOwner, exists
  <2>12. OneAccountPerNumber'
    <3>1. \A b \in Ids : exists(b) => staff[b].number # in[r].number
      BY <1>0, <2>1 DEF Spelling, uniquePhone
    <3> QED BY <3>1, <2>4, <2>5 DEF OneAccountPerNumber, exists
  <2> QED BY <2>6, <2>7, <2>8, <2>9, <2>10, <2>11, <2>12
<1> QED BY <1>1, <1>2

LEMMA LookUpPreserves == ASSUME IInv, NEW r \in Req, lookUp(r) PROVE IInv'
<1> USE DEF IInv, to
<1> DEFINE x == found(in[r].number)
<1>0. UNCHANGED <<in, todo, others, staff, lock>> /\ cur' = [cur EXCEPT ![r] = x]
  BY DEF lookUp, lookup, readAccount, local, accounts
<1>1. CASE x = NoAccount
  <2>1. pc' = [pc EXCEPT ![r] = "insert"]
    BY <1>1 DEF lookUp, lookup, readAccount
  <2>2. \A a \in Ids : ~(exists(a) /\ staff[a].number = in[r].number)
    BY <1>1, FoundNone
  <2>3. Types'
    BY <1>0, <2>1 DEF Types, Places
  <2>4. Gated'
    BY <1>0, <2>1 DEF Gated, Types
  <2>5. Holding'
    BY <1>0, <2>1 DEF Holding, Types, target, exists
  <2>6. Counting'
    BY <1>0, <2>1 DEF Counting, Types, Holds, target, losesOwnerStatus, activeOwner
  <2>7. Spelling'
    BY <1>0, <2>1, <2>2 DEF Spelling, Types, exists
  <2>8. ActiveOwnerRemains' /\ OneAccountPerNumber'
    BY <1>0 DEF ActiveOwnerRemains, OneAccountPerNumber, activeOwner, exists
  <2> QED BY <2>3, <2>4, <2>5, <2>6, <2>7, <2>8
<1>2. CASE x # NoAccount
  <2> DEFINE w == IF in[r].kind = "ensureOwner" /\ x.row.role = "owner" THEN "recover" ELSE "done"
  <2>1. pc' = [pc EXCEPT ![r] = w] /\ w \in {"recover", "done"}
    BY <1>2 DEF lookUp, lookup, readAccount
  <2>2. w \in Places
    BY <2>1 DEF Places
  <2>3. cur'[r].id \in Ids
    BY <1>0, <1>2, FoundSome DEF Types
  <2> HIDE DEF w, x
  <2> QED BY <1>0, <2>1, <2>2, <2>3, Aside DEF Types
<1> QED BY <1>1, <1>2

LEMMA GatePreserves == ASSUME IInv, NEW r \in Req, RequireRole(r) PROVE IInv'
<1> USE DEF IInv, at, to
<1>0. pc[r] = "gate" /\ in[r].kind \in {"create", "edit", "toggle", "reset"}
  BY DEF RequireRole, Gated
<1>1. PICK w \in {"lookup", "lock", "list", "set", "done"} : pc' = [pc EXCEPT ![r] = w]
  BY <1>0 DEF RequireRole
<1>2. w \in Places
  BY <1>1 DEF Places
<1>3. UNCHANGED <<in, todo, others, staff, lock>> /\ cur' = [cur EXCEPT ![r] = NoAccount]
  BY DEF RequireRole, local, accounts
<1> QED BY <1>1, <1>2, <1>3, Aside DEF Types

LEMMA ResetOwnerPreserves == ASSUME IInv, NEW r \in Req, resetOwner(r) PROVE IInv'
<1> DEFINE a == cur[r].id
<1>1. pc[r] = "recover" /\ a \in Ids /\ lock[a] = 0
  BY DEF resetOwner, at, IInv, Types
<1>2. staff' = [staff EXCEPT ![a].pw = r, ![a].active = TRUE] /\ to(r, "done")
      /\ UNCHANGED <<in, todo, others, lock, cur>>
  BY DEF resetOwner, local
<1> HIDE DEF a
<1> QED BY <1>1, <1>2, FreeRowPreserves

LEMMA SetPasswordPreserves == ASSUME IInv, NEW r \in Req, SetPassword(r) PROVE IInv'
<1> DEFINE a == target(r)
<1>1. pc[r] = "set" /\ a \in Ids /\ lock[a] = 0 /\ UNCHANGED <<in, todo, others, lock, cur>>
  BY DEF SetPassword, at, IInv, Types, target, Asks, local
<1>2. CASE exists(a)
  <2>1. staff' = [staff EXCEPT ![a].pw = r] /\ to(r, "revoke")
    BY <1>2 DEF SetPassword
  <2>2. staff[a] \in Rows
    BY <1>1 DEF IInv, Types
  <2>3. [staff[a] EXCEPT !.pw = r] = [staff[a] EXCEPT !.pw = r, !.active = staff[a].active]
    BY <2>2 DEF Rows
  <2>4. staff' = [staff EXCEPT ![a].pw = r, ![a].active = staff[a].active]
    BY <2>1, <2>3, <1>1 DEF IInv, Types
  <2>5. staff[a].active \in BOOLEAN
    BY <2>2 DEF Rows
  <2> HIDE DEF a
  <2> QED BY <2>1, <2>4, <2>5, <1>1, FreeRowPreserves
<1>3. CASE ~exists(a)
  <2>1. UNCHANGED staff /\ to(r, "done") /\ "done" \in Places
    BY <1>3 DEF SetPassword, Places
  <2> QED BY <2>1, <1>1, Aside DEF IInv, Types
<1> QED BY <1>2, <1>3

LEMMA Invariance == IInv /\ [Next]_vars => IInv'
<1> SUFFICES ASSUME IInv, [Next]_vars PROVE IInv'
    OBVIOUS
<1>1. ASSUME NEW r \in Req, step(r) PROVE IInv'
  <2>1. CASE refusedByIP(r) \/ refusedByPhone(r) \/ Logout(r) \/ createSession(r) \/ revokeAllForStaff(r)
    <3>1. UNCHANGED <<in, todo, others, staff, lock, cur>> /\ to(r, "done") /\ "done" \in Places
      BY <2>1 DEF refusedByIP, refusedByPhone, Logout, createSession, revokeAllForStaff, local, accounts, Places
    <3> QED BY <3>1, Aside DEF IInv, Types
  <2>2. CASE Login(r)
    <3>1. UNCHANGED <<in, todo, others, staff, lock, cur>> /\ to(r, "credentials") /\ "credentials" \in Places
      BY <2>2 DEF Login, local, accounts, Places
    <3> QED BY <3>1, Aside DEF IInv, Types
  <2>3. CASE GetByPhone(r)
    <3>1. /\ UNCHANGED <<in, todo, others, staff, lock>> /\ to(r, "compare") /\ "compare" \in Places
          /\ cur' = [cur EXCEPT ![r] = found(in[r].number)]
      BY <2>3 DEF GetByPhone, readAccount, local, accounts, Places
    <3> QED BY <3>1, Aside DEF IInv, Types
  <2>4. CASE compare(r)
    <3>1. PICK w \in {"open", "done"} : to(r, w)
      BY <2>4 DEF compare
    <3>2. w \in Places /\ UNCHANGED <<in, todo, others, staff, lock, cur>>
      BY <2>4 DEF compare, local, accounts, Places
    <3> QED BY <3>1, <3>2, Aside DEF IInv, Types
  <2>5. CASE getActiveByHash(r)
    <3>1. PICK s \in live : cur' = [cur EXCEPT ![r] = [id |-> s.account]] /\ to(r, "gate")
      BY <2>5 DEF getActiveByHash, readAccount
    <3>2. pc[r] = "session" /\ "gate" \in Places /\ UNCHANGED <<in, todo, others, staff, lock>>
      BY <2>5 DEF getActiveByHash, at, local, accounts, Places
    <3> QED BY <3>1, <3>2, Aside DEF IInv, Types
  <2>6. CASE lastOwner(r)
    BY <2>6, RolledBack DEF lastOwner, local
  <2>7. CASE fails(r)
    BY <2>7, RolledBack DEF fails, local
  <2>8. CASE \E a \in Ids : lockOwner(r, a)
    BY <2>8, LockOwnerPreserves
  <2> QED
    BY <1>1, <2>1, <2>2, <2>3, <2>4, <2>5, <2>6, <2>7, <2>8, GatePreserves, LookUpPreserves,
       InsertPreserves, ResetOwnerPreserves, TogglePreserves, LockPreserves, SnapshotPreserves,
       EnoughPreserves, UpdatePreserves, SetPasswordPreserves DEF step
<1>2. CASE UNCHANGED <<in, pc, cur, todo, others, staff, lock>>
  BY <1>2 DEF IInv, Types, Gated, Holding, Counting, Spelling, ActiveOwnerRemains,
              OneAccountPerNumber, Holds, target, exists, activeOwner, losesOwnerStatus
<1>3. CASE sessionExpires
  BY <1>2, <1>3 DEF sessionExpires, local
<1>4. CASE \E k \in LimiterKeys : windowEnds(k)
  BY <1>2, <1>4 DEF windowEnds, local, accounts
<1>5. CASE UNCHANGED vars
  BY <1>2, <1>5 DEF vars
<1> QED BY <1>1, <1>3, <1>4, <1>5 DEF Next

-----------------------------------------------------------------------------
(***************************************************************************)
(* Sessions.                                                               *)
(***************************************************************************)
\* getByPhone returns a row of the table as it is.
LEMMA FoundRow ==
    ASSUME Types, NEW n, found(n) # NoAccount
    PROVE  found(n).id \in Ids /\ found(n).row \in Rows /\ exists(found(n).id)
<1> DEFINE all == {a \in Ids : exists(a) /\ staff[a].number = n}
           exact == {a \in all : staff[a].normalized}
           S == IF exact = {} THEN all ELSE exact
           a0 == CHOOSE b \in S : TRUE
<1>1. all # {} /\ found(n) = [id |-> a0, row |-> staff[a0]]
  BY DEF found
<1>2. S # {} /\ \A a \in S : a \in Ids /\ exists(a)
  BY <1>1
<1>3. a0 \in S
  BY <1>2
<1>4. a0 \in Ids /\ exists(a0) /\ staff[a0] \in Rows
  BY <1>2, <1>3 DEF Types
<1> HIDE DEF a0, S
<1> QED BY <1>1, <1>4

\* A revocation leaves the other sessions as they are.
LEMMA Revokes ==
    ASSUME Opened, NEW S, sessions' = revoked(S)
    PROVE  /\ sessions' \subseteq Sessions
           /\ \A s \in sessions' : \E z \in sessions : z.account = s.account
           /\ live' \subseteq live /\ \A s \in live' : s \notin S
<1>1. \A s \in sessions : /\ [s EXCEPT !.state = "revoked"] \in Sessions
                          /\ [s EXCEPT !.state = "revoked"].state = "revoked"
                          /\ [s EXCEPT !.state = "revoked"].account = s.account
  BY DEF Opened, Sessions
<1>2. \A s \in sessions' : \E z \in sessions :
          /\ s = IF z \in S THEN [z EXCEPT !.state = "revoked"] ELSE z
  BY DEF revoked
<1>3. ASSUME NEW s \in sessions'
      PROVE  /\ s \in Sessions /\ \E z \in sessions : z.account = s.account
             /\ s.state = "live" => s \in sessions /\ s \notin S
  <2>1. PICK z \in sessions : s = IF z \in S THEN [z EXCEPT !.state = "revoked"] ELSE z
    BY <1>2
  <2>2. CASE z \in S
    BY <1>1, <2>1, <2>2
  <2>3. CASE z \notin S
    BY <2>1, <2>3 DEF Opened
  <2> QED BY <2>2, <2>3
<1> QED BY <1>3 DEF live

\* What a step has to respect for the sessions to follow the passwords.
LEMMA SessionsKept ==
    ASSUME Types, SessionInv, live' \subseteq live, lost \subseteq lost',
           \A a \in Ids : exists(a) =>
               \/ staff'[a].pw = staff[a].pw
               \/ \A s \in live' : s.account # a
               \/ \E r \in Req : at(r, "revoke")' /\ target(r)' = a,
           \A q \in Req : at(q, "revoke") =>
               \/ at(q, "revoke")' /\ target(q)' = target(q)
               \/ target(q) \in lost'
               \/ \A s \in live' : s.account # target(q)
    PROVE  SessionsFollowPassword'
<1> SUFFICES ASSUME NEW s \in live'
             PROVE  \/ s.raced \/ s.pw = staff'[s.account].pw \/ s.account \in lost'
                    \/ \E r \in Req : at(r, "revoke")' /\ target(r)' = s.account
  BY DEF SessionsFollowPassword
<1>1. s \in live /\ s \in sessions /\ s.account \in Ids /\ exists(s.account)
  BY DEF live, SessionInv, Opened, Sessions
<1>2. \/ s.raced \/ s.pw = staff[s.account].pw \/ s.account \in lost
      \/ \E r \in Req : at(r, "revoke") /\ target(r) = s.account
  BY <1>1 DEF SessionInv, SessionsFollowPassword
<1>3. \/ staff'[s.account].pw = staff[s.account].pw
      \/ \E r \in Req : at(r, "revoke")' /\ target(r)' = s.account
  BY <1>1
<1>4. ASSUME NEW r \in Req, at(r, "revoke"), target(r) = s.account
      PROVE  s.account \in lost' \/ (at(r, "revoke")' /\ target(r)' = s.account)
  BY <1>4
<1> QED BY <1>2, <1>3, <1>4

\* Accounts are never deleted, and a password changes in four places only.
LEMMA PasswordMoves ==
    ASSUME IInv, NEW r \in Req, step(r)
    PROVE  /\ \A a \in Ids : exists(a) => exists(a)'
           /\ \/ \A a \in Ids : exists(a) => staff'[a].pw = staff[a].pw
              \/ /\ Update(r) \/ SetPassword(r)
                 /\ pc' = [pc EXCEPT ![r] = "revoke"] /\ in' = in
                 /\ \A a \in Ids : a # target(r) => staff'[a].pw = staff[a].pw
              \/ /\ resetOwner(r)
                 /\ \A a \in Ids : a # cur[r].id => staff'[a].pw = staff[a].pw
<1> USE DEF IInv
<1>1. CASE UNCHANGED staff
  BY <1>1 DEF exists
<1>2. CASE Update(r)
  <2>1. /\ target(r) \in Ids /\ cur[r].row.pw = staff[target(r)].pw /\ in[r].role # "none"
        /\ staff[target(r)] \in Rows
    BY <1>2 DEF Types, Asks, Roles, target, Holding, Update, at
  <2>2. /\ \A b \in Ids : b # target(r) => staff'[b] = staff[b]
        /\ staff'[target(r)].role = in[r].role
        /\ staff'[target(r)].pw = IF in[r].newPw THEN r ELSE staff[target(r)].pw
    BY <1>2, <2>1 DEF Update, Types, Rows
  <2>3. in[r].newPw => pc' = [pc EXCEPT ![r] = "revoke"]
    BY <1>2 DEF Update, endsSessions, to
  <2>4. in' = in
    BY <1>2 DEF Update, local
  <2> QED BY <1>2, <2>1, <2>2, <2>3, <2>4 DEF exists
<1>3. CASE SetPassword(r) /\ ~UNCHANGED staff
  <2>1. staff' = [staff EXCEPT ![target(r)].pw = r] /\ pc' = [pc EXCEPT ![r] = "revoke"] /\ in' = in
    BY <1>3 DEF SetPassword, to, local
  <2>2. \A b \in Ids : staff'[b].role = staff[b].role /\ (b # target(r) => staff'[b].pw = staff[b].pw)
    BY <2>1 DEF Types, Rows
  <2> QED BY <1>3, <2>1, <2>2 DEF exists
<1>4. CASE resetOwner(r)
  <2>1. staff' = [staff EXCEPT ![cur[r].id].pw = r, ![cur[r].id].active = TRUE]
    BY <1>4 DEF resetOwner
  <2>2. \A b \in Ids : staff'[b].role = staff[b].role /\ (b # cur[r].id => staff'[b].pw = staff[b].pw)
    BY <2>1 DEF Types, Rows
  <2> QED BY <1>4, <2>2 DEF exists
<1>5. CASE insertStaff(r) /\ ~UNCHANGED staff
  <2>1. PICK a \in Ids : ~exists(a) /\ staff' = [staff EXCEPT ![a] =
              [number |-> in[r].number, normalized |-> TRUE, active |-> TRUE, pw |-> r,
               role |-> IF in[r].kind = "ensureOwner" THEN "owner" ELSE in[r].role]]
    BY <1>5 DEF insertStaff, free
  <2>2. \A b \in Ids : exists(b) => staff'[b] = staff[b]
    BY <2>1 DEF Types
  <2> QED BY <2>2 DEF exists
<1> QED
  BY <1>1, <1>2, <1>3, <1>4, <1>5 DEF step, refusedByIP, refusedByPhone, Login, GetByPhone, compare,
     createSession, Logout, getActiveByHash, RequireRole, lookUp, staffToggle, lockStaff, otherOwners,
     lockOwner, lastOwner, enoughOwners, revokeAllForStaff, fails, accounts

\* The request's own reads of the account behind a login.
LEMMA LookedPreserves ==
    ASSUME IInv, Looked, NEW r \in Req, step(r)
    PROVE  Looked'
<1> USE DEF IInv, at, to
<1>0. /\ \A a \in Ids : exists(a) => exists(a)'
      /\ DOMAIN cur = Req /\ pc \in [Req -> Places]
  BY PasswordMoves DEF Types
<1>1. ASSUME NEW w, pc' = [pc EXCEPT ![r] = w], w \notin {"compare", "open"},
             \A q \in Req : q # r => cur'[q] = cur[q]
      PROVE  Looked'
  <2>1. \A q \in Req : pc'[q] \in {"compare", "open"} => q # r /\ pc'[q] = pc[q] /\ cur'[q] = cur[q]
    BY <1>0, <1>1
  <2> QED BY <1>0, <2>1 DEF Looked, NoAccount
<1>2. CASE GetByPhone(r)
  <2>1. /\ cur' = [cur EXCEPT ![r] = found(in[r].number)] /\ pc' = [pc EXCEPT ![r] = "compare"]
        /\ staff' = staff
    BY <1>2 DEF GetByPhone, readAccount, accounts
  <2>2. /\ cur'[r] = found(in[r].number) /\ pc'[r] = "compare"
        /\ \A q \in Req : q # r => cur'[q] = cur[q] /\ pc'[q] = pc[q]
    BY <1>0, <2>1
  <2>3. found(in[r].number) # NoAccount =>
            found(in[r].number).id \in Ids /\ found(in[r].number).row \in Rows /\ exists(found(in[r].number).id)
    BY FoundRow
  <2>4. NoAccount' = NoAccount
    BY DEF NoAccount
  <2> HIDE DEF IInv
  <2> QED BY <1>0, <2>2, <2>3, <2>4 DEF Looked
<1>3. CASE compare(r)
  <2>1. /\ pc' = [pc EXCEPT ![r] = IF accepted(r) THEN "open" ELSE "done"] /\ cur' = cur /\ pc[r] = "compare"
    BY <1>3 DEF compare
  <2>2. accepted(r) => cur[r] # NoAccount
    BY DEF accepted
  <2>3. pc'[r] \in {"open", "done"} /\ (pc'[r] = "open" => accepted(r)) /\ \A q \in Req : q # r => pc'[q] = pc[q]
    BY <1>0, <2>1
  <2> QED BY <1>0, <2>1, <2>2, <2>3 DEF Looked, NoAccount
<1>4. CASE \E a \in Ids : lockOwner(r, a)
  <2>1. UNCHANGED <<pc, cur>>
    BY <1>4 DEF lockOwner
  <2> QED BY <1>0, <2>1 DEF Looked, NoAccount
<1>5. CASE RequireRole(r)
  <2>1. in[r].kind \in {"create", "edit", "toggle", "reset"}
    BY <1>5 DEF RequireRole, Gated
  <2>2. \E w \in {"lookup", "lock", "list", "set", "done"} : pc' = [pc EXCEPT ![r] = w]
    BY <1>5, <2>1 DEF RequireRole
  <2>3. \A q \in Req : q # r => cur'[q] = cur[q]
    BY <1>0, <1>5 DEF RequireRole
  <2> QED BY <1>1, <2>2, <2>3
<1>6. CASE lookUp(r)
  <2>1. \E w \in {"insert", "recover", "done"} : pc' = [pc EXCEPT ![r] = w]
    BY <1>6 DEF lookUp, readAccount
  <2>2. \A q \in Req : q # r => cur'[q] = cur[q]
    BY <1>0, <1>6 DEF lookUp, readAccount
  <2> QED BY <1>1, <2>1, <2>2
<1>7. CASE lockStaff(r)
  <2>1. \E w \in {"count", "write", "done"} : pc' = [pc EXCEPT ![r] = w]
    BY <1>7 DEF lockStaff, readAccount
  <2>2. \A q \in Req : q # r => cur'[q] = cur[q]
    BY <1>0, <1>7 DEF lockStaff, readAccount
  <2> QED BY <1>1, <2>1, <2>2
<1>8. CASE getActiveByHash(r)
  <2>1. \E w \in {"gate", "done"} : pc' = [pc EXCEPT ![r] = w]
    BY <1>8 DEF getActiveByHash, readAccount
  <2>2. \A q \in Req : q # r => cur'[q] = cur[q]
    BY <1>0, <1>8 DEF getActiveByHash, readAccount
  <2> QED BY <1>1, <2>1, <2>2
<1>9. ASSUME cur' = cur, NEW w \in {"done", "credentials", "owners", "write", "revoke", "lock"},
             pc' = [pc EXCEPT ![r] = w]
      PROVE  Looked'
  BY <1>1, <1>9
<1>10. CASE Update(r) \/ SetPassword(r) \/ staffToggle(r)
  <2>1. \E w \in {"done", "revoke", "lock"} : pc' = [pc EXCEPT ![r] = w]
    BY <1>10 DEF Update, SetPassword, staffToggle
  <2>2. cur' = cur
    BY <1>10 DEF Update, SetPassword, staffToggle
  <2> QED BY <1>9, <2>1, <2>2
<1>11. CASE \/ refusedByIP(r) \/ refusedByPhone(r) \/ Login(r) \/ createSession(r) \/ Logout(r)
            \/ insertStaff(r) \/ resetOwner(r) \/ otherOwners(r) \/ lastOwner(r) \/ enoughOwners(r)
            \/ revokeAllForStaff(r) \/ fails(r)
  <2>1. \E w \in {"done", "credentials", "owners", "write"} : pc' = [pc EXCEPT ![r] = w]
    BY <1>11 DEF refusedByIP, refusedByPhone, Login, createSession, Logout, insertStaff, resetOwner,
                 otherOwners, lastOwner, enoughOwners, revokeAllForStaff, fails
  <2>2. cur' = cur
    BY <1>11 DEF refusedByIP, refusedByPhone, Login, createSession, Logout, insertStaff, resetOwner,
                 otherOwners, lastOwner, enoughOwners, revokeAllForStaff, fails
  <2> QED BY <1>9, <2>1, <2>2
<1> QED BY <1>2, <1>3, <1>4, <1>5, <1>6, <1>7, <1>8, <1>10, <1>11 DEF step

\* The sessions table: every step keeps its rows or changes their state, and
\* a new row belongs to the account a login found.
LEMMA SessionStep == ASSUME IInv, SessionInv, NEW r \in Req, step(r) PROVE SessionInv'
<1>0. /\ Types /\ Opened /\ Looked /\ SessionsFollowPassword
      /\ \A a \in Ids : exists(a) => exists(a)'
      /\ pc \in [Req -> Places] /\ in \in [Req -> Asks]
  BY PasswordMoves DEF IInv, SessionInv, Types
<1>1. Looked'
  BY LookedPreserves DEF SessionInv
<1>2. ASSUME sessions' \subseteq Sessions,
             \A s \in sessions' : \E z \in sessions : z.account = s.account
      PROVE  Opened'
  BY <1>0, <1>2 DEF Opened, Sessions
<1>3. CASE createSession(r)
  <2>1. pc[r] = "open" /\ staff' = staff /\ lost' = lost /\ in' = in /\ pc' = [pc EXCEPT ![r] = "done"]
    BY <1>3 DEF createSession, at, to, local
  <2>2. PICK a \in Ids : a = cur[r].id /\ cur[r].row \in Rows /\ exists(a)
    BY <1>0, <2>1 DEF Looked
  <2> DEFINE new == [by |-> r, account |-> a, pw |-> cur[r].row.pw,
                     raced |-> staff[a].pw # cur[r].row.pw, state |-> "live"]
  <2>3. sessions' = sessions \cup {new}
    BY <1>3, <2>2 DEF createSession
  <2>4. new \in Sessions /\ new.account = a /\ new.pw = cur[r].row.pw /\ new.raced = (staff[a].pw # cur[r].row.pw)
    BY <2>2 DEF Sessions, Rows
  <2> HIDE DEF new
  <2>5. Opened'
    BY <1>0, <2>2, <2>3, <2>4 DEF Opened, Sessions
  <2>6. \A q \in Req : at(q, "revoke") => at(q, "revoke")' /\ target(q)' = target(q)
    BY <1>0, <2>1 DEF at, target
  <2>7. SessionsFollowPassword'
    <3> SUFFICES ASSUME NEW s \in live'
                 PROVE  \/ s.raced \/ s.pw = staff'[s.account].pw \/ s.account \in lost'
                        \/ \E q \in Req : at(q, "revoke")' /\ target(q)' = s.account
      BY DEF SessionsFollowPassword
    <3>1. CASE s = new
      BY <2>1, <2>4, <3>1
    <3>2. CASE s # new
      <4>1. s \in live
        BY <2>3, <3>2 DEF live
      <4>2. \/ s.raced \/ s.pw = staff[s.account].pw \/ s.account \in lost
            \/ \E q \in Req : at(q, "revoke") /\ target(q) = s.account
        BY <1>0, <4>1 DEF SessionsFollowPassword
      <4> QED BY <2>1, <2>6, <4>2
    <3> QED BY <3>1, <3>2
  <2> QED BY <1>1, <2>5, <2>7 DEF SessionInv
<1>4. CASE Logout(r)
  <2>1. PICK z : sessions' = revoked({z})
    BY <1>4 DEF Logout
  <2>2. pc[r] = "logout" /\ staff' = staff /\ lost' = lost /\ in' = in /\ pc' = [pc EXCEPT ![r] = "done"]
    BY <1>4 DEF Logout, at, to, local
  <2>3. Opened' /\ live' \subseteq live
    BY <1>0, <1>2, <2>1, Revokes
  <2>4. \A q \in Req : at(q, "revoke") => at(q, "revoke")' /\ target(q)' = target(q)
    BY <1>0, <2>2 DEF at, target
  <2>5. SessionsFollowPassword'
    BY <1>0, <2>2, <2>3, <2>4, SessionsKept
  <2> QED BY <1>1, <2>3, <2>5 DEF SessionInv
<1>5. CASE resetOwner(r)
  <2> DEFINE a == cur[r].id
  <2>1. /\ pc[r] = "recover" /\ sessions' = revoked(ofAccount(a)) /\ lost' = lost /\ in' = in
        /\ pc' = [pc EXCEPT ![r] = "done"]
    BY <1>5 DEF resetOwner, at, to, local
  <2>2. Opened' /\ live' \subseteq live /\ \A s \in live' : s \notin ofAccount(a)
    BY <1>0, <1>2, <2>1, Revokes
  <2>3. \A s \in live' : s.account # a
    BY <2>2 DEF live, ofAccount
  <2>4. \A q \in Req : at(q, "revoke") => at(q, "revoke")' /\ target(q)' = target(q)
    BY <1>0, <2>1 DEF at, target
  <2>5. \A b \in Ids : exists(b) => staff'[b].pw = staff[b].pw \/ b = a
    <3>1. ~Update(r) /\ ~SetPassword(r)
      BY <2>1 DEF Update, SetPassword, at
    <3> QED BY <3>1, PasswordMoves
  <2> HIDE DEF a
  <2>6. SessionsFollowPassword'
    BY <1>0, <2>1, <2>2, <2>3, <2>4, <2>5, SessionsKept
  <2> QED BY <1>1, <2>2, <2>6 DEF SessionInv
<1>6. CASE revokeAllForStaff(r)
  <2>1. /\ pc[r] = "revoke" /\ sessions' = revoked(ofAccount(target(r))) /\ lost' = lost /\ in' = in
        /\ pc' = [pc EXCEPT ![r] = "done"] /\ staff' = staff
    BY <1>6 DEF revokeAllForStaff, at, to, local
  <2>2. Opened' /\ live' \subseteq live /\ \A s \in live' : s \notin ofAccount(target(r))
    BY <1>0, <1>2, <2>1, Revokes
  <2>3. \A s \in live' : s.account # target(r)
    BY <2>2 DEF live, ofAccount
  <2>4. \A q \in Req : at(q, "revoke") => q = r \/ (at(q, "revoke")' /\ target(q)' = target(q))
    BY <1>0, <2>1 DEF at, target
  <2>5. SessionsFollowPassword'
    BY <1>0, <2>1, <2>2, <2>3, <2>4, SessionsKept
  <2> QED BY <1>1, <2>2, <2>5 DEF SessionInv
<1>7. CASE ~(createSession(r) \/ Logout(r) \/ resetOwner(r) \/ revokeAllForStaff(r))
  <2>1. sessions' = sessions /\ live' = live
    <3>1. sessions' = sessions
      BY <1>7 DEF step, refusedByIP, refusedByPhone, Login, GetByPhone, compare, getActiveByHash,
         RequireRole, lookUp, insertStaff, staffToggle, lockStaff, otherOwners, lockOwner, lastOwner,
         enoughOwners, Update, SetPassword, fails, accounts
    <3> QED BY <3>1 DEF live
  <2>2. lost \subseteq lost' /\ (fails(r) /\ at(r, "revoke") => target(r) \in lost')
    BY <1>7 DEF step, refusedByIP, refusedByPhone, Login, GetByPhone, compare, getActiveByHash,
       RequireRole, lookUp, insertStaff, staffToggle, lockStaff, otherOwners, lockOwner, lastOwner,
       enoughOwners, Update, SetPassword, fails, accounts
  <2>3. fails(r) \/ ~at(r, "revoke")
    BY <1>7 DEF step, refusedByIP, refusedByPhone, Login, GetByPhone, compare, getActiveByHash,
       RequireRole, lookUp, insertStaff, staffToggle, lockStaff, otherOwners, lockOwner, lastOwner,
       enoughOwners, Update, SetPassword, counted, at
  <2>4. \A q \in Req : q # r => pc'[q] = pc[q] /\ in'[q] = in[q]
    <3>1. (\E w : pc' = [pc EXCEPT ![r] = w]) \/ pc' = pc
      BY <1>7 DEF step, refusedByIP, refusedByPhone, Login, GetByPhone, compare, getActiveByHash,
         RequireRole, lookUp, insertStaff, staffToggle, lockStaff, otherOwners, lockOwner, lastOwner,
         enoughOwners, Update, SetPassword, fails, readAccount, to
    <3>2. CASE staffToggle(r)
      BY <1>0, <3>1, <3>2 DEF staffToggle
    <3>3. CASE ~staffToggle(r)
      <4>1. in' = in
        BY <1>7, <3>3 DEF step, refusedByIP, refusedByPhone, Login, GetByPhone, compare, getActiveByHash,
           RequireRole, lookUp, insertStaff, lockStaff, otherOwners, lockOwner, lastOwner,
           enoughOwners, Update, SetPassword, fails, local
      <4> QED BY <1>0, <3>1, <4>1
    <3> QED BY <3>2, <3>3
  <2>5. \A q \in Req : at(q, "revoke") =>
            (at(q, "revoke")' /\ target(q)' = target(q)) \/ target(q) \in lost'
    BY <2>2, <2>3, <2>4 DEF at, target
  <2>6. \A a \in Ids : exists(a) =>
            staff'[a].pw = staff[a].pw \/ \E q \in Req : at(q, "revoke")' /\ target(q)' = a
    <3>1. ASSUME pc' = [pc EXCEPT ![r] = "revoke"], in' = in
          PROVE  at(r, "revoke")' /\ target(r)' = target(r)
      BY <1>0, <3>1 DEF at, target
    <3> QED BY <1>7, <3>1, PasswordMoves
  <2>7. SessionsFollowPassword'
    BY <1>0, <2>1, <2>2, <2>5, <2>6, SessionsKept DEF SessionInv
  <2>8. Opened'
    BY <1>0, <2>1 DEF Opened, Sessions
  <2> QED BY <1>1, <2>7, <2>8 DEF SessionInv
<1> QED BY <1>3, <1>4, <1>5, <1>6, <1>7

LEMMA SessionInvariance == IInv /\ SessionInv /\ [Next]_vars => SessionInv'
<1> SUFFICES ASSUME IInv, SessionInv, [Next]_vars PROVE SessionInv'
    OBVIOUS
<1>1. ASSUME NEW r \in Req, step(r) PROVE SessionInv'
  BY <1>1, SessionStep
<1>2. ASSUME UNCHANGED <<in, pc, cur, staff, lost>>, Opened', live' \subseteq live PROVE SessionInv'
  <2>1. Looked'
    BY <1>2 DEF SessionInv, Looked, NoAccount, exists
  <2>2. \A q \in Req : at(q, "revoke") => at(q, "revoke")' /\ target(q)' = target(q)
    BY <1>2 DEF at, target
  <2>3. SessionsFollowPassword'
    BY <1>2, <2>2, SessionsKept DEF IInv
  <2> QED BY <1>2, <2>1, <2>3 DEF SessionInv
<1>3. CASE sessionExpires
  <2>1. PICK s \in live : sessions' = (sessions \ {s}) \cup {[s EXCEPT !.state = "expired"]}
    BY <1>3 DEF sessionExpires
  <2>2. s \in sessions /\ sessions \subseteq Sessions /\ \A z \in sessions : exists(z.account)
    BY <2>1 DEF SessionInv, Opened, live
  <2>3. /\ [s EXCEPT !.state = "expired"] \in Sessions /\ [s EXCEPT !.state = "expired"].state = "expired"
        /\ [s EXCEPT !.state = "expired"].account = s.account
    BY <2>2 DEF Sessions
  <2>4. UNCHANGED <<in, pc, cur, staff, lost>>
    BY <1>3 DEF sessionExpires, local
  <2>5. Opened'
    BY <2>1, <2>2, <2>3, <2>4 DEF Opened, Sessions, exists
  <2>6. live' \subseteq live
    BY <2>1, <2>3 DEF live
  <2> QED BY <1>2, <2>4, <2>5, <2>6
<1>4. CASE UNCHANGED <<in, pc, cur, staff, sessions, lost>>
  <2>1. Opened' /\ live' = live
    BY <1>4 DEF SessionInv, Opened, Sessions, exists, live
  <2> QED BY <1>2, <1>4, <2>1
<1>5. CASE \E k \in LimiterKeys : windowEnds(k)
  BY <1>4, <1>5 DEF windowEnds, local, accounts
<1>6. CASE UNCHANGED vars
  BY <1>4, <1>6 DEF vars
<1> QED BY <1>1, <1>3, <1>5, <1>6 DEF Next

LEMMA SessionsInitially == Init => SessionInv
<1> SUFFICES ASSUME Init PROVE SessionInv
    OBVIOUS
<1>0. \A s \in sessions : /\ s.pw = 0 /\ s.account \in Ids /\ exists(s.account)
                          /\ \E a \in Ids : s = [by |-> 0, account |-> a, pw |-> 0, raced |-> FALSE, state |-> "live"]
  <2> SUFFICES ASSUME NEW s \in sessions
               PROVE  /\ s.pw = 0 /\ s.account \in Ids /\ exists(s.account)
                      /\ \E a \in Ids : s = [by |-> 0, account |-> a, pw |-> 0, raced |-> FALSE, state |-> "live"]
    OBVIOUS
  <2>1. sessions = {[by |-> 0, account |-> a, pw |-> 0, raced |-> FALSE, state |-> "live"] :
                      a \in {b \in Ids : exists(b)}}
    BY DEF Init
  <2>2. PICK a \in {b \in Ids : exists(b)} :
            s = [by |-> 0, account |-> a, pw |-> 0, raced |-> FALSE, state |-> "live"]
    BY <2>1
  <2> QED BY <2>2
<1>1. Opened
  <2>1. \A a \in Ids : [by |-> 0, account |-> a, pw |-> 0, raced |-> FALSE, state |-> "live"] \in Sessions
    BY DEF Sessions, Passwords
  <2>2. \A s \in sessions : s \in Sessions
    BY <1>0, <2>1
  <2> QED BY <1>0, <2>2 DEF Opened
<1>2. Looked
  BY StaffAssumption DEF Init, Looked, entry, Asks
<1>3. SessionsFollowPassword
  <2>1. \A a \in Ids : exists(a) => staff[a].pw = 0
    BY StaffAssumption DEF Init, exists
  <2> QED BY <1>0, <2>1 DEF SessionsFollowPassword, live
<1> QED BY <1>1, <1>2, <1>3 DEF SessionInv

-----------------------------------------------------------------------------
(***************************************************************************)
(* The login budget.                                                       *)
(***************************************************************************)
LEMMA FlightsFinite == \A n : IsFiniteSet(InFlight(n)) /\ Cardinality(InFlight(n)) \in Nat
<1>1. \A n : InFlight(n) \in SUBSET Req
  BY DEF InFlight
<1> QED BY <1>1, LimiterAssumption, FS_Subset, FS_CardinalityType

\* Nobody starts to try and no number's budget changes.
LEMMA BudgetKept ==
    ASSUME LoginInv, UNCHANGED <<window, admitted, ledger>>,
           attempts' = attempts \/ attempts' = count(IP),
           \A q \in Req : in'[q].number = in[q].number /\ (Trying(q)' => Trying(q))
    PROVE  LoginInv'
<1> USE DEF LoginInv
<1>1. attempts' \in [LimiterKeys -> Nat] /\ \A n \in Numbers : attempts'[n] = attempts[n]
  BY LimiterAssumption DEF count, Counters, LimiterKeys
<1>2. Counters'
  BY <1>1 DEF Counters
<1>3. \A n : InFlight(n)' \in SUBSET InFlight(n)
  BY DEF InFlight
<1>4. \A n : Cardinality(InFlight(n)') <= Cardinality(InFlight(n)) /\ Cardinality(InFlight(n)') \in Nat
  BY <1>3, FlightsFinite, FS_Subset, FS_CardinalityType
<1>5. ASSUME NEW n \in Numbers
      PROVE  /\ attempts'[n] <= PhoneLimit
             /\ ledger'[n].wrong + Cardinality(InFlight(n)') <= PhoneLimit * ledger'[n].right + attempts'[n]
  <2>1. ledger[n].wrong \in Nat /\ ledger[n].right \in Nat /\ attempts[n] \in Nat
    BY <1>5 DEF Counters, LimiterKeys
  <2>2. PICK m \in Int : m = PhoneLimit * ledger[n].right
    BY <2>1, StaffAssumption
  <2>3. ledger[n].wrong + Cardinality(InFlight(n)) <= m + attempts[n] /\ attempts[n] <= PhoneLimit
    BY <2>2 DEF Budget
  <2>4. Cardinality(InFlight(n)') <= Cardinality(InFlight(n)) /\ Cardinality(InFlight(n)') \in Nat
        /\ Cardinality(InFlight(n)) \in Nat
    BY <1>4, FlightsFinite
  <2>5. ledger[n].wrong + Cardinality(InFlight(n)') <= m + attempts[n]
    BY <2>1, <2>3, <2>4
  <2> QED BY <1>1, <2>2, <2>3, <2>5
<1>6. \A q \in Req : Trying(q)' => admitted'[q] <= window'[in'[q].number]
  BY DEF Budget
<1> QED BY <1>2, <1>5, <1>6 DEF Budget

\* Only Login and compare touch the budget of a number.
LEMMA OtherSteps ==
    ASSUME IInv, NEW r \in Req, step(r), ~Login(r), ~compare(r)
    PROVE  /\ UNCHANGED <<window, admitted, ledger>>
           /\ attempts' = attempts \/ attempts' = count(IP)
           /\ \A q \in Req : in'[q].number = in[q].number /\ (Trying(q)' => Trying(q))
<1>0. pc \in [Req -> Places] /\ in \in [Req -> Asks]
  BY DEF IInv, Types
<1>1. UNCHANGED <<window, admitted, ledger>> /\ (attempts' = attempts \/ attempts' = count(IP))
  BY DEF step, refusedByIP, refusedByPhone, GetByPhone, createSession, Logout, getActiveByHash,
         RequireRole, lookUp, insertStaff, resetOwner, staffToggle, lockStaff, otherOwners, lockOwner,
         lastOwner, enoughOwners, Update, SetPassword, revokeAllForStaff, fails, limiter
<1>2. \A q \in Req : in'[q].number = in[q].number
  <2>1. CASE staffToggle(r)
    <3>1. in' = [in EXCEPT ![r].role = IF exists(target(r)) THEN staff[target(r)].role ELSE @,
                           ![r].active = ~staff[target(r)].active, ![r].newPw = FALSE]
      BY <2>1 DEF staffToggle
    <3> QED BY <1>0, <3>1 DEF Asks
  <2>2. CASE ~staffToggle(r)
    <3>1. in' = in
      BY <2>2 DEF step, refusedByIP, refusedByPhone, GetByPhone, createSession, Logout, getActiveByHash,
         RequireRole, lookUp, insertStaff, resetOwner, lockStaff, otherOwners, lockOwner,
         lastOwner, enoughOwners, Update, SetPassword, revokeAllForStaff, fails, local
    <3> QED BY <3>1
  <2> QED BY <2>1, <2>2
<1>3. ASSUME NEW w, pc' = [pc EXCEPT ![r] = w], w \notin {"credentials", "compare"} \/ pc[r] = "credentials"
      PROVE  \A q \in Req : Trying(q)' => Trying(q)
  BY <1>0, <1>3 DEF Trying
<1>4. \A q \in Req : Trying(q)' => Trying(q)
  <2> USE DEF to, at, readAccount
  <2>1. CASE GetByPhone(r)
    <3>1. pc' = [pc EXCEPT ![r] = "compare"] /\ pc[r] = "credentials"
      BY <2>1 DEF GetByPhone
    <3> QED BY <1>3, <3>1
  <2>2. CASE \E a \in Ids : lockOwner(r, a)
    BY <2>2 DEF lockOwner, Trying
  <2>3. CASE RequireRole(r)
    <3>1. in[r].kind \in {"create", "edit", "toggle", "reset"}
      BY <2>3 DEF RequireRole, Gated, IInv
    <3>2. \E w \in {"lookup", "lock", "list", "set", "done"} : pc' = [pc EXCEPT ![r] = w]
      BY <2>3, <3>1 DEF RequireRole
    <3> QED BY <1>3, <3>2
  <2>4. CASE lookUp(r) \/ lockStaff(r) \/ getActiveByHash(r) \/ Update(r) \/ SetPassword(r) \/ staffToggle(r)
    <3>1. \E w \in {"insert", "recover", "done", "count", "write", "gate", "revoke", "lock"} :
              pc' = [pc EXCEPT ![r] = w]
      BY <2>4 DEF lookUp, lockStaff, getActiveByHash, Update, SetPassword, staffToggle
    <3> QED BY <1>3, <3>1
  <2>5. CASE \/ refusedByIP(r) \/ refusedByPhone(r) \/ createSession(r) \/ Logout(r)
             \/ insertStaff(r) \/ resetOwner(r) \/ otherOwners(r) \/ lastOwner(r) \/ enoughOwners(r)
             \/ revokeAllForStaff(r) \/ fails(r)
    <3>1. \E w \in {"done", "owners", "write"} : pc' = [pc EXCEPT ![r] = w]
      BY <2>5 DEF refusedByIP, refusedByPhone, createSession, Logout, insertStaff, resetOwner,
                  otherOwners, lastOwner, enoughOwners, revokeAllForStaff, fails
    <3> QED BY <1>3, <3>1
  <2> QED BY <2>1, <2>2, <2>3, <2>4, <2>5 DEF step
<1> QED BY <1>1, <1>2, <1>4

\* An attempt is admitted: the budget and the attempts under way grow by one.
LEMMA LoginKeeps == ASSUME IInv, LoginInv, NEW r \in Req, Login(r) PROVE LoginInv'
<1> USE DEF LoginInv
<1>0. PICK n \in Numbers : n = in[r].number
  BY DEF IInv, Types, Asks
<1>1. /\ pc[r] = "login" /\ attempts[n] < PhoneLimit
      /\ attempts' = [[attempts EXCEPT ![IP] = attempts[IP] + 1] EXCEPT ![n] = @ + 1]
      /\ admitted' = [admitted EXCEPT ![r] = window[n]]
      /\ pc' = [pc EXCEPT ![r] = "credentials"] /\ UNCHANGED <<in, window, ledger>>
  BY <1>0 DEF Login, allow, at, to, count, local
<1>2. /\ pc \in [Req -> Places] /\ PhoneLimit \in Nat /\ n # IP /\ n \in LimiterKeys /\ IP \in LimiterKeys
  BY LimiterAssumption, StaffAssumption DEF IInv, Types, LimiterKeys
<1>3. attempts' \in [LimiterKeys -> Nat] /\ attempts'[n] = attempts[n] + 1
      /\ \A k \in Numbers : k # n => attempts'[k] = attempts[k]
  BY <1>1, <1>2, LimiterAssumption DEF Counters, LimiterKeys
<1>4. admitted' \in [Req -> Nat] /\ admitted'[r] = window[n] /\ window[n] \in Nat
      /\ \A q \in Req : q # r => admitted'[q] = admitted[q]
  BY <1>1, <1>2 DEF Counters
<1>5. Counters'
  BY <1>1, <1>3, <1>4 DEF Counters
<1>6. Trying(r)' /\ ~Trying(r) /\ \A q \in Req : q # r => Trying(q)' = Trying(q)
  BY <1>1, <1>2 DEF Trying
<1>7. \A q \in Req : Trying(q)' => admitted'[q] <= window'[in'[q].number]
  BY <1>0, <1>1, <1>4, <1>6 DEF Budget
<1>8. InFlight(n)' = InFlight(n) \cup {r} /\ r \notin InFlight(n)
  BY <1>0, <1>1, <1>4, <1>6 DEF InFlight
<1>9. \A k \in Numbers : k # n => InFlight(k)' = InFlight(k)
  BY <1>0, <1>1, <1>4, <1>6 DEF InFlight
<1>10. Cardinality(InFlight(n)') = Cardinality(InFlight(n)) + 1
  BY <1>8, FlightsFinite, FS_AddElement
<1>11. ASSUME NEW k \in Numbers
       PROVE  /\ attempts'[k] <= PhoneLimit
              /\ ledger'[k].wrong + Cardinality(InFlight(k)') <= PhoneLimit * ledger'[k].right + attempts'[k]
  <2>1. ledger[k].wrong \in Nat /\ ledger[k].right \in Nat /\ attempts[k] \in Nat
    BY DEF Counters, LimiterKeys
  <2>2. PICK m \in Int : m = PhoneLimit * ledger[k].right
    BY <2>1, <1>2
  <2>3. ledger[k].wrong + Cardinality(InFlight(k)) <= m + attempts[k] /\ attempts[k] <= PhoneLimit
    BY <2>2 DEF Budget
  <2>4. CASE k = n
    <3>1. ledger[n].wrong + (Cardinality(InFlight(n)) + 1) <= m + (attempts[n] + 1) /\ attempts[n] + 1 <= PhoneLimit
      BY <1>1, <1>2, <2>1, <2>3, <2>4, FlightsFinite
    <3> QED BY <1>1, <1>3, <1>10, <2>2, <2>4, <3>1
  <2>5. CASE k # n
    BY <1>1, <1>3, <1>9, <2>2, <2>3, <2>5
  <2> QED BY <2>4, <2>5
<1> QED BY <1>5, <1>7, <1>11 DEF Budget

\* A password is compared: a wrong one of this window moves from under way to
\* the ledger, a right one gives the budget back.
LEMMA CompareKeeps == ASSUME IInv, LoginInv, NEW r \in Req, compare(r) PROVE LoginInv'
<1> USE DEF LoginInv
<1>0. PICK n \in Numbers : n = in[r].number
  BY DEF IInv, Types, Asks
<1>1. PICK w \in {"open", "done"} : pc' = [pc EXCEPT ![r] = w]
  BY DEF compare, to
<1>2. pc[r] = "compare" /\ UNCHANGED <<in, window, admitted>> /\ pc \in [Req -> Places] /\ PhoneLimit \in Nat
  BY StaffAssumption DEF compare, at, local, IInv, Types
<1>3. Trying(r) /\ ~Trying(r)' /\ \A q \in Req : q # r => Trying(q)' = Trying(q)
  BY <1>1, <1>2 DEF Trying
<1>4. \A q \in Req : Trying(q)' => admitted'[q] <= window'[in'[q].number]
  BY <1>2, <1>3 DEF Budget
<1>5. \A k \in Numbers : InFlight(k)' = InFlight(k) \ {r} /\ (r \in InFlight(k) => k = n)
  BY <1>0, <1>2, <1>3 DEF InFlight
<1>6. \A k \in Numbers : Cardinality(InFlight(k)') <= Cardinality(InFlight(k)) /\ Cardinality(InFlight(k)') \in Nat
  BY <1>5, FlightsFinite, FS_Subset, FS_CardinalityType
<1>7. n \in LimiterKeys /\ ledger[n] \in [wrong : Nat, right : Nat] /\ attempts[n] \in Nat
  BY DEF Counters, LimiterKeys
<1>8. ASSUME NEW k \in Numbers, attempts'[k] = attempts[k], ledger'[k] = ledger[k]
      PROVE  /\ attempts'[k] <= PhoneLimit
             /\ ledger'[k].wrong + Cardinality(InFlight(k)') <= PhoneLimit * ledger'[k].right + attempts'[k]
  <2>1. ledger[k].wrong \in Nat /\ ledger[k].right \in Nat /\ attempts[k] \in Nat
    BY DEF Counters, LimiterKeys
  <2>2. PICK m \in Int : m = PhoneLimit * ledger[k].right
    BY <2>1, <1>2
  <2>3. ledger[k].wrong + Cardinality(InFlight(k)) <= m + attempts[k] /\ attempts[k] <= PhoneLimit
    BY <2>2 DEF Budget
  <2>4. ledger[k].wrong + Cardinality(InFlight(k)') <= m + attempts[k]
    BY <1>6, <2>1, <2>3, FlightsFinite
  <2> QED BY <1>8, <2>2, <2>3, <2>4
<1>9. CASE accepted(r)
  <2>1. attempts' = [attempts EXCEPT ![n] = 0] /\ ledger' = [ledger EXCEPT ![n].right = ledger[n].right + 1]
    BY <1>0, <1>9 DEF compare, budgetAfter, tallied
  <2>2. attempts' \in [LimiterKeys -> Nat] /\ attempts'[n] = 0 /\ \A k \in Numbers : k # n => attempts'[k] = attempts[k]
    BY <1>7, <2>1 DEF Counters
  <2>3. /\ ledger' \in [Numbers -> [wrong : Nat, right : Nat]] /\ \A k \in Numbers : k # n => ledger'[k] = ledger[k]
        /\ ledger'[n].wrong = ledger[n].wrong /\ ledger'[n].right = ledger[n].right + 1
    BY <1>7, <2>1 DEF Counters
  <2>4. Counters'
    BY <1>2, <2>2, <2>3 DEF Counters
  <2>5. ledger[n].wrong \in Nat /\ ledger[n].right \in Nat
    BY <1>7
  <2>6. PICK m \in Int : m = PhoneLimit * ledger[n].right
    BY <2>5, <1>2
  <2>7. PhoneLimit * (ledger[n].right + 1) = m + PhoneLimit
    BY <2>5, <2>6, <1>2
  <2>8. ledger[n].wrong + Cardinality(InFlight(n)) <= m + attempts[n] /\ attempts[n] <= PhoneLimit
    BY <2>6 DEF Budget
  <2>9. ledger[n].wrong + Cardinality(InFlight(n)') <= m + PhoneLimit + 0
    BY <1>2, <1>6, <1>7, <2>5, <2>8, FlightsFinite
  <2>10. 0 <= PhoneLimit /\ ledger'[n].wrong + Cardinality(InFlight(n)') <= PhoneLimit * ledger'[n].right + attempts'[n]
    BY <1>2, <2>2, <2>3, <2>7, <2>9
  <2> QED BY <1>4, <1>8, <2>2, <2>3, <2>4, <2>10 DEF Budget
<1>10. CASE ~accepted(r) /\ admitted[r] = window[n]
  <2>1. attempts' = attempts /\ ledger' = [ledger EXCEPT ![n].wrong = ledger[n].wrong + 1]
    BY <1>0, <1>10 DEF compare, budgetAfter, tallied
  <2>2. /\ ledger' \in [Numbers -> [wrong : Nat, right : Nat]] /\ \A k \in Numbers : k # n => ledger'[k] = ledger[k]
        /\ ledger'[n].wrong = ledger[n].wrong + 1 /\ ledger'[n].right = ledger[n].right
    BY <1>7, <2>1 DEF Counters
  <2>3. Counters'
    BY <1>2, <2>1, <2>2 DEF Counters
  <2>4. ledger[n].wrong \in Nat /\ ledger[n].right \in Nat
    BY <1>7
  <2>5. PICK m \in Int : m = PhoneLimit * ledger[n].right
    BY <2>4, <1>2
  <2>6. ledger[n].wrong + Cardinality(InFlight(n)) <= m + attempts[n] /\ attempts[n] <= PhoneLimit
    BY <2>5 DEF Budget
  <2>7. r \in InFlight(n)
    BY <1>0, <1>3, <1>10 DEF InFlight
  <2>8. Cardinality(InFlight(n)') = Cardinality(InFlight(n)) - 1
    BY <1>5, <2>7, FlightsFinite, FS_RemoveElement
  <2>9. (ledger[n].wrong + 1) + Cardinality(InFlight(n)') <= m + attempts[n]
    BY <1>7, <2>4, <2>6, <2>8, FlightsFinite
  <2>10. ledger'[n].wrong + Cardinality(InFlight(n)') <= PhoneLimit * ledger'[n].right + attempts'[n]
    BY <2>1, <2>2, <2>5, <2>9
  <2> QED BY <1>4, <1>8, <2>1, <2>2, <2>3, <2>6, <2>10 DEF Budget
<1>11. CASE ~accepted(r) /\ admitted[r] # window[n]
  <2>1. attempts' = attempts /\ ledger' = ledger
    BY <1>0, <1>11 DEF compare, budgetAfter, tallied
  <2>2. Counters'
    BY <1>2, <2>1 DEF Counters
  <2> QED BY <1>4, <1>8, <2>1, <2>2 DEF Budget
<1> QED BY <1>9, <1>10, <1>11

\* A window ends: who was admitted in it no longer counts.
LEMMA WindowKeeps == ASSUME IInv, LoginInv, NEW k \in LimiterKeys, windowEnds(k) PROVE LoginInv'
<1> USE DEF LoginInv
<1>1. /\ window' = [window EXCEPT ![k] = window[k] + 1] /\ attempts' = [attempts EXCEPT ![k] = 0]
      /\ UNCHANGED <<in, pc, admitted>>
      /\ ledger' = IF k \in Numbers THEN [ledger EXCEPT ![k] = [wrong |-> 0, right |-> 0]] ELSE ledger
  BY DEF windowEnds, local, Counters
<1>2. [wrong |-> 0, right |-> 0] \in [wrong : Nat, right : Nat]
  OBVIOUS
<1>3. ledger' \in [Numbers -> [wrong : Nat, right : Nat]]
  BY <1>1, <1>2 DEF Counters
<1>4. window' \in [LimiterKeys -> Nat] /\ attempts' \in [LimiterKeys -> Nat]
  BY <1>1 DEF Counters
<1>5. Counters'
  BY <1>1, <1>3, <1>4 DEF Counters
<1>6. \A q \in Req : Trying(q)' = Trying(q) /\ in[q].number \in Numbers
  BY <1>1 DEF Trying, IInv, Types, Asks
<1>7. \A n \in Numbers : n \in LimiterKeys /\ window[n] \in Nat /\ attempts[n] \in Nat
  BY DEF Counters, LimiterKeys
<1>8. \A n \in Numbers : /\ window'[n] = (IF n = k THEN window[n] + 1 ELSE window[n])
                         /\ attempts'[n] = (IF n = k THEN 0 ELSE attempts[n])
                         /\ n # k => ledger'[n] = ledger[n]
  BY <1>1, <1>7 DEF Counters
<1>9. \A q \in Req : Trying(q) => admitted[q] <= window[in[q].number] /\ admitted[q] \in Nat
  BY DEF Budget, Counters
<1>10. \A q \in Req : Trying(q)' => admitted'[q] <= window'[in'[q].number]
  BY <1>1, <1>6, <1>7, <1>8, <1>9
<1>11. ASSUME NEW n \in Numbers
       PROVE  /\ attempts'[n] <= PhoneLimit
              /\ ledger'[n].wrong + Cardinality(InFlight(n)') <= PhoneLimit * ledger'[n].right + attempts'[n]
  <2>1. CASE n = k
    <3>1. InFlight(n)' = {}
      BY <1>1, <1>6, <1>7, <1>8, <1>9, <2>1 DEF InFlight
    <3>2. Cardinality(InFlight(n)') = 0
      BY <3>1, FS_EmptySet
    <3>3. ledger'[n].wrong = 0 /\ ledger'[n].right = 0 /\ attempts'[n] = 0
      BY <1>1, <1>8, <2>1 DEF Counters
    <3>4. PhoneLimit * 0 = 0 /\ PhoneLimit >= 0
      BY StaffAssumption
    <3> QED BY <3>2, <3>3, <3>4
  <2>2. CASE n # k
    <3>1. InFlight(n)' = InFlight(n)
      BY <1>1, <1>6, <1>8, <2>2 DEF InFlight
    <3>2. ledger'[n] = ledger[n] /\ attempts'[n] = attempts[n]
      BY <1>8, <2>2
    <3> QED BY <3>1, <3>2 DEF Budget
  <2> QED BY <2>1, <2>2
<1> QED BY <1>5, <1>10, <1>11 DEF Budget

LEMMA LoginInvariance == IInv /\ LoginInv /\ [Next]_vars => LoginInv'
<1> SUFFICES ASSUME IInv, LoginInv, [Next]_vars PROVE LoginInv'
    OBVIOUS
<1>1. ASSUME NEW r \in Req, step(r) PROVE LoginInv'
  BY <1>1, LoginKeeps, CompareKeeps, OtherSteps, BudgetKept
<1>2. CASE \E k \in LimiterKeys : windowEnds(k)
  BY <1>2, WindowKeeps
<1>3. CASE UNCHANGED <<in, pc, limiter>>
  BY <1>3, BudgetKept DEF limiter, Trying
<1>4. CASE sessionExpires
  BY <1>3, <1>4 DEF sessionExpires, local
<1>5. CASE UNCHANGED vars
  BY <1>3, <1>5 DEF vars, limiter
<1> QED BY <1>1, <1>2, <1>4, <1>5 DEF Next

LEMMA BudgetInitially == Init => LoginInv
<1> SUFFICES ASSUME Init PROVE LoginInv
    OBVIOUS
<1>1. Counters
  BY DEF Init, Counters
<1>2. \A r \in Req : ~Trying(r)
  BY StaffAssumption DEF Init, Trying, entry, Asks
<1>3. \A n \in Numbers : InFlight(n) = {}
  BY <1>2 DEF InFlight
<1>4. \A n \in Numbers : attempts[n] = 0 /\ ledger[n].wrong = 0 /\ ledger[n].right = 0
  BY DEF Init, LimiterKeys
<1>5. PhoneLimit * 0 = 0 /\ 0 <= PhoneLimit /\ Cardinality({}) = 0
  BY StaffAssumption, FS_EmptySet
<1>6. Budget
  BY <1>2, <1>3, <1>4, <1>5 DEF Budget
<1> QED BY <1>1, <1>6 DEF LoginInv

-----------------------------------------------------------------------------
\* What a transaction knows while it holds its rows holds after every statement
\* of every other request (Repo.Update, UpdateStaff, CreateStaff, EnsureOwner).
THEOREM Inductive == Spec => []IInv
BY Initial, Invariance, PTL DEF Spec

-----------------------------------------------------------------------------
\* An active owner remains, however edits, toggles, resets and the create-owner
\* command interleave and whichever of them fail (Repo.Update).
THEOREM OwnerRemains == Spec => []ActiveOwnerRemains
<1>1. IInv => ActiveOwnerRemains
  BY DEF IInv
<1> QED BY <1>1, Inductive, PTL

\* A number belongs to one account: the lookup covers legacy spellings, the
\* constraint covers simultaneous requests (Repo.Create, EnsureOwner).
THEOREM NumberIsUnique == Spec => []OneAccountPerNumber
<1>1. IInv => OneAccountPerNumber
  BY DEF IInv
<1> QED BY <1>1, Inductive, PTL

\* Both at once: the shop always has an active owner, and a number names one
\* account (Repo.Update, Repo.Create, EnsureOwner).
THEOREM AccountsAreSound == Spec => []AccountsSound
<1>1. IInv => AccountsSound
  BY DEF IInv, AccountsSound
<1> QED BY <1>1, Inductive, PTL

\* A password is replaced only by the one the running request brings, although
\* every edit writes the hash it read (Repo.Update, SetPassword, resetOwner).
THEOREM PasswordStays == Spec => NewPasswordStays
<1> DEFINE kept == \A a \in Ids : staff'[a].pw # staff[a].pw =>
                      \E r \in Req : staff'[a].pw = r /\ ~over(r) /\ pc'[r] # pc[r]
<1>1. IInv /\ [Next]_vars => [kept]_vars
  <2> SUFFICES ASSUME IInv, Next PROVE kept
      OBVIOUS
  <2> USE DEF IInv, over, at, to
  <2>1. CASE UNCHANGED staff
    BY <2>1
  <2>2. ASSUME NEW r \in Req, Update(r) PROVE kept
    <3>1. /\ target(r) \in Ids /\ pc[r] = "write" /\ pc'[r] \in {"revoke", "done"}
          /\ cur[r].row.pw = staff[target(r)].pw
      BY <2>2 DEF Types, Asks, target, Holding, Update
    <3>2. \A b \in Ids : staff'[b].pw \in {staff[b].pw, r}
      BY <2>2, <3>1 DEF Update, Types, Rows
    <3> QED BY <3>1, <3>2
  <2>3. ASSUME NEW r \in Req, SetPassword(r) PROVE kept
    <3>1. CASE exists(target(r))
      <4>1. pc[r] = "set" /\ pc'[r] = "revoke"
        BY <2>3, <3>1 DEF SetPassword, Types
      <4>2. \A b \in Ids : staff'[b].pw \in {staff[b].pw, r}
        BY <2>3, <3>1 DEF SetPassword, Types, Rows
      <4> QED BY <4>1, <4>2
    <3> QED BY <2>3, <3>1, <2>1 DEF SetPassword
  <2>4. ASSUME NEW r \in Req, resetOwner(r) PROVE kept
    <3>1. pc[r] = "recover" /\ pc'[r] = "done"
      BY <2>4 DEF resetOwner, Types
    <3>2. \A b \in Ids : staff'[b].pw \in {staff[b].pw, r}
      BY <2>4 DEF resetOwner, Types, Rows
    <3> QED BY <3>1, <3>2
  <2>5. ASSUME NEW r \in Req, insertStaff(r) PROVE kept
    <3>1. pc[r] = "insert" /\ pc'[r] = "done"
      BY <2>5 DEF insertStaff, Types
    <3>2. \A b \in Ids : staff'[b].pw \in {staff[b].pw, r}
      <4> DEFINE rec == [number |-> in[r].number, normalized |-> TRUE, active |-> TRUE, pw |-> r,
                         role |-> IF in[r].kind = "ensureOwner" THEN "owner" ELSE in[r].role]
      <4>1. rec.pw = r
        OBVIOUS
      <4>2. UNCHANGED staff \/ \E a : staff' = [staff EXCEPT ![a] = rec]
        BY <2>5 DEF insertStaff
      <4> HIDE DEF rec
      <4> QED BY <4>1, <4>2 DEF Types
    <3> QED BY <3>1, <3>2
  <2>6. ASSUME NEW r \in Req, step(r),
               ~Update(r), ~SetPassword(r), ~resetOwner(r), ~insertStaff(r)
        PROVE  kept
    BY <2>6, <2>1 DEF step, refusedByIP, refusedByPhone, Login, GetByPhone, compare, createSession,
       Logout, getActiveByHash, RequireRole, lookUp, staffToggle, lockStaff, otherOwners, lockOwner,
       lastOwner, enoughOwners, revokeAllForStaff, fails, accounts
  <2>7. CASE sessionExpires \/ \E k \in LimiterKeys : windowEnds(k)
    BY <2>7, <2>1 DEF sessionExpires, windowEnds, accounts
  <2> QED BY <2>2, <2>3, <2>4, <2>5, <2>6, <2>7 DEF Next
<1> QED BY <1>1, Inductive, PTL DEF Spec, NewPasswordStays

\* An open session was opened with its account's present password, unless the
\* login overtook the change, or its revocation is still to come or has failed
\* (UpdateStaff, ResetPassword, EnsureOwner, sessionRepo.create).
THEOREM SessionsFollow == Spec => []SessionsFollowPassword
<1>1. SessionInv => SessionsFollowPassword
  BY DEF SessionInv
<1> QED BY <1>1, Inductive, SessionsInitially, SessionInvariance, PTL DEF Spec

\* However many logins run at once, a number is tried at most PhoneLimit times
\* for each successful login and as often again: an attempt is counted before the
\* password is read, and a success resets the count (Login, loginRateLimiter).
THEOREM GuessesAreBounded == Spec => []GuessesBounded
<1>1. LoginInv => GuessesBounded
  <2> SUFFICES ASSUME LoginInv, NEW n \in Numbers
               PROVE  ledger[n].wrong <= PhoneLimit * (1 + ledger[n].right)
    BY DEF GuessesBounded
  <2>1. /\ ledger[n].wrong \in Nat /\ ledger[n].right \in Nat /\ attempts[n] \in Nat /\ PhoneLimit \in Nat
        /\ Cardinality(InFlight(n)) \in Nat
    BY FlightsFinite, StaffAssumption DEF LoginInv, Counters, LimiterKeys
  <2>2. PICK m \in Int : m = PhoneLimit * ledger[n].right
    BY <2>1
  <2>3. ledger[n].wrong + Cardinality(InFlight(n)) <= m + attempts[n] /\ attempts[n] <= PhoneLimit
    BY <2>2 DEF LoginInv, Budget
  <2>4. PhoneLimit * (1 + ledger[n].right) = PhoneLimit + m
    BY <2>1, <2>2
  <2> QED BY <2>1, <2>3, <2>4
<1> QED BY <1>1, Inductive, BudgetInitially, LoginInvariance, PTL DEF Spec
=============================================================================
