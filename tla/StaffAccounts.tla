---------------------------- MODULE StaffAccounts ----------------------------
(***************************************************************************)
(* Staff accounts, their sessions and the login budget: Login, Logout, the *)
(* role gate of the admin panel, staffCreate, staffToggle, UpdateStaff,    *)
(* ResetPassword and the create-owner command, statement by statement.     *)
(*                                                                         *)
(* A request does one thing, fixed by in[r].  A password is the number of  *)
(* the request that set it; 0 is the first one.  A phone number is stored  *)
(* normalized, or (legacy rows) in another spelling.  Time is abstract: a  *)
(* limiter window or a session may end at any moment.                      *)
(*                                                                         *)
(* Sources: internal/staff, internal/admin/{staff_page,auth_gate}.go.      *)
(***************************************************************************)
EXTENDS Naturals, FiniteSets

CONSTANTS
    Req,            \* requests
    Ids,            \* primary keys of staff, used and free
    Numbers,        \* phone numbers
    InitStaff,      \* the staff table at the start
    Inputs,         \* what the requests may ask: a set of functions on Req
    PhoneLimit,     \* loginAttemptLimit
    IPLimit,        \* STAFF_LOGIN_MAX_PER_IP
    MaxWindows,     \* bound: limiter windows that end, per key
    MaxExpired      \* bound: sessions that reach their end of life

Roles == {"owner", "manager", "point_staff"}
Passwords == Req \cup {0}

\* A row of staff; role "none" marks a free key.
Rows == [number : Numbers, normalized : BOOLEAN, role : Roles \cup {"none"},
         active : BOOLEAN, pw : Passwords]

\* What a request asks.  For each kind the fields it does not use are ignored.
Asks == [kind : {"login", "logout", "create", "edit", "toggle", "reset", "ensureOwner"},
         id : Ids, number : Numbers, role : Roles, active : BOOLEAN,
         newPw : BOOLEAN, guess : Passwords]

ASSUME StaffAssumption ==
    /\ Req \subseteq Nat \ {0}
    /\ InitStaff \in [Ids -> Rows] /\ \A a \in Ids : InitStaff[a].pw = 0
    /\ Inputs \subseteq [Req -> Asks]
    \* create-owner has run, and no number was stored in two spellings
    /\ \E a \in Ids : InitStaff[a].role = "owner" /\ InitStaff[a].active
    /\ \A a, b \in Ids : InitStaff[a].role # "none" /\ InitStaff[b].role # "none"
                           /\ InitStaff[a].number = InitStaff[b].number => a = b
    /\ PhoneLimit \in Nat /\ IPLimit \in Nat /\ MaxWindows \in Nat /\ MaxExpired \in Nat

VARIABLES
    in,         \* the request
    pc,         \* where it is
    cur,        \* the account it read: [id, row], or NoAccount
    todo,       \* owners the count has still to lock
    others,     \* owners it has counted
    staff,      \* table staff
    lock,       \* row locks of open transactions (0: free)
    sessions,   \* table staff_sessions
    attempts,   \* loginRateLimiter.attempts[*].count, per key
    window,     \* windows of a key that ended (its current one)
    admitted,   \* ghost: the window a login was counted in
    ledger,     \* ghost: wrong and right passwords of a number in its window
    lost        \* ghost: accounts whose revocation failed

vars == <<in, pc, cur, todo, others, staff, lock, sessions, attempts, window,
          admitted, ledger, lost>>
accounts == <<staff, lock, sessions, lost>>
limiter == <<attempts, window, admitted, ledger>>
local == <<in, todo, others>>

NoAccount == [id |-> 0]
IP == "ip"          \* one client address: the worst case for the budget
LimiterKeys == Numbers \cup {IP}

\* Phones and addresses are counted by two limiters.
ASSUME LimiterAssumption == IP \notin Numbers /\ IsFiniteSet(Req)

exists(a) == staff[a].role # "none"
free == {a \in Ids : ~exists(a)}
activeOwner(a) == staff[a].role = "owner" /\ staff[a].active
target(r) == in[r].id
unlocked(r) == [a \in Ids |-> IF lock[a] = r THEN 0 ELSE lock[a]]
live == {s \in sessions : s.state = "live"}
to(r, where) == pc' = [pc EXCEPT ![r] = where]
at(r, where) == pc[r] = where
over(r) == pc[r] = "done"

\* Where a request starts: the admin pages are behind the role gate.
entry(ask) ==
    IF ask.kind \in {"login", "logout"} THEN ask.kind
    ELSE IF ask.kind = "ensureOwner" THEN "lookup" ELSE "session"

Init ==
    /\ in \in Inputs
    /\ pc = [r \in Req |-> entry(in[r])]
    /\ cur = [r \in Req |-> NoAccount]
    /\ todo = [r \in Req |-> {}]
    /\ others = [r \in Req |-> 0]
    /\ staff = InitStaff
    /\ lock = [a \in Ids |-> 0]
    /\ sessions = {[by |-> 0, account |-> a, pw |-> 0, raced |-> FALSE, state |-> "live"] :
                     a \in {b \in Ids : exists(b)}}
    /\ attempts = [k \in LimiterKeys |-> 0]
    /\ window = [k \in LimiterKeys |-> 0]
    /\ admitted = [r \in Req |-> 0]
    /\ ledger = [n \in Numbers |-> [wrong |-> 0, right |-> 0]]
    /\ lost = {}

-----------------------------------------------------------------------------
(***************************************************************************)
(* Login.                                                                  *)
(***************************************************************************)
\* loginRateLimiter.allow: is there budget left?
allow(k, limit) == attempts[k] < limit

count(k) == [attempts EXCEPT ![k] = @ + 1]

\* Too many attempts from the address: refused before the number is counted.
refusedByIP(r) ==
    /\ at(r, "login")
    /\ ~allow(IP, IPLimit)
    /\ to(r, "done")
    /\ UNCHANGED <<local, cur, accounts, limiter>>

refusedByPhone(r) ==
    /\ at(r, "login")
    /\ allow(IP, IPLimit)
    /\ ~allow(in[r].number, PhoneLimit)
    /\ attempts' = count(IP)
    /\ to(r, "done")
    /\ UNCHANGED <<local, cur, accounts, window, admitted, ledger>>

\* The attempt is counted before the password is looked at.
Login(r) ==
    LET n == in[r].number IN
    /\ at(r, "login")
    /\ allow(IP, IPLimit)
    /\ allow(n, PhoneLimit)
    /\ attempts' = [count(IP) EXCEPT ![n] = @ + 1]
    /\ admitted' = [admitted EXCEPT ![r] = window[n]]
    /\ to(r, "credentials")
    /\ UNCHANGED <<local, cur, accounts, window, ledger>>

\* The row getByPhone returns: an exact spelling wins over a legacy one.
found(n) ==
    LET all == {a \in Ids : exists(a) /\ staff[a].number = n}
        exact == {a \in all : staff[a].normalized}
    IN  IF all = {} THEN NoAccount
        ELSE LET a == CHOOSE b \in (IF exact = {} THEN all ELSE exact) : TRUE
             IN  [id |-> a, row |-> staff[a]]

readAccount(r, x, where) ==
    /\ cur' = [cur EXCEPT ![r] = x]
    /\ to(r, where)

GetByPhone(r) ==
    /\ at(r, "credentials")
    /\ readAccount(r, found(in[r].number), "compare")
    /\ UNCHANGED <<local, accounts, limiter>>

\* bcrypt against the hash that was read.
accepted(r) ==
    /\ cur[r] # NoAccount
    /\ cur[r].row.active
    /\ cur[r].row.pw = in[r].guess

\* A wrong password counts in the window that admitted it, a right one in the
\* window whose budget it gives back.
tallied(r) ==
    LET n == in[r].number IN
    IF accepted(r) THEN [ledger EXCEPT ![n].right = @ + 1]
    ELSE IF admitted[r] = window[n] THEN [ledger EXCEPT ![n].wrong = @ + 1]
    ELSE ledger

\* Mutant: the budget is given back whatever the password was.
budgetAfterAlways(r) == [attempts EXCEPT ![in[r].number] = 0]

\* loginLimiter.reset, after a success only.
budgetAfter(r) == IF accepted(r) THEN [attempts EXCEPT ![in[r].number] = 0] ELSE attempts

compare(r) ==
    /\ at(r, "compare")
    /\ attempts' = budgetAfter(r)
    /\ ledger' = tallied(r)
    /\ to(r, IF accepted(r) THEN "open" ELSE "done")
    /\ UNCHANGED <<local, cur, accounts, window, admitted>>

\* sessionRepo.create.  The foreign key waits for a transaction that holds the
\* account FOR UPDATE.  raced (ghost): the password was replaced meanwhile.
createSession(r) ==
    LET a == cur[r].id IN
    /\ at(r, "open")
    /\ lock[a] = 0
    /\ sessions' = sessions \cup
          {[by |-> r, account |-> a, pw |-> cur[r].row.pw,
            raced |-> staff[a].pw # cur[r].row.pw, state |-> "live"]}
    /\ to(r, "done")
    /\ UNCHANGED <<local, cur, staff, lock, lost, limiter>>

-----------------------------------------------------------------------------
(***************************************************************************)
(* Sessions.                                                               *)
(***************************************************************************)
revoked(S) == {IF s \in S THEN [s EXCEPT !.state = "revoked"] ELSE s : s \in sessions}

\* Logout: revokeByHash of the session the cookie names.
Logout(r) ==
    /\ at(r, "logout")
    /\ \E s \in live : sessions' = revoked({s})
    /\ to(r, "done")
    /\ UNCHANGED <<local, cur, staff, lock, lost, limiter>>

\* sessionTTL has passed.
sessionExpires ==
    /\ Cardinality({s \in sessions : s.state = "expired"}) < MaxExpired
    /\ \E s \in live : sessions' = (sessions \ {s}) \cup {[s EXCEPT !.state = "expired"]}
    /\ UNCHANGED <<local, pc, cur, staff, lock, lost, limiter>>

\* authenticatedStaff reads the session, then the account behind it ...
getActiveByHash(r) ==
    /\ at(r, "session")
    /\ \E s \in live : readAccount(r, [id |-> s.account], "gate")
    /\ UNCHANGED <<local, accounts, limiter>>

\* ... RequireRole(RoleOwner) / requireStaffRole.
RequireRole(r) ==
    /\ at(r, "gate")
    /\ to(r, IF activeOwner(cur[r].id)
             THEN CASE in[r].kind = "create" -> "lookup"
                    [] in[r].kind = "edit" -> "lock"
                    [] in[r].kind = "toggle" -> "list"
                    [] in[r].kind = "reset" -> "set"
             ELSE "done")
    /\ cur' = [cur EXCEPT ![r] = NoAccount]
    /\ UNCHANGED <<local, accounts, limiter>>

-----------------------------------------------------------------------------
(***************************************************************************)
(* CreateStaff and the create-owner command.                               *)
(***************************************************************************)
lookup(n) == found(n)

\* Repo.Create looks for any spelling; EnsureOwner tells three cases apart.
lookUp(r) ==
    LET x == lookup(in[r].number) IN
    /\ at(r, "lookup")
    /\ readAccount(r, x,
          IF x = NoAccount THEN "insert"
          ELSE IF in[r].kind = "ensureOwner" /\ x.row.role = "owner" THEN "recover"
          ELSE "done")
    /\ UNCHANGED <<local, accounts, limiter>>

\* UNIQUE (phone): the same spelling only.
uniquePhone(n) == ~\E a \in Ids : exists(a) /\ staff[a].number = n /\ staff[a].normalized

\* INSERT INTO staff ... is_active true; 23505 becomes phone_taken.
insertStaff(r) ==
    /\ at(r, "insert")
    /\ to(r, "done")
    /\ \/ /\ uniquePhone(in[r].number)
          /\ free # {}
          /\ staff' = [staff EXCEPT ![CHOOSE a \in free : TRUE] =
                [number |-> in[r].number, normalized |-> TRUE, active |-> TRUE, pw |-> r,
                 role |-> IF in[r].kind = "ensureOwner" THEN "owner" ELSE in[r].role]]
       \/ ~uniquePhone(in[r].number) /\ UNCHANGED staff
    /\ UNCHANGED <<local, cur, lock, sessions, lost, limiter>>

\* revoked_at IS NULL
ofAccount(a) == {s \in sessions : s.account = a /\ s.state = "live"}

\* resetOwner, one transaction: new password, active again, logged out.
resetOwner(r) ==
    LET a == cur[r].id IN
    /\ at(r, "recover")
    /\ lock[a] = 0
    /\ staff' = [staff EXCEPT ![a].pw = r, ![a].active = TRUE]
    /\ sessions' = revoked(ofAccount(a))
    /\ to(r, "done")
    /\ UNCHANGED <<local, cur, lock, lost, limiter>>

-----------------------------------------------------------------------------
(***************************************************************************)
(* UpdateStaff: one transaction (Repo.Update), then the revocation.        *)
(***************************************************************************)
\* staffToggle submits the listed row again with is_active flipped.
staffToggle(r) ==
    LET a == target(r) IN
    /\ at(r, "list")
    /\ in' = [in EXCEPT ![r].role = IF exists(a) THEN staff[a].role ELSE @,
                        ![r].active = ~staff[a].active, ![r].newPw = FALSE]
    /\ to(r, IF exists(a) THEN "lock" ELSE "done")
    /\ UNCHANGED <<todo, others, cur, accounts, limiter>>

\* Mutant: a plain SELECT.
lockTargetNot(r) == lock

lockTarget(r) == [lock EXCEPT ![target(r)] = r]

losesOwnerStatus(r, row) ==
    /\ row.role = "owner" /\ row.active
    /\ in[r].role # "owner" \/ ~in[r].active

\* SELECT ... FOR UPDATE of the account.
lockStaff(r) ==
    LET a == target(r) IN
    /\ at(r, "lock")
    /\ \/ /\ exists(a) /\ lock[a] = 0
          /\ lock' = lockTarget(r)
          /\ readAccount(r, [id |-> a, row |-> staff[a]],
                         IF losesOwnerStatus(r, staff[a]) THEN "count" ELSE "write")
       \/ /\ ~exists(a)
          /\ to(r, "done")
          /\ UNCHANGED <<lock, cur>>
    /\ UNCHANGED <<local, staff, sessions, lost, limiter>>

\* countOtherActiveOwners: the rows its snapshot shows ...
otherOwners(r) ==
    /\ at(r, "count")
    /\ todo' = [todo EXCEPT ![r] = {a \in Ids \ {target(r)} : activeOwner(a)}]
    /\ others' = [others EXCEPT ![r] = 0]
    /\ to(r, "owners")
    /\ UNCHANGED <<in, cur, accounts, limiter>>

\* Mutant: the owners are counted and not locked.
lockRowNot(r, a) == UNCHANGED lock

\* FOR UPDATE
lockRow(r, a) ==
    /\ lock[a] = 0
    /\ lock' = [lock EXCEPT ![a] = r]

\* ... locked one by one, in the order of the scan, and checked again once the
\* lock is granted.
lockOwner(r, a) ==
    /\ at(r, "owners")
    /\ a \in todo[r]
    /\ lockRow(r, a)
    /\ todo' = [todo EXCEPT ![r] = @ \ {a}]
    /\ others' = [others EXCEPT ![r] = @ + (IF activeOwner(a) THEN 1 ELSE 0)]
    /\ UNCHANGED <<in, pc, cur, staff, sessions, lost, limiter>>

counted(r) ==
    /\ at(r, "owners")
    /\ todo[r] = {}

\* last_owner: rolled back.
lastOwner(r) ==
    /\ counted(r) /\ others[r] = 0
    /\ lock' = unlocked(r)
    /\ to(r, "done")
    /\ UNCHANGED <<local, cur, staff, sessions, lost, limiter>>

enoughOwners(r) ==
    /\ counted(r) /\ others[r] > 0
    /\ to(r, "write")
    /\ UNCHANGED <<local, cur, accounts, limiter>>

\* Mutant: a new password leaves the sessions open.
endsSessionsOfInactive(r) == ~in[r].active

\* A new password or a deactivation.
endsSessions(r) == in[r].newPw \/ ~in[r].active

\* UPDATE staff ... COMMIT, with the hash read under the lock unless a new one
\* was given.
Update(r) ==
    LET a == target(r) IN
    /\ at(r, "write")
    /\ lock[a] \in {0, r}
    /\ staff' = [staff EXCEPT ![a].role = in[r].role, ![a].active = in[r].active,
                              ![a].pw = IF in[r].newPw THEN r ELSE cur[r].row.pw]
    /\ lock' = unlocked(r)
    /\ to(r, IF endsSessions(r) THEN "revoke" ELSE "done")
    /\ UNCHANGED <<local, cur, sessions, lost, limiter>>

\* ResetPassword: SetPassword ...
SetPassword(r) ==
    LET a == target(r) IN
    /\ at(r, "set")
    /\ lock[a] = 0
    /\ IF exists(a) THEN staff' = [staff EXCEPT ![a].pw = r] /\ to(r, "revoke")
                    ELSE UNCHANGED staff /\ to(r, "done")
    /\ UNCHANGED <<local, cur, lock, sessions, lost, limiter>>

\* ... and, like UpdateStaff, a statement of its own that revokes.
revokeAllForStaff(r) ==
    /\ at(r, "revoke")
    /\ sessions' = revoked(ofAccount(target(r)))
    /\ to(r, "done")
    /\ UNCHANGED <<local, cur, staff, lock, lost, limiter>>

-----------------------------------------------------------------------------
\* A statement fails, a wait cycle is broken, the client goes away, the
\* process dies: open transactions are rolled back, the rest is not done.
fails(r) ==
    /\ ~over(r)
    /\ lock' = unlocked(r)
    /\ lost' = IF at(r, "revoke") THEN lost \cup {target(r)} ELSE lost
    /\ to(r, "done")
    /\ UNCHANGED <<local, cur, staff, sessions, limiter>>

\* loginAttemptWindow has passed: the next allow starts a new window.
windowEnds(k) ==
    /\ attempts[k] > 0
    /\ window[k] < MaxWindows
    /\ window' = [window EXCEPT ![k] = @ + 1]
    /\ attempts' = [attempts EXCEPT ![k] = 0]
    /\ ledger' = IF k \in Numbers THEN [ledger EXCEPT ![k] = [wrong |-> 0, right |-> 0]] ELSE ledger
    /\ UNCHANGED <<local, pc, cur, accounts, admitted>>

step(r) ==
    \/ refusedByIP(r) \/ refusedByPhone(r) \/ Login(r) \/ GetByPhone(r) \/ compare(r)
    \/ createSession(r) \/ Logout(r) \/ getActiveByHash(r) \/ RequireRole(r)
    \/ lookUp(r) \/ insertStaff(r) \/ resetOwner(r)
    \/ staffToggle(r) \/ lockStaff(r) \/ otherOwners(r) \/ (\E a \in Ids : lockOwner(r, a))
    \/ lastOwner(r) \/ enoughOwners(r) \/ Update(r)
    \/ SetPassword(r) \/ revokeAllForStaff(r) \/ fails(r)

Next == (\E r \in Req : step(r)) \/ sessionExpires \/ (\E k \in LimiterKeys : windowEnds(k))

Spec == Init /\ [][Next]_vars

-----------------------------------------------------------------------------
TypeOK ==
    /\ in \in [Req -> Asks]
    /\ staff \in [Ids -> Rows]
    /\ lock \in [Ids -> Req \cup {0}]
    /\ attempts[IP] \in 0..IPLimit
    /\ \A n \in Numbers : attempts[n] \in 0..PhoneLimit
    /\ \A s \in sessions : s.account \in Ids /\ exists(s.account)

\* Two owners who deactivate or demote each other at the same moment, or a
\* toggle of a row listed earlier, never leave the shop without an active owner
\* (Repo.Update).
ActiveOwnerRemains == \E a \in Ids : activeOwner(a)

\* A number belongs to one account, whatever its spelling and however many
\* requests create it at once: the lookup and the constraint cover for each
\* other (Repo.Create, EnsureOwner).
OneAccountPerNumber ==
    \A a, b \in Ids : exists(a) /\ exists(b) /\ staff[a].number = staff[b].number => a = b

\* The accounts stay usable whatever requests race: somebody can still manage
\* the shop, and a number logs in to one account.
AccountsSound == ActiveOwnerRemains /\ OneAccountPerNumber

\* An account's password changes only to the one the request at hand brings:
\* an edit or a toggle that read the row before a reset does not bring the old
\* one back (Repo.Update, which writes password_hash every time).
NewPasswordStays ==
    [][\A a \in Ids : staff'[a].pw # staff[a].pw =>
          \E r \in Req : staff'[a].pw = r /\ ~over(r) /\ pc'[r] # pc[r]]_vars

\* An open session was opened with the account's present password, except one
\* whose login overtook the change, while the revocation is under way and after
\* it failed (UpdateStaff, ResetPassword, EnsureOwner).
SessionsFollowPassword ==
    \A s \in live :
        \/ s.raced
        \/ s.pw = staff[s.account].pw
        \/ s.account \in lost
        \/ \E r \in Req : at(r, "revoke") /\ target(r) = s.account

\* Within a window a number is tried at most PhoneLimit times for each
\* successful login and PhoneLimit times more, however parallel the attempts
\* (loginRateLimiter and Login).
GuessesBounded ==
    \A n \in Numbers : ledger[n].wrong <= PhoneLimit * (1 + ledger[n].right)

=============================================================================
