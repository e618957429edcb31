------------------------------ MODULE OtpLogin ------------------------------
(***************************************************************************)
(* Login by SMS code: RequestOTP and VerifyOTP, statement by statement.    *)
(* Many requests for one phone, one code or one client address run at the  *)
(* same time; between two statements of a request any other may run, the   *)
(* SMS provider is called outside every transaction, and the process may   *)
(* restart, which loses the requests in flight and the in-memory counters. *)
(*                                                                         *)
(* The otp_codes row a RequestOTP inserts has its request's id, which also *)
(* stands for the code in the SMS.                                         *)
(*                                                                         *)
(* Sources: internal/auth/{service,otp_repo,limiter,review_guard,          *)
(* otp_cleanup,account_repo}.go.                                           *)
(***************************************************************************)
EXTENDS Naturals, Sequences, FiniteSets

CONSTANTS
    Req,                \* requests, numbered in the order they arrive
    Phones, IPs,
    ReviewPhone,        \* Settings.ReviewLogin.Phone
    ReviewCode,         \* Settings.ReviewLogin.Code, no request's id
    otpMaxPerHour,      \* rows per phone in an hour
    OTPPerIPPerHour,    \* rows per client address in an hour
    OTPPerDay,          \* rows in 24 hours
    OTPVerifyMaxAttempts,
    OTPVerifyFailsPerIPPerHour,
    reviewMaxFailures,
    Inputs              \* the requests clients may send

ASSUME ReqAssumption ==
    /\ Req \subseteq Nat \ {0} /\ IsFiniteSet(Req)
    /\ ReviewCode \in Nat \ Req
    /\ Inputs \subseteq [kind : {"request"}, phone : Phones, ip : IPs]
                         \cup [kind : {"verify"}, phone : Phones, ip : IPs, guess : Nat]
ASSUME LimitAssumption ==
    /\ otpMaxPerHour \in Nat \ {0} /\ OTPPerIPPerHour \in Nat \ {0} /\ OTPPerDay \in Nat \ {0}
    /\ OTPVerifyMaxAttempts \in Nat \ {0} /\ OTPVerifyFailsPerIPPerHour \in Nat \ {0}
    /\ reviewMaxFailures \in Nat \ {0}

VARIABLES
    job,        \* what a request asks for and where it is
    rows,       \* otp_codes
    log,        \* ids of the rows in the order of created_at, deleted ones too
    ipFails,    \* verifyFails: wrong codes per client address in this window
    failures,   \* reviewGuard.failures
    tripped,    \* reviewGuard.tripped
    sends,      \* rows whose SMS was handed to the provider (ghost)
    checks,     \* comparisons made against a code (ghost)
    logins,     \* token pairs issued for a code (ghost)
    wiped       \* phones whose rows an account deletion removed (ghost)

vars == <<job, rows, log, ipFails, failures, tripped, sends, checks, logins, wiped>>

\* How long ago a row was created: within the resend cooldown, within
\* otpTTL, within the hour, within the day, longer.
Cooling == 0
Valid == 1
ThisHour == 2
Today == 3
Old == 4

NoRow == [phone |-> "none", ip |-> "none", token |-> "", consumed |-> FALSE, tries |-> 0,
          age |-> Old, gone |-> TRUE]

Init ==
    /\ job = [q \in Req |-> [at |-> "idle"]]
    /\ rows = [q \in Req |-> NoRow]
    /\ log = <<>>
    /\ ipFails = [i \in IPs |-> 0]
    /\ failures = 0
    /\ tripped = FALSE
    /\ sends = {}
    /\ checks = [c \in Req |-> 0]
    /\ logins = [c \in Req |-> 0]
    /\ wiped = {}

\* The request takes the step that brings it to `where`; nothing is left of
\* one that has been answered or lost.
to(q, where) ==
    job' = [job EXCEPT ![q] = IF where = "ended" THEN [at |-> "ended"] ELSE [@ EXCEPT !.at = where]]

arrives(q) == job[q].at = "idle" /\ \A t \in Req : t < q => job[t].at # "idle"

at(q) == job[q].at

Existing == {c \in Req : ~rows[c].gone}

-----------------------------------------------------------------------------
(* RequestOTP.                                                              *)

\* Mutant: the checks run without the per-phone lock.
phoneLockFreeAssumed(q, p) == TRUE

\* pg_advisory_xact_lock on the phone, held until reserve commits.
phoneLockFree(q, p) == \A t \in Req \ {q} : ~(at(t) = "reserving" /\ job[t].phone = p)

recent(S, age) == Cardinality({c \in S : rows[c].age <= age})

\* reserve's counts of the committed rows.
withinSendLimits(p, i) ==
    LET same == {c \in Existing : rows[c].phone = p} IN
    /\ \A c \in same : rows[c].age # Cooling
    /\ recent(same, ThisHour) < otpMaxPerHour
    /\ recent({c \in Existing : rows[c].ip = i}, ThisHour) < OTPPerIPPerHour
    /\ recent(Existing, Today) < OTPPerDay

reserve(q, in) ==
    /\ arrives(q)
    /\ in.kind = "request"
    /\ phoneLockFree(q, in.phone)
    /\ job' = [job EXCEPT ![q] = IF withinSendLimits(in.phone, in.ip)
                                 THEN [at |-> "reserving", phone |-> in.phone, ip |-> in.ip]
                                 ELSE [at |-> "ended"]]
    /\ UNCHANGED <<rows, log, ipFails, failures, tripped, sends, checks, logins, wiped>>

\* INSERT INTO otp_codes with an empty token, and the commit.
insertRow(q) ==
    /\ at(q) = "reserving"
    /\ rows' = [rows EXCEPT ![q] = [phone |-> job[q].phone, ip |-> job[q].ip, token |-> "",
                                    consumed |-> FALSE, tries |-> 0, age |-> Cooling, gone |-> FALSE]]
    /\ log' = Append(log, q)
    /\ to(q, "reserved")
    /\ UNCHANGED <<ipFails, failures, tripped, sends, checks, logins, wiped>>

\* The provider is asked to text a code, which may fail; the store-review
\* phone gets no SMS while its shortcut is enabled.
SendCode(q) ==
    /\ at(q) = "reserved"
    /\ IF job[q].phone = ReviewPhone /\ ~tripped
       THEN to(q, "marking") /\ UNCHANGED sends
       ELSE /\ to(q, "sent") \/ to(q, "unsent")
            /\ sends' = sends \cup {q}
    /\ UNCHANGED <<rows, log, ipFails, failures, tripped, checks, logins, wiped>>

setToken(q) ==
    /\ at(q) \in {"marking", "sent"}
    /\ rows' = [rows EXCEPT ![q].token = IF at(q) = "marking" THEN "review" ELSE "sms"]
    /\ to(q, "ended")
    /\ UNCHANGED <<log, ipFails, failures, tripped, sends, checks, logins, wiped>>


\* UPDATE otp_codes SET consumed_at: unusable, but still counted.
burned(c) == [rows EXCEPT ![c].consumed = TRUE]

burn(q) ==
    /\ at(q) \in {"unsent", "spent"}
    /\ rows' = burned(IF at(q) = "unsent" THEN q ELSE job[q].code)
    /\ to(q, "ended")
    /\ UNCHANGED <<log, ipFails, failures, tripped, sends, checks, logins, wiped>>

-----------------------------------------------------------------------------
(* VerifyOTP.                                                               *)

active(p) ==
    {c \in Existing : rows[c].phone = p /\ ~rows[c].consumed /\ rows[c].age <= Valid /\ rows[c].token # ""}

position(c) == CHOOSE i \in DOMAIN log : log[i] = c

\* ORDER BY created_at DESC LIMIT 1
latest(S) == CHOOSE c \in S : \A d \in S : position(d) <= position(c)

\* blocked(ip), then latestActive.
latestActive(q, in) ==
    /\ arrives(q)
    /\ in.kind = "verify"
    /\ job' = [job EXCEPT ![q] =
            IF ipFails[in.ip] < OTPVerifyFailsPerIPPerHour /\ active(in.phone) # {}
            THEN [at |-> "found", phone |-> in.phone, ip |-> in.ip, guess |-> in.guess,
                  code |-> latest(active(in.phone)),
                  token |-> rows[latest(active(in.phone))].token, attempt |-> 0]
            ELSE [at |-> "ended"]]
    /\ UNCHANGED <<rows, log, ipFails, failures, tripped, sends, checks, logins, wiped>>

\* UPDATE ... WHERE consumed_at IS NULL AND verify_attempts < max
attemptLeft(c) ==
    ~rows[c].gone /\ ~rows[c].consumed /\ rows[c].tries < OTPVerifyMaxAttempts

takeAttempt(q) ==
    /\ at(q) = "found"
    /\ LET c == job[q].code IN
        IF attemptLeft(c)
        THEN /\ rows' = [rows EXCEPT ![c].tries = @ + 1]
             /\ job' = [job EXCEPT ![q].at = "trying", ![q].attempt = rows[c].tries + 1]
        ELSE to(q, "ended") /\ UNCHANGED rows
    /\ UNCHANGED <<log, ipFails, failures, tripped, sends, checks, logins, wiped>>

\* A wrong code: hit(ip), and the last attempt burns the row.
wrong(q) ==
    /\ ipFails' = [ipFails EXCEPT ![job[q].ip] = @ + 1]
    /\ to(q, IF job[q].attempt >= OTPVerifyMaxAttempts THEN "spent" ELSE "ended")

\* Mutant: the review code is compared although the guard has tripped.
guardOpenAlways == TRUE

guardOpen == ~tripped

\* reviewGuard.check: compare and count, under the mutex.
check(q) ==
    IF guardOpen /\ job[q].guess = ReviewCode
    THEN to(q, "right") /\ UNCHANGED <<ipFails, failures, tripped>>
    ELSE /\ wrong(q)
         /\ failures' = IF tripped THEN failures ELSE failures + 1
         /\ tripped' = (tripped \/ failures + 1 >= reviewMaxFailures)

\* A provider outage is the request's answer; the attempt stays spent.
outage(q) == to(q, "ended")

\* The provider's answer: yes for the code it sent, no for another or an
\* expired one, or no answer at all (not counted as a wrong code).
providerVerify(q) ==
    /\ \/ job[q].guess = job[q].code /\ to(q, "right") /\ UNCHANGED ipFails
       \/ (job[q].guess # job[q].code \/ rows[job[q].code].age > Valid) /\ wrong(q)
       \/ outage(q) /\ UNCHANGED ipFails
    /\ UNCHANGED <<failures, tripped>>

verifyCode(q) ==
    /\ at(q) = "trying"
    /\ IF job[q].phone = ReviewPhone /\ job[q].token = "review"
       THEN check(q) ELSE providerVerify(q)
    /\ checks' = [checks EXCEPT ![job[q].code] = @ + 1]
    /\ UNCHANGED <<rows, log, sends, logins, wiped>>

\* Mutant: the code is marked used whoever used it before.
unconsumedAssumed(c) == TRUE

unconsumed(c) == ~rows[c].gone /\ ~rows[c].consumed

consume(q) ==
    /\ at(q) = "right"
    /\ IF unconsumed(job[q].code)
       THEN to(q, "verified") /\ rows' = [rows EXCEPT ![job[q].code].consumed = TRUE]
       ELSE to(q, "ended") /\ UNCHANGED rows
    /\ UNCHANGED <<log, ipFails, failures, tripped, sends, checks, logins, wiped>>

\* GetOrCreateByPhone and issueTokenPair.
issueTokenPair(q) ==
    /\ at(q) = "verified"
    /\ logins' = [logins EXCEPT ![job[q].code] = @ + 1]
    /\ to(q, "ended")
    /\ UNCHANGED <<rows, log, ipFails, failures, tripped, sends, checks, wiped>>

-----------------------------------------------------------------------------
(* Time, restarts, and the deletions of rows.                               *)

Finished == {"idle", "ended"}

\* Rows grow older in the order they were created.
Elapse(c) ==
    /\ ~rows[c].gone /\ rows[c].age < Old
    /\ \A d \in Existing : position(d) < position(c) => rows[d].age > rows[c].age
    /\ rows' = [rows EXCEPT ![c].age = @ + 1]
    /\ UNCHANGED <<job, log, ipFails, failures, tripped, sends, checks, logins, wiped>>

\* current: the client address's window is over.
windowEnds(i) ==
    /\ ipFails[i] > 0
    /\ ipFails' = [ipFails EXCEPT ![i] = 0]
    /\ UNCHANGED <<job, rows, log, failures, tripped, sends, checks, logins, wiped>>

\* A statement fails, or the client goes away.
fail(q) ==
    /\ at(q) \notin Finished
    /\ to(q, "ended")
    /\ UNCHANGED <<rows, log, ipFails, failures, tripped, sends, checks, logins, wiped>>

Restart ==
    /\ \E q \in Req : at(q) \notin Finished
    /\ job' = [q \in Req |-> IF at(q) \in Finished THEN job[q] ELSE [at |-> "ended"]]
    /\ ipFails' = [i \in IPs |-> 0]
    /\ failures' = 0
    /\ tripped' = FALSE
    /\ UNCHANGED <<rows, log, sends, checks, logins, wiped>>

\* DELETE FROM otp_codes.  SendsCapped still asks whose a row was and how old,
\* unless its phone is wiped.
remove(S, left) == rows' = [c \in Req |-> IF c \in S THEN left[c] ELSE rows[c]]

\* created_at < $1
staleRows == {c \in Existing : rows[c].age = Old}

deleteOTPCodesBefore ==
    /\ staleRows # {}
    /\ remove(staleRows, [c \in Req |-> [NoRow EXCEPT !.phone = rows[c].phone, !.age = rows[c].age]])
    /\ UNCHANGED <<job, log, ipFails, failures, tripped, sends, checks, logins, wiped>>

\* deleteCustomer: DELETE FROM otp_codes WHERE phone = ...
deleteCustomer(p) ==
    /\ \E c \in Existing : rows[c].phone = p
    /\ remove({c \in Existing : rows[c].phone = p}, [c \in Req |-> NoRow])
    /\ wiped' = wiped \cup {p}
    /\ UNCHANGED <<job, log, ipFails, failures, tripped, sends, checks, logins>>

Next ==
    \/ \E q \in Req :
        \/ \E in \in Inputs : reserve(q, in) \/ latestActive(q, in)
        \/ insertRow(q) \/ SendCode(q) \/ setToken(q) \/ burn(q)
        \/ takeAttempt(q) \/ verifyCode(q) \/ consume(q) \/ issueTokenPair(q)
        \/ Elapse(q) \/ fail(q)
    \/ \E i \in IPs : windowEnds(i)
    \/ Restart
    \/ deleteOTPCodesBefore
    \/ \E p \in Phones : deleteCustomer(p)

Spec == Init /\ [][Next]_vars

-----------------------------------------------------------------------------
(* Properties.                                                              *)

\* However many verifications run in parallel, a code is compared at most
\* OTPVerifyMaxAttempts times and logs in once (takeAttempt spends before the
\* provider call, consume).
CodesSpentOnce == \A c \in Req : checks[c] <= OTPVerifyMaxAttempts /\ logins[c] <= 1

\* Parallel requests for one phone hand the provider one SMS per cooldown
\* and otpMaxPerHour an hour, failed sends included (reserve, burn); only
\* an account deletion forgets what was sent.
SendsCapped ==
    \A p \in Phones \ wiped :
        LET mine == {c \in sends : rows[c].phone = p} IN
        recent(mine, Cooling) <= 1 /\ recent(mine, ThisHour) <= otpMaxPerHour

\* Once the guard has tripped no review row logs in until a restart, also
\* one marked before or while it tripped.
ReviewStaysLocked ==
    [][\A q \in Req :
        at(q) = "trying" /\ job'[q].at = "right" /\ job[q].token = "review" => ~tripped]_vars
=============================================================================
