---------------------------- MODULE SignInProofs ----------------------------
(***************************************************************************)
(* Proofs about how customers sign in and stay signed in, for any number   *)
(* of requests, phones and limits.  OtpLogin: a code is compared a bounded *)
(* number of times and logs in once, the caps on messages hold, and a      *)
(* tripped review guard stays shut.  RefreshTokens, from there on: the     *)
(* second part.                                                            *)
(*                                                                         *)
(* The inductive invariant of OtpLogin says what a request may still rely  *)
(* on between its statements: the attempts that are out are paid for in    *)
(* the row (Attempts), whoever got past consume left the row used          *)
(* (Spending), the counts reserve made are still true when its row is      *)
(* inserted (Reserving).                                                   *)
(***************************************************************************)
EXTENDS OtpLogin, RefreshTokens, FiniteLemmas

SendPlaces == {"reserving", "reserved", "sent", "unsent", "marking"}
VerifyPlaces == {"found", "trying", "spent", "right", "verified"}
Tokens == {"", "sms", "review"}

NoJobs == [at : {"idle", "ended"}]
SendJobs == [at : SendPlaces, phone : Phones, ip : IPs]
VerifyJobs == [at : VerifyPlaces, phone : Phones, ip : IPs, guess : Nat, code : Req,
               token : Tokens, attempt : Nat]
Jobs == NoJobs \cup SendJobs \cup VerifyJobs

Rows == [phone : Phones \cup {"none"}, ip : IPs \cup {"none"}, token : Tokens,
         consumed : BOOLEAN, tries : Nat, age : 0..4, gone : BOOLEAN]

Types ==
    /\ job \in [Req -> Jobs]
    /\ rows \in [Req -> Rows]
    /\ log \in Seq(Req)
    /\ checks \in [Req -> Nat] /\ logins \in [Req -> Nat]
    /\ sends \subseteq Req

Verifies(q) == at(q) \in VerifyPlaces

\* The request has inserted its row, or never will.
Issued(c) == at(c) \notin {"idle", "reserving"}

\* Codes that are stored, tried or used were issued.
Known ==
    /\ \A c \in Req : ~rows[c].gone => Issued(c) /\ \E i \in DOMAIN log : log[i] = c
    /\ \A q \in Req : Verifies(q) => Issued(job[q].code)
    /\ \A c \in Req : checks[c] > 0 \/ logins[c] > 0 => Issued(c)

Trying(c) == {q \in Req : at(q) = "trying" /\ job[q].code = c}

\* Attempts that are out or over are counted in the row, while there is one.
Attempts ==
    \A c \in Req :
        /\ checks[c] + Cardinality(Trying(c)) <= OTPVerifyMaxAttempts
        /\ ~rows[c].gone => checks[c] + Cardinality(Trying(c)) <= rows[c].tries
                            /\ rows[c].tries <= OTPVerifyMaxAttempts

Passed(q, c) == at(q) = "verified" /\ job[q].code = c

\* One request at most gets past consume, and leaves the row used.
Spending ==
    \A c \in Req :
        /\ logins[c] <= 1
        /\ \A q, r \in Req : Passed(q, c) /\ Passed(r, c) => q = r
        /\ \A q \in Req : Passed(q, c) => logins[c] = 0
        /\ (\E q \in Req : Passed(q, c)) \/ logins[c] > 0 => rows[c].gone \/ rows[c].consumed

\* The rows of a phone that are not older than a.
Recent(p, a) == {c \in Req : ~rows[c].gone /\ rows[c].phone = p /\ rows[c].age <= a}

\* One reservation a phone, and there is room for its row.
Reserving ==
    \A q \in Req : at(q) = "reserving" =>
        /\ \A t \in Req : at(t) = "reserving" /\ job[t].phone = job[q].phone => t = q
        /\ Recent(job[q].phone, Cooling) = {}
        /\ Cardinality(Recent(job[q].phone, ThisHour)) < otpMaxPerHour

Capped ==
    \A p \in Phones :
        /\ Cardinality(Recent(p, Cooling)) <= 1
        /\ Cardinality(Recent(p, ThisHour)) <= otpMaxPerHour

\* Rows that count are deleted with the account only.
Remembered == \A c \in Req : rows[c].gone /\ rows[c].phone \notin wiped => rows[c].age = Old

\* Review rows are the review phone's.
ReviewRows ==
    /\ \A c \in Req : ~rows[c].gone /\ rows[c].token = "review" => rows[c].phone = ReviewPhone
    /\ \A q \in Req : at(q) = "marking" => job[q].phone = ReviewPhone
    /\ \A q \in Req : at(q) \in SendPlaces /\ ~rows[q].gone => rows[q].phone = job[q].phone
    /\ \A q \in Req : Verifies(q) /\ job[q].token = "review" => job[q].phone = ReviewPhone

IInv == Types /\ Known /\ Attempts /\ Spending /\ Reserving /\ Capped /\ Remembered /\ ReviewRows

-----------------------------------------------------------------------------
(***************************************************************************)
(* What the shape of a job says about its fields.                          *)
(***************************************************************************)
LEMMA JobKinds ==
    ASSUME Types, NEW q \in Req
    PROVE  /\ at(q) \in {"idle", "ended"} \cup SendPlaces \cup VerifyPlaces
           /\ at(q) \in SendPlaces => job[q] \in SendJobs
           /\ at(q) \in VerifyPlaces => job[q] \in VerifyJobs
BY DEF Types, Jobs, NoJobs, SendJobs, VerifyJobs, SendPlaces, VerifyPlaces, at

\* A step of one request that ends it.
LEMMA Ends ==
    ASSUME Types, NEW q \in Req, to(q, "ended")
    PROVE  /\ job' \in [Req -> Jobs] /\ job'[q].at = "ended"
           /\ \A t \in Req : t # q => job'[t] = job[t]
BY DEF Types, to, Jobs, NoJobs

\* A step that brings it to another place and leaves the rest of it alone.
LEMMA Moves ==
    ASSUME Types, NEW q \in Req, NEW w, to(q, w),
           \/ w \in SendPlaces /\ at(q) \in SendPlaces
           \/ w \in VerifyPlaces /\ at(q) \in VerifyPlaces
    PROVE  /\ job' \in [Req -> Jobs] /\ job'[q].at = w
           /\ \A t \in Req : t # q => job'[t] = job[t]
           /\ job'[q].phone = job[q].phone
           /\ w \in VerifyPlaces => job'[q].code = job[q].code /\ job'[q].token = job[q].token
<1> DEFINE new == [job[q] EXCEPT !.at = w]
<1>1. w # "ended"
  BY DEF SendPlaces, VerifyPlaces
<1>2. job' = [job EXCEPT ![q] = new]
  BY <1>1 DEF to
<1>3. CASE w \in SendPlaces /\ at(q) \in SendPlaces
  <2>1. job[q] \in SendJobs
    BY <1>3, JobKinds
  <2>2. new \in SendJobs /\ new.at = w /\ new.phone = job[q].phone
    BY <1>3, <2>1 DEF SendJobs
  <2>3. w \notin VerifyPlaces
    BY <1>3 DEF SendPlaces, VerifyPlaces
  <2> HIDE DEF new
  <2> QED BY <1>2, <2>2, <2>3 DEF Types, Jobs
<1>4. CASE w \in VerifyPlaces /\ at(q) \in VerifyPlaces
  <2>1. job[q] \in VerifyJobs
    BY <1>4, JobKinds
  <2>2. new \in VerifyJobs /\ new.at = w /\ new.phone = job[q].phone
        /\ new.code = job[q].code /\ new.token = job[q].token
    BY <1>4, <2>1 DEF VerifyJobs
  <2> HIDE DEF new
  <2> QED BY <1>2, <2>2 DEF Types, Jobs
<1> QED BY <1>3, <1>4

LEMMA RowFields ==
    ASSUME NEW r \in Rows
    PROVE  /\ r.age \in 0..4 /\ r.tries \in Nat /\ r.gone \in BOOLEAN /\ r.consumed \in BOOLEAN
           /\ r.phone \in Phones \cup {"none"} /\ r.token \in Tokens
BY DEF Rows

LEMMA RowTypes ==
    ASSUME Types, NEW c \in Req
    PROVE  /\ rows[c] \in Rows /\ rows[c].age \in 0..4 /\ rows[c].tries \in Nat
           /\ rows[c].age \in Int /\ checks[c] \in Nat /\ logins[c] \in Nat
<1>1. rows[c] \in Rows /\ checks[c] \in Nat /\ logins[c] \in Nat
  BY DEF Types
<1>2. rows[c].age \in 0..4 /\ rows[c].tries \in Nat
  BY <1>1, RowFields
<1> QED BY <1>1, <1>2

LEMMA RecentFinite ==
    ASSUME NEW p, NEW a
    PROVE  IsFiniteSet(Recent(p, a)) /\ Cardinality(Recent(p, a)) \in Nat
<1>1. Recent(p, a) \in SUBSET Req
  BY DEF Recent
<1> QED BY <1>1, ReqAssumption, FS_Subset, FS_CardinalityType

LEMMA TryingFinite ==
    ASSUME NEW c
    PROVE  IsFiniteSet(Trying(c)) /\ Cardinality(Trying(c)) \in Nat
<1>1. Trying(c) \in SUBSET Req
  BY DEF Trying
<1> QED BY <1>1, ReqAssumption, FS_Subset, FS_CardinalityType

-----------------------------------------------------------------------------
LEMMA Initial == Init => IInv
<1> SUFFICES ASSUME Init PROVE IInv
    OBVIOUS
<1> USE DEF Init, at
<1>1. Types
  <2>1. [at |-> "idle"] \in Jobs
    BY DEF Jobs, NoJobs
  <2>2. NoRow \in Rows
    <3>1. Old \in 0..4
      BY DEF Old
    <3>2. "" \in Tokens
      BY DEF Tokens
    <3> QED BY <3>1, <3>2 DEF Rows, NoRow
  <2> QED BY <2>1, <2>2 DEF Types
<1>2. Known
  <2>1. NoRow.gone /\ \A q \in Req : ~Verifies(q)
    BY DEF NoRow, Verifies, VerifyPlaces
  <2> QED BY <2>1 DEF Known
<1>3. Attempts
  <2>1. \A c \in Req : Trying(c) = {} /\ checks[c] = 0 /\ rows[c].gone
    BY DEF Trying, NoRow
  <2>2. Cardinality({}) = 0 /\ OTPVerifyMaxAttempts \in Nat
    BY FS_EmptySet, LimitAssumption
  <2> HIDE DEF Init
  <2> QED BY <2>1, <2>2 DEF Attempts
<1>4. Spending
  BY DEF Spending, Passed
<1>5. Reserving
  BY DEF Reserving
<1>6. Capped
  <2>1. \A p \in Phones : Recent(p, Cooling) = {} /\ Recent(p, ThisHour) = {}
    BY DEF Recent, NoRow
  <2>2. Cardinality({}) = 0 /\ otpMaxPerHour \in Nat
    BY FS_EmptySet, LimitAssumption
  <2> HIDE DEF Init
  <2> QED BY <2>1, <2>2 DEF Capped
<1>7. Remembered
  BY DEF Remembered, NoRow
<1>8. ReviewRows
  BY DEF ReviewRows, NoRow, Verifies, VerifyPlaces, SendPlaces
<1> QED BY <1>1, <1>2, <1>3, <1>4, <1>5, <1>6, <1>7, <1>8 DEF IInv

-----------------------------------------------------------------------------
(***************************************************************************)
(* Steps that reserve nothing: what they owe is Attempts and Spending.     *)
(***************************************************************************)
LEMMA ReservesNothing ==
    ASSUME IInv, Types',
           \A q \in Req : Issued(q) => Issued(q)',
           \A q \in Req : job'[q].at = "reserving" => job'[q] = job[q],
           \A q \in Req : Verifies(q)' => Issued(job'[q].code),
           \A c \in Req : checks'[c] > 0 \/ logins'[c] > 0 => Issued(c),
           \A c \in Req : ~rows'[c].gone =>
               ~rows[c].gone /\ rows'[c].phone = rows[c].phone /\ rows'[c].age >= rows[c].age,
           UNCHANGED log, Attempts', Spending', Remembered', ReviewRows'
    PROVE  IInv'
<1> USE DEF IInv
<1>1. Known'
  <2>1. \A q \in Req : Verifies(q)' => job'[q].code \in Req
    <3> SUFFICES ASSUME NEW q \in Req, Verifies(q)' PROVE job'[q].code \in Req
      OBVIOUS
    <3>1. job'[q] \in VerifyJobs
      BY DEF Types, Jobs, NoJobs, SendJobs, VerifyJobs, SendPlaces, VerifyPlaces, at, Verifies
    <3> QED BY <3>1 DEF VerifyJobs
  <2> QED BY <2>1 DEF Known
<1>4. \A p, a : a \in 0..4 => Cardinality(Recent(p, a)') <= Cardinality(Recent(p, a))
                  /\ Cardinality(Recent(p, a)') \in Nat /\ Recent(p, a)' \in SUBSET Recent(p, a)
  <2> SUFFICES ASSUME NEW p, NEW a, a \in 0..4
               PROVE  Cardinality(Recent(p, a)') <= Cardinality(Recent(p, a))
                      /\ Cardinality(Recent(p, a)') \in Nat /\ Recent(p, a)' \in SUBSET Recent(p, a)
    OBVIOUS
  <2>1. \A c \in Req : rows'[c].age \in Int /\ rows[c].age \in Int
    <3>1. \A c \in Req : rows[c] \in Rows /\ rows'[c] \in Rows
      BY DEF Types
    <3> QED BY <3>1, RowFields
  <2>2. Recent(p, a)' \in SUBSET Recent(p, a)
    BY <2>1 DEF Recent
  <2> QED BY <2>2, RecentFinite, FS_Subset, FS_CardinalityType
<1>5. Reserving'
  <2> SUFFICES ASSUME NEW q \in Req, job'[q].at = "reserving"
               PROVE  /\ \A t \in Req : job'[t].at = "reserving" /\ job'[t].phone = job'[q].phone => t = q
                      /\ Recent(job[q].phone, Cooling)' = {}
                      /\ Cardinality(Recent(job[q].phone, ThisHour)') < otpMaxPerHour
    BY DEF Reserving, at
  <2>1. job'[q] = job[q] /\ at(q) = "reserving"
    BY DEF at
  <2>2. /\ \A t \in Req : at(t) = "reserving" /\ job[t].phone = job[q].phone => t = q
        /\ Recent(job[q].phone, Cooling) = {}
        /\ Cardinality(Recent(job[q].phone, ThisHour)) < otpMaxPerHour
    BY <2>1 DEF Reserving
  <2>3. \A t \in Req : job'[t].at = "reserving" => job'[t] = job[t]
    OBVIOUS
  <2>4. Cooling \in 0..4 /\ ThisHour \in 0..4
    BY DEF Cooling, ThisHour
  <2> DEFINE p == job[q].phone
  <2>5. ASSUME NEW n, n = p
        PROVE  Recent(n, Cooling)' = {} /\ Cardinality(Recent(n, ThisHour)') < otpMaxPerHour
    <3>1. Recent(n, Cooling)' \in SUBSET Recent(n, Cooling)
          /\ Cardinality(Recent(n, ThisHour)') <= Cardinality(Recent(n, ThisHour))
          /\ Cardinality(Recent(n, ThisHour)') \in Nat
      BY <2>4, <1>4
    <3> QED BY <3>1, <2>2, <2>5, RecentFinite, LimitAssumption
  <2>6. PICK n : n = p
    OBVIOUS
  <2>7. job'[q].phone = n
    BY <2>1, <2>6
  <2>8. Recent(job[q].phone, Cooling)' = Recent(n, Cooling)' /\ Recent(job[q].phone, ThisHour)' = Recent(n, ThisHour)'
    BY <2>7 DEF Recent
  <2> QED BY <2>1, <2>2, <2>3, <2>5, <2>6, <2>8 DEF at
<1>6. Capped'
  <2>1. Cooling \in 0..4 /\ ThisHour \in 0..4
    BY DEF Cooling, ThisHour
  <2> QED BY <2>1, <1>4, RecentFinite, LimitAssumption DEF Capped
<1> QED BY <1>1, <1>5, <1>6

\* Steps that take no attempt and use no code either.
LEMMA Ordinary ==
    ASSUME IInv, Types',
           \A q \in Req : Issued(q) => Issued(q)',
           \A q \in Req : job'[q].at \in {"reserving", "trying", "verified"} => job'[q] = job[q],
           \A q \in Req : Verifies(q)' => Issued(job'[q].code),
           \A c \in Req : ~rows'[c].gone =>
               /\ ~rows[c].gone /\ rows'[c].phone = rows[c].phone /\ rows'[c].tries = rows[c].tries
               /\ rows'[c].age >= rows[c].age,
           \A c \in Req : rows[c].gone \/ rows[c].consumed => rows'[c].gone \/ rows'[c].consumed,
           UNCHANGED <<log, checks, logins>>, Remembered', ReviewRows'
    PROVE  IInv'
<1> USE DEF IInv
<1>1. Attempts'
  <2> SUFFICES ASSUME NEW c \in Req
               PROVE  /\ checks[c] + Cardinality(Trying(c)') <= OTPVerifyMaxAttempts
                      /\ ~rows'[c].gone => checks[c] + Cardinality(Trying(c)') <= rows[c].tries
                                           /\ rows[c].tries <= OTPVerifyMaxAttempts
                                           /\ ~rows[c].gone /\ rows'[c].tries = rows[c].tries
    BY DEF Attempts
  <2>1. Trying(c)' \in SUBSET Trying(c)
    BY DEF Trying, at
  <2>2. Cardinality(Trying(c)') <= Cardinality(Trying(c)) /\ Cardinality(Trying(c)') \in Nat
    BY <2>1, TryingFinite, FS_Subset, FS_CardinalityType
  <2>3. checks[c] \in Nat /\ rows[c].tries \in Nat /\ OTPVerifyMaxAttempts \in Nat
    BY LimitAssumption DEF Types, Rows
  <2> QED BY <2>2, <2>3, TryingFinite DEF Attempts
<1>2. Spending'
  BY DEF Spending, Passed, at
<1>3. \A c \in Req : checks'[c] > 0 \/ logins'[c] > 0 => Issued(c)
  BY DEF Known
<1> HIDE DEF IInv
<1> QED BY <1>1, <1>2, <1>3, ReservesNothing

\* Nothing but jobs changes, and each is left alone, ended, or moved on by a
\* step that the caller describes.
LEMMA JobsOnly ==
    ASSUME IInv, job' \in [Req -> Jobs], NEW q \in Req,
           \A t \in Req : t # q => job'[t] = job[t] \/ job'[t].at = "ended",
           job'[q].at \notin {"idle", "reserving", "trying", "verified"},
           job'[q].at = "marking" => job'[q].phone = ReviewPhone,
           job'[q].at \in SendPlaces => at(q) \in SendPlaces /\ job'[q].phone = job[q].phone,
           job'[q].at \in VerifyPlaces => Issued(job'[q].code)
               /\ (job'[q].token = "review" => job'[q].phone = ReviewPhone),
           sends' \subseteq Req, UNCHANGED <<rows, log, checks, logins, wiped>>
    PROVE  IInv'
<1> USE DEF IInv
<1>0. "ended" \notin SendPlaces /\ "ended" \notin VerifyPlaces
  BY DEF SendPlaces, VerifyPlaces
<1>1. Types'
  BY DEF Types
<1>2. \A t \in Req : Issued(t) => Issued(t)'
  BY DEF Issued, at
<1>3. \A t \in Req : job'[t].at \in {"reserving", "trying", "verified"} => job'[t] = job[t]
  OBVIOUS
<1>4. \A t \in Req : Verifies(t)' => Issued(job'[t].code)
  BY <1>0 DEF Verifies, at, Known
<1>5. Remembered'
  BY DEF Remembered
<1>6. ReviewRows'
  BY <1>0 DEF ReviewRows, Verifies, at
<1>7. \A c \in Req : rows'[c].age >= rows[c].age
  <2>1. \A c \in Req : rows[c].age \in Int
    BY RowTypes
  <2> QED BY <2>1
<1> HIDE DEF IInv
<1> QED BY <1>1, <1>2, <1>3, <1>4, <1>5, <1>6, <1>7, Ordinary

\* ORDER BY created_at DESC LIMIT 1 finds a row if there is one.
LEMMA LatestIn ==
    ASSUME Types, Known, NEW S \in SUBSET Existing, S # {}
    PROVE  latest(S) \in S
<1> DEFINE f == [c \in S |-> position(c)]
<1>1. \A c \in S : c \in Req /\ ~rows[c].gone
  BY DEF Existing
<1>2. ASSUME NEW c \in S PROVE position(c) \in 0..Len(log)
  <2>1. \E i \in DOMAIN log : log[i] = c
    BY <1>1 DEF Known
  <2>2. position(c) \in DOMAIN log
    BY <2>1 DEF position
  <2> QED BY <2>2 DEF Types
<1>3. Len(log) \in Nat
  BY DEF Types
<1>4. \A c \in S : f[c] \in 0..Len(log)
  BY <1>2
<1>5. PICK m \in S : \A c \in S : f[c] <= f[m]
  <2> HIDE DEF f
  <2> QED BY <1>3, <1>4, FiniteMax
<1>6. \E m1 \in S : \A d \in S : position(d) <= position(m1)
  BY <1>5
<1> QED BY <1>6 DEF latest

-----------------------------------------------------------------------------
(***************************************************************************)
(* RequestOTP.                                                             *)
(***************************************************************************)
LEMMA InputKinds ==
    ASSUME NEW in \in Inputs
    PROVE  /\ in.kind \in {"request", "verify"} /\ in.phone \in Phones /\ in.ip \in IPs
           /\ in.kind = "verify" => in.guess \in Nat
<1>1. \/ in \in [kind : {"request"}, phone : Phones, ip : IPs]
      \/ in \in [kind : {"verify"}, phone : Phones, ip : IPs, guess : Nat]
  BY ReqAssumption
<1> QED BY <1>1

LEMMA ReservePreserves == ASSUME IInv, NEW q \in Req, NEW in \in Inputs, reserve(q, in) PROVE IInv'
<1> USE DEF IInv
<1>0. in.phone \in Phones /\ in.ip \in IPs
  BY InputKinds
<1>1. CASE ~withinSendLimits(in.phone, in.ip)
  <2>1. job' = [job EXCEPT ![q] = [at |-> "ended"]] /\ [at |-> "ended"] \in Jobs
    BY <1>1 DEF reserve, Jobs, NoJobs
  <2>2. job' \in [Req -> Jobs] /\ job'[q].at = "ended" /\ \A t \in Req : t # q => job'[t] = job[t]
    BY <2>1 DEF Types
  <2>3. UNCHANGED <<rows, log, checks, logins, wiped>> /\ sends' \subseteq Req
    BY DEF reserve, Types
  <2> HIDE DEF IInv
  <2> QED BY <2>2, <2>3, JobsOnly DEF SendPlaces, VerifyPlaces
<1>2. CASE withinSendLimits(in.phone, in.ip)
  <2> DEFINE p == in.phone
             new == [at |-> "reserving", phone |-> p, ip |-> in.ip]
  <2>1. job' = [job EXCEPT ![q] = new] /\ at(q) = "idle"
        /\ UNCHANGED <<rows, log, sends, checks, logins, wiped>>
    BY <1>2 DEF reserve, arrives, at
  <2>2. new \in Jobs
    BY <1>0 DEF Jobs, SendJobs, SendPlaces
  <2>3. /\ job' \in [Req -> Jobs] /\ job'[q].at = "reserving" /\ job'[q].phone = p
        /\ \A t \in Req : t # q => job'[t] = job[t]
    BY <2>1, <2>2 DEF Types
  <2> HIDE DEF new
  <2>4. Types'
    BY <2>1, <2>3 DEF Types
  <2>5. \A t \in Req : Issued(t) => t # q
    BY <2>1 DEF Issued
  <2>6. \A t \in Req : Verifies(t)' => Verifies(t) /\ t # q
    BY <2>3 DEF Verifies, VerifyPlaces, at
  <2>7. \A t \in Req : Issued(t) => Issued(t)'
    BY <2>3, <2>5 DEF Issued, at
  <2>8. Known'
    <3>1. \A t \in Req : Verifies(t) => job[t].code \in Req
      BY JobKinds DEF Verifies, VerifyJobs
    <3> QED BY <2>1, <2>3, <2>6, <2>7, <3>1 DEF Known
  <2>9. Attempts'
    <3>1. \A c \in Req : Trying(c)' = Trying(c)
      BY <2>1, <2>3 DEF Trying, at
    <3> QED BY <2>1, <3>1 DEF Attempts
  <2>10. Spending'
    BY <2>1, <2>3 DEF Spending, Passed, at
  <2>11. \A n, a : Recent(n, a)' = Recent(n, a)
    BY <2>1 DEF Recent
  <2>12. Recent(p, Cooling) = {} /\ Cardinality(Recent(p, ThisHour)) < otpMaxPerHour
    <3> DEFINE same == {c \in Existing : rows[c].phone = p}
    <3>1. (\A c \in same : rows[c].age # Cooling) /\ recent(same, ThisHour) < otpMaxPerHour
      BY <1>2 DEF withinSendLimits
    <3>2. {c \in same : rows[c].age <= ThisHour} = Recent(p, ThisHour)
      BY DEF Recent, Existing
    <3>3. \A c \in Req : rows[c].age \in 0..4
      BY RowTypes
    <3>4. Recent(p, Cooling) = {}
      BY <3>1, <3>3 DEF Recent, Existing, Cooling
    <3> QED BY <3>1, <3>2, <3>4 DEF recent
  <2>13. Reserving'
    <3>1. \A t \in Req \ {q} : ~(at(t) = "reserving" /\ job[t].phone = p)
      BY DEF reserve, phoneLockFree
    <3> SUFFICES ASSUME NEW t \in Req, job'[t].at = "reserving"
                 PROVE  /\ \A u \in Req : job'[u].at = "reserving" /\ job'[u].phone = job'[t].phone => u = t
                        /\ Recent(job[t].phone, Cooling)' = {}
                        /\ Cardinality(Recent(job[t].phone, ThisHour)') < otpMaxPerHour
      BY DEF Reserving, at
    <3>2. \A u \in Req : job'[u].at = "reserving" /\ job'[u].phone = job'[t].phone => u = t
      BY <2>3, <3>1 DEF Reserving, at
    <3>3. PICK n : n = job'[t].phone
      OBVIOUS
    <3>4. Recent(job[t].phone, Cooling)' = Recent(n, Cooling)' /\ Recent(job[t].phone, ThisHour)' = Recent(n, ThisHour)'
      BY <3>3 DEF Recent
    <3>5. Recent(n, Cooling) = {} /\ Cardinality(Recent(n, ThisHour)) < otpMaxPerHour
      BY <3>3, <2>3, <2>12 DEF Reserving, at
    <3> QED BY <3>2, <3>4, <3>5, <2>11
  <2>14. Capped'
    BY <2>11 DEF Capped
  <2>15. Remembered'
    BY <2>1 DEF Remembered
  <2>16. ReviewRows'
    <3>1. rows[q].gone
      BY <2>5 DEF Known
    <3> QED BY <2>1, <2>3, <2>6, <3>1 DEF ReviewRows, Verifies, at
  <2> QED BY <2>4, <2>8, <2>9, <2>10, <2>13, <2>14, <2>15, <2>16
<1> QED BY <1>1, <1>2

LEMMA InsertPreserves == ASSUME IInv, NEW q \in Req, insertRow(q) PROVE IInv'
<1> USE DEF IInv
<1> DEFINE p == job[q].phone
           new == [phone |-> job[q].phone, ip |-> job[q].ip, token |-> "",
                   consumed |-> FALSE, tries |-> 0, age |-> Cooling, gone |-> FALSE]
<1>1. /\ at(q) = "reserving" /\ to(q, "reserved") /\ rows' = [rows EXCEPT ![q] = new]
      /\ UNCHANGED <<sends, checks, logins, wiped>>
  BY DEF insertRow
<1>0. /\ log' \in Seq(Req) /\ \E i \in DOMAIN log' : log'[i] = q
      /\ \A i \in DOMAIN log : i \in DOMAIN log' /\ log'[i] = log[i]
  <2>1. log' = Append(log, q) /\ log \in Seq(Req)
    BY DEF insertRow, Types
  <2>2. log' \in Seq(Req) /\ Len(log') = Len(log) + 1 /\ log'[Len(log) + 1] = q
        /\ \A i \in 1..Len(log) : log'[i] = log[i]
    BY <2>1
  <2>3. DOMAIN log = 1..Len(log) /\ DOMAIN log' = 1..(Len(log) + 1) /\ Len(log) \in Nat
    BY <2>1, <2>2
  <2> QED BY <2>2, <2>3
<1>2. job[q] \in SendJobs
  BY <1>1, JobKinds DEF SendPlaces
<1>3. new \in Rows /\ p \in Phones
  <2>1. Cooling \in 0..4 /\ "" \in Tokens /\ job[q].phone \in Phones /\ job[q].ip \in IPs
    BY <1>2 DEF Cooling, Tokens, SendJobs
  <2> QED BY <2>1 DEF Rows
<1>4. /\ job' \in [Req -> Jobs] /\ job'[q].at = "reserved" /\ job'[q].phone = p
      /\ \A t \in Req : t # q => job'[t] = job[t]
  BY <1>1, Moves DEF SendPlaces
<1>5. /\ ~rows'[q].gone /\ rows'[q].phone = p /\ rows'[q].age = Cooling /\ rows'[q].tries = 0
      /\ rows'[q].token = "" /\ \A c \in Req : c # q => rows'[c] = rows[c]
  BY <1>1 DEF Types
<1> HIDE DEF new
<1>6. ~Issued(q) /\ rows[q].gone /\ checks[q] = 0 /\ logins[q] = 0
  BY <1>1, RowTypes DEF Issued, Known
<1>7. Types'
  <2>1. rows' \in [Req -> Rows]
    BY <1>1, <1>3 DEF Types
  <2> QED BY <1>0, <1>1, <1>4, <2>1 DEF Types
<1>8. \A t \in Req : Verifies(t) => job[t].code \in Req
  BY JobKinds DEF Verifies, VerifyJobs
<1>9. \A t \in Req : Verifies(t)' => Verifies(t) /\ t # q
  BY <1>4 DEF Verifies, VerifyPlaces, at
<1>10. Known'
  <2>1. \A t \in Req : Issued(t) => Issued(t)'
    BY <1>1, <1>4 DEF Issued, at
  <2>2. Issued(q)'
    BY <1>4 DEF Issued, at
  <2>4. \A c \in Req : ~rows'[c].gone => Issued(c)' /\ \E i \in DOMAIN log' : log'[i] = c
    BY <1>5, <2>1, <2>2, <1>0 DEF Known
  <2> QED BY <1>1, <1>4, <1>8, <1>9, <2>1, <2>4 DEF Known
<1>11. Attempts'
  <2>1. \A c \in Req : Trying(c)' = Trying(c)
    BY <1>1, <1>4 DEF Trying, at
  <2>2. Trying(q) = {}
    BY <1>6 DEF Trying, Known, Verifies, VerifyPlaces
  <2>3. Cardinality(Trying(q)) = 0 /\ OTPVerifyMaxAttempts \in Nat
    BY <2>2, FS_EmptySet, LimitAssumption
  <2> SUFFICES ASSUME NEW c \in Req
               PROVE  /\ checks[c] + Cardinality(Trying(c)) <= OTPVerifyMaxAttempts
                      /\ ~rows'[c].gone => checks[c] + Cardinality(Trying(c)) <= rows'[c].tries
                                           /\ rows'[c].tries <= OTPVerifyMaxAttempts
    BY <1>1, <2>1 DEF Attempts
  <2>4. CASE c = q
    <3>1. checks[c] = 0 /\ Cardinality(Trying(c)) = 0 /\ rows'[c].tries = 0
      BY <2>4, <1>5, <1>6, <2>3
    <3> HIDE DEF IInv
    <3> QED BY <3>1, <2>3
  <2>5. CASE c # q
    BY <2>5, <1>5 DEF Attempts
  <2> QED BY <2>4, <2>5
<1>12. Spending'
  <2>1. \A t, c \in Req : Passed(t, c)' => Passed(t, c) /\ Verifies(t)
    BY <1>1, <1>4 DEF Passed, at, Verifies, VerifyPlaces
  <2>2. \A t \in Req : ~Passed(t, q)
    BY <1>6 DEF Passed, Known, Verifies, VerifyPlaces
  <2>3. \A c \in Req : (\E t \in Req : Passed(t, c)) \/ logins[c] > 0 => c # q
    BY <1>6, <2>2
  <2> QED BY <1>1, <1>5, <2>1, <2>3 DEF Spending
<1>13. \A n, a : n # p => Recent(n, a)' = Recent(n, a)
  BY <1>5, <1>6 DEF Recent
<1>14. Recent(p, Cooling) = {} /\ Cardinality(Recent(p, ThisHour)) < otpMaxPerHour
  BY <1>1 DEF Reserving
<1>15. PICK n : n = p
  OBVIOUS
<1>16. Recent(n, Cooling)' = {q} /\ Recent(n, ThisHour)' = Recent(n, ThisHour) \cup {q}
       /\ q \notin Recent(n, ThisHour)
  <2>1. ASSUME NEW a, a \in 0..4
        PROVE  Recent(n, a)' = Recent(n, a) \cup {q} /\ q \notin Recent(n, a)
    <3>1. rows'[q].age <= a
      <4>1. rows'[q].age = 0
        BY <1>5 DEF Cooling
      <4>2. 0 <= a
        BY <2>1
      <4> HIDE DEF IInv
      <4> QED BY <4>1, <4>2
    <3> QED BY <1>5, <1>6, <1>15, <3>1 DEF Recent
  <2>2. Cooling \in 0..4 /\ ThisHour \in 0..4
    BY DEF Cooling, ThisHour
  <2> QED BY <1>14, <1>15, <2>1, <2>2
<1>17. Cardinality(Recent(n, Cooling)') <= 1 /\ Cardinality(Recent(n, ThisHour)') <= otpMaxPerHour
  <2>1. Cardinality(Recent(n, ThisHour)') = Cardinality(Recent(n, ThisHour)) + 1
    BY <1>16, RecentFinite, FS_AddElement
  <2>2. Cardinality(Recent(n, Cooling)') = 1
    BY <1>16, FS_Singleton
  <2>3. Cardinality(Recent(n, ThisHour)) \in Nat /\ otpMaxPerHour \in Nat
        /\ Cardinality(Recent(n, ThisHour)) < otpMaxPerHour
    BY <1>14, <1>15, RecentFinite, LimitAssumption
  <2> QED BY <2>1, <2>2, <2>3
<1>18. Capped'
  <2> SUFFICES ASSUME NEW m \in Phones
               PROVE  Cardinality(Recent(m, Cooling)') <= 1 /\ Cardinality(Recent(m, ThisHour)') <= otpMaxPerHour
    BY DEF Capped
  <2>1. CASE m = n
    BY <2>1, <1>17
  <2>2. CASE m # n
    BY <2>2, <1>13, <1>15 DEF Capped
  <2> QED BY <2>1, <2>2
<1>19. Reserving'
  <2> SUFFICES ASSUME NEW t \in Req, job'[t].at = "reserving"
               PROVE  /\ \A u \in Req : job'[u].at = "reserving" /\ job'[u].phone = job'[t].phone => u = t
                      /\ Recent(job[t].phone, Cooling)' = {}
                      /\ Cardinality(Recent(job[t].phone, ThisHour)') < otpMaxPerHour
    BY DEF Reserving, at
  <2>1. t # q /\ job'[t] = job[t] /\ job[t].phone # p
    BY <1>1, <1>4 DEF Reserving, at
  <2>2. PICK m : m = job[t].phone
    OBVIOUS
  <2>3. Recent(job[t].phone, Cooling)' = Recent(m, Cooling)' /\ Recent(job[t].phone, ThisHour)' = Recent(m, ThisHour)'
    BY <2>1, <2>2 DEF Recent
  <2>4. Recent(m, Cooling) = {} /\ Cardinality(Recent(m, ThisHour)) < otpMaxPerHour
        /\ \A u \in Req : at(u) = "reserving" /\ job[u].phone = job[t].phone => u = t
    BY <2>1, <2>2 DEF Reserving, at
  <2>5. \A u \in Req : job'[u].at = "reserving" => job'[u] = job[u]
    BY <1>4
  <2> QED BY <2>1, <2>2, <2>3, <2>4, <2>5, <1>13 DEF at
<1>20. Remembered'
  <2>1. \A c \in Req : rows'[c].gone => rows'[c] = rows[c]
    BY <1>5
  <2>2. wiped' = wiped
    BY <1>1
  <2> QED BY <2>1, <2>2 DEF Remembered
<1>21. ReviewRows'
  <2>1. \A t \in Req : t # q => job'[t] = job[t] /\ rows'[t] = rows[t]
    BY <1>4, <1>5
  <2>2. \A t \in Req : t = q \/ t # q
    OBVIOUS
  <2>3. \A c \in Req : ~rows'[c].gone /\ rows'[c].token = "review" => rows'[c].phone = ReviewPhone
    BY <2>1, <2>2, <1>5, <1>9 DEF ReviewRows
  <2>4. \A t \in Req : job'[t].at = "marking" => job'[t].phone = ReviewPhone
    BY <2>1, <2>2, <1>4, <1>9 DEF ReviewRows, at
  <2>5. \A t \in Req : job'[t].at \in SendPlaces /\ ~rows'[t].gone => rows'[t].phone = job'[t].phone
    BY <2>1, <2>2, <1>4, <1>5, <1>9 DEF ReviewRows, at
  <2>6. \A t \in Req : job'[t].at \in VerifyPlaces /\ job'[t].token = "review" => job'[t].phone = ReviewPhone
    BY <2>1, <2>2, <1>4, <1>9 DEF ReviewRows, Verifies, at
  <2> QED BY <2>3, <2>4, <2>5, <2>6 DEF ReviewRows, Verifies, at
<1> QED BY <1>7, <1>10, <1>11, <1>12, <1>18, <1>19, <1>20, <1>21

LEMMA SendPreserves == ASSUME IInv, NEW q \in Req, SendCode(q) PROVE IInv'
<1> USE DEF IInv
<1>0. at(q) = "reserved" /\ UNCHANGED <<rows, log, checks, logins, wiped>>
      /\ sends' \subseteq Req
  BY DEF SendCode, Types
<1>1. PICK w \in {"marking", "sent", "unsent"} :
        to(q, w) /\ (w = "marking" => job[q].phone = ReviewPhone)
  BY DEF SendCode
<1>2. at(q) \in SendPlaces /\ w \in SendPlaces /\ w \notin VerifyPlaces
  BY <1>0 DEF SendPlaces, VerifyPlaces
<1>3. /\ job' \in [Req -> Jobs] /\ job'[q].at = w /\ job'[q].phone = job[q].phone
      /\ \A t \in Req : t # q => job'[t] = job[t]
  BY <1>1, <1>2, Moves
<1> HIDE DEF IInv
<1> QED BY <1>0, <1>1, <1>2, <1>3, JobsOnly

\* setToken and burn: a statement on a row, and the request is over.
LEMMA LastStatement ==
    ASSUME IInv, NEW q \in Req, to(q, "ended"), NEW c \in Req, NEW row \in Rows,
           rows' = [rows EXCEPT ![c] = row],
           row.phone = rows[c].phone, row.tries = rows[c].tries, row.age = rows[c].age,
           row.gone = rows[c].gone, rows[c].consumed => row.consumed,
           ~row.gone /\ row.token = "review" => row.phone = ReviewPhone,
           UNCHANGED <<log, sends, checks, logins, wiped>>
    PROVE  IInv'
<1> USE DEF IInv
<1>1. /\ job' \in [Req -> Jobs] /\ job'[q].at = "ended"
      /\ \A t \in Req : t # q => job'[t] = job[t]
  BY Ends
<1>2. rows' \in [Req -> Rows] /\ rows'[c] = row /\ \A d \in Req : d # c => rows'[d] = rows[d]
  BY DEF Types
<1>3. Types'
  BY <1>1, <1>2 DEF Types
<1>4. \A t \in Req : Issued(t) => Issued(t)'
  BY <1>1 DEF Issued, at
<1>5. \A t \in Req : job'[t].at \in {"reserving", "trying", "verified"} => job'[t] = job[t]
  BY <1>1
<1>6. \A t \in Req : Verifies(t)' => Issued(job'[t].code)
  BY <1>1 DEF Verifies, VerifyPlaces, at, Known
<1>7. \A d \in Req : rows'[d].gone = rows[d].gone /\ rows'[d].phone = rows[d].phone
          /\ rows'[d].tries = rows[d].tries /\ rows'[d].age = rows[d].age
          /\ (rows[d].consumed => rows'[d].consumed)
  BY <1>2
<1>8. \A d \in Req : rows'[d].age >= rows[d].age
  BY <1>7, RowTypes
<1>9. Remembered'
  BY <1>7 DEF Remembered
<1>10. ReviewRows'
  BY <1>1, <1>2, <1>7 DEF ReviewRows, Verifies, VerifyPlaces, SendPlaces, at
<1> HIDE DEF IInv
<1> QED BY <1>3, <1>4, <1>5, <1>6, <1>7, <1>8, <1>9, <1>10, Ordinary

LEMMA SetTokenPreserves == ASSUME IInv, NEW q \in Req, setToken(q) PROVE IInv'
<1> DEFINE t == IF at(q) = "marking" THEN "review" ELSE "sms"
           row == [rows[q] EXCEPT !.token = t]
<1>1. rows[q] \in Rows /\ Types
  BY RowTypes DEF IInv
<1>2. at(q) \in {"marking", "sent"} /\ to(q, "ended") /\ rows' = [rows EXCEPT ![q] = row]
      /\ UNCHANGED <<log, sends, checks, logins, wiped>>
  BY <1>1 DEF setToken, Types
<1>3. t \in Tokens
  BY DEF Tokens
<1>4. row \in Rows /\ row.token = t /\ row.phone = rows[q].phone /\ row.tries = rows[q].tries
      /\ row.age = rows[q].age /\ row.gone = rows[q].gone /\ row.consumed = rows[q].consumed
  BY <1>1, <1>3 DEF Rows
<1>5. ~rows[q].gone /\ t = "review" => rows[q].phone = ReviewPhone
  BY <1>2 DEF IInv, ReviewRows, SendPlaces
<1> HIDE DEF row, t
<1> QED BY <1>2, <1>4, <1>5, LastStatement

LEMMA BurnPreserves == ASSUME IInv, NEW q \in Req, burn(q) PROVE IInv'
<1> DEFINE c == IF at(q) = "unsent" THEN q ELSE job[q].code
           row == [rows[c] EXCEPT !.consumed = TRUE]
<1>1. Types /\ ReviewRows
  BY DEF IInv
<1>2. c \in Req
  BY <1>1, JobKinds DEF burn, VerifyJobs, VerifyPlaces
<1>3. rows[c] \in Rows
  BY <1>1, <1>2, RowTypes
<1>4. to(q, "ended") /\ rows' = [rows EXCEPT ![c] = row]
      /\ UNCHANGED <<log, sends, checks, logins, wiped>>
  BY <1>1, <1>2 DEF burn, burned, Types
<1>5. row \in Rows /\ row.token = rows[c].token /\ row.phone = rows[c].phone /\ row.tries = rows[c].tries
      /\ row.age = rows[c].age /\ row.gone = rows[c].gone /\ row.consumed
  BY <1>3 DEF Rows
<1>6. ~rows[c].gone /\ rows[c].token = "review" => rows[c].phone = ReviewPhone
  BY <1>1, <1>2 DEF ReviewRows
<1> HIDE DEF row, c
<1> QED BY <1>2, <1>4, <1>5, <1>6, LastStatement

-----------------------------------------------------------------------------
(***************************************************************************)
(* VerifyOTP.                                                              *)
(***************************************************************************)
LEMMA FindPreserves == ASSUME IInv, NEW q \in Req, NEW in \in Inputs, latestActive(q, in) PROVE IInv'
<1> USE DEF IInv
<1> DEFINE c == latest(active(in.phone))
           new == [at |-> "found", phone |-> in.phone, ip |-> in.ip, guess |-> in.guess,
                   code |-> c, token |-> rows[c].token, attempt |-> 0]
           found == ipFails[in.ip] < OTPVerifyFailsPerIPPerHour /\ active(in.phone) # {}
<1>0. /\ in.phone \in Phones /\ in.ip \in IPs /\ in.guess \in Nat
      /\ UNCHANGED <<rows, log, checks, logins, wiped>> /\ sends' \subseteq Req
  BY InputKinds DEF latestActive, Types
<1>1. CASE ~found
  <2>1. job' = [job EXCEPT ![q] = [at |-> "ended"]] /\ [at |-> "ended"] \in Jobs
    BY <1>1 DEF latestActive, Jobs, NoJobs
  <2>2. job' \in [Req -> Jobs] /\ job'[q].at = "ended" /\ \A t \in Req : t # q => job'[t] = job[t]
    BY <2>1 DEF Types
  <2> HIDE DEF IInv
  <2> QED BY <1>0, <2>2, JobsOnly DEF SendPlaces, VerifyPlaces
<1>2. CASE found
  <2>1. job' = [job EXCEPT ![q] = new]
    BY <1>2 DEF latestActive
  <2>2. c \in active(in.phone)
    <3>1. active(in.phone) \in SUBSET Existing /\ active(in.phone) # {}
      BY <1>2 DEF active
    <3> QED BY <3>1, LatestIn
  <2> HIDE DEF c, found
  <2>3. c \in Req /\ ~rows[c].gone /\ rows[c].phone = in.phone
    BY <2>2 DEF active, Existing
  <2>4. rows[c].token \in Tokens
    BY <2>3, RowTypes, RowFields
  <2>5. new \in VerifyJobs
    BY <1>0, <2>3, <2>4 DEF VerifyJobs, VerifyPlaces
  <2>6. new.at = "found" /\ new.code = c /\ new.token = rows[c].token /\ new.phone = in.phone
    OBVIOUS
  <2> HIDE DEF new
  <2>7. /\ job' \in [Req -> Jobs] /\ job'[q] = new
        /\ \A t \in Req : t # q => job'[t] = job[t]
    BY <2>1, <2>5 DEF Types, Jobs
  <2>8. Issued(c) /\ (rows[c].token = "review" => rows[c].phone = ReviewPhone)
    BY <2>3 DEF Known, ReviewRows
  <2>9. "found" \notin SendPlaces
    BY DEF SendPlaces
  <2> HIDE DEF IInv
  <2> QED BY <1>0, <2>3, <2>6, <2>7, <2>8, <2>9, JobsOnly
<1> QED BY <1>1, <1>2

\* Steps of a verification that store nothing.
LEMMA VerifyMoves ==
    ASSUME IInv, NEW q \in Req, NEW w \in {"ended", "spent", "right"}, to(q, w),
           w # "ended" => at(q) \in VerifyPlaces,
           UNCHANGED <<rows, log, sends, checks, logins, wiped>>
    PROVE  IInv'
<1> USE DEF IInv
<1>1. CASE w = "ended"
  <2>1. /\ job' \in [Req -> Jobs] /\ job'[q].at = "ended"
        /\ \A t \in Req : t # q => job'[t] = job[t]
    BY <1>1, Ends
  <2>2. sends' \subseteq Req
    BY DEF Types
  <2> HIDE DEF IInv
  <2> QED BY <2>1, <2>2, JobsOnly DEF SendPlaces, VerifyPlaces
<1>2. CASE w # "ended"
  <2>1. w \in VerifyPlaces /\ w \notin SendPlaces
    BY <1>2 DEF VerifyPlaces, SendPlaces
  <2>2. /\ job' \in [Req -> Jobs] /\ job'[q].at = w /\ job'[q].phone = job[q].phone
        /\ \A t \in Req : t # q => job'[t] = job[t]
        /\ job'[q].code = job[q].code /\ job'[q].token = job[q].token
    BY <1>2, <2>1, Moves
  <2>3. sends' \subseteq Req
    BY DEF Types
  <2>4. Issued(job[q].code) /\ (job[q].token = "review" => job[q].phone = ReviewPhone)
    BY <1>2 DEF Known, ReviewRows, Verifies
  <2> HIDE DEF IInv
  <2> QED BY <1>2, <2>1, <2>2, <2>3, <2>4, JobsOnly
<1> QED BY <1>1, <1>2

LEMMA TryPreserves == ASSUME IInv, NEW q \in Req, takeAttempt(q) PROVE IInv'
<1> USE DEF IInv
<1> DEFINE c == job[q].code
<1>0. at(q) = "found" /\ at(q) \in VerifyPlaces /\ job[q] \in VerifyJobs
      /\ UNCHANGED <<log, sends, checks, logins, wiped>>
  BY JobKinds DEF takeAttempt, VerifyPlaces
<1>1. c \in Req
  BY <1>0 DEF VerifyJobs
<1>2. CASE ~attemptLeft(c)
  <2>1. to(q, "ended") /\ UNCHANGED rows
    BY <1>2 DEF takeAttempt
  <2> HIDE DEF IInv
  <2> QED BY <1>0, <2>1, VerifyMoves
<1>3. CASE attemptLeft(c)
  <2> DEFINE new == [job[q] EXCEPT !.at = "trying", !.attempt = rows[c].tries + 1]
             row == [rows[c] EXCEPT !.tries = @ + 1]
  <2>1. rows' = [rows EXCEPT ![c] = row] /\ job' = [job EXCEPT ![q] = new]
    BY <1>1, <1>3 DEF takeAttempt, Types
  <2>2. rows[c] \in Rows /\ rows[c].tries \in Nat
    BY <1>1, RowTypes
  <2>3. row \in Rows /\ row.tries = rows[c].tries + 1 /\ row.phone = rows[c].phone /\ row.age = rows[c].age
        /\ row.gone = rows[c].gone /\ row.consumed = rows[c].consumed /\ row.token = rows[c].token
    BY <2>2 DEF Rows
  <2>4. new \in VerifyJobs /\ new.at = "trying" /\ new.code = c /\ new.phone = job[q].phone
        /\ new.token = job[q].token
    <3>1. PICK n \in Nat : n = rows[c].tries + 1
      BY <2>2
    <3>2. "trying" \in VerifyPlaces
      BY DEF VerifyPlaces
    <3>3. new = [job[q] EXCEPT !.at = "trying", !.attempt = n]
      BY <3>1
    <3> HIDE DEF new, c, IInv
    <3>4. [job[q] EXCEPT !.at = "trying", !.attempt = n] \in VerifyJobs
      BY <1>0, <3>1, <3>2 DEF VerifyJobs
    <3> QED BY <1>0, <3>3, <3>4 DEF VerifyJobs, c
  <2> HIDE DEF new, row
  <2>5. /\ job' \in [Req -> Jobs] /\ job'[q] = new
        /\ \A t \in Req : t # q => job'[t] = job[t]
    BY <2>1, <2>4 DEF Types, Jobs
  <2>6. rows' \in [Req -> Rows] /\ rows'[c] = row /\ \A d \in Req : d # c => rows'[d] = rows[d]
    BY <1>1, <2>1, <2>3 DEF Types
  <2>7. Types'
    BY <1>0, <2>5, <2>6 DEF Types
  <2>8. \A t \in Req : Issued(t) <=> Issued(t)'
    BY <1>0, <2>4, <2>5 DEF Issued, at
  <2>9. \A d \in Req : rows'[d].gone = rows[d].gone /\ rows'[d].phone = rows[d].phone
            /\ rows'[d].age = rows[d].age /\ rows'[d].consumed = rows[d].consumed
            /\ rows'[d].token = rows[d].token
    BY <2>3, <2>6
  <2>10. \A t \in Req : Verifies(t)' => Verifies(t) /\ job'[t].code = job[t].code
            /\ job'[t].token = job[t].token /\ job'[t].phone = job[t].phone
    BY <1>0, <2>4, <2>5 DEF Verifies, at
  <2>11. /\ \A t \in Req : Verifies(t)' => Issued(job'[t].code)
         /\ \A d \in Req : checks'[d] > 0 \/ logins'[d] > 0 => Issued(d)
    BY <1>0, <2>10 DEF Known
  <2>12. Attempts'
    <3> SUFFICES ASSUME NEW d \in Req
                 PROVE  /\ checks[d] + Cardinality(Trying(d)') <= OTPVerifyMaxAttempts
                        /\ ~rows[d].gone => checks[d] + Cardinality(Trying(d)') <= rows'[d].tries
                                            /\ rows'[d].tries <= OTPVerifyMaxAttempts
      BY <1>0, <2>9 DEF Attempts
    <3>1. CASE d = c
      <4>1. Trying(d)' = Trying(d) \cup {q} /\ q \notin Trying(d)
        BY <1>0, <2>4, <2>5, <3>1 DEF Trying, at
      <4>2. Cardinality(Trying(d)') = Cardinality(Trying(d)) + 1
        BY <4>1, TryingFinite, FS_AddElement
      <4>3. ~rows[d].gone /\ rows[d].tries < OTPVerifyMaxAttempts /\ rows'[d].tries = rows[d].tries + 1
        BY <1>3, <3>1, <2>3, <2>6 DEF attemptLeft
      <4>4. checks[d] + Cardinality(Trying(d)) <= rows[d].tries
        BY <4>3 DEF Attempts
      <4>5. checks[d] \in Nat /\ Cardinality(Trying(d)) \in Nat /\ rows[d].tries \in Nat
            /\ OTPVerifyMaxAttempts \in Nat
        BY RowTypes, TryingFinite, LimitAssumption
      <4> HIDE DEF IInv
      <4> QED BY <4>2, <4>3, <4>4, <4>5
    <3>2. CASE d # c
      <4>1. Trying(d)' = Trying(d)
        BY <1>0, <2>4, <2>5, <3>2 DEF Trying, at
      <4> QED BY <4>1, <3>2, <2>6 DEF Attempts
    <3> QED BY <3>1, <3>2
  <2>13. Spending'
    <3>1. \A t, d \in Req : Passed(t, d)' => Passed(t, d)
      BY <2>4, <2>5 DEF Passed, at
    <3> QED BY <1>0, <2>9, <3>1 DEF Spending
  <2>14. \A t \in Req : job'[t].at = "reserving" => job'[t] = job[t]
    BY <2>4, <2>5
  <2>15. \A d \in Req : rows'[d].age >= rows[d].age
    BY <2>9, RowTypes
  <2>17. Remembered'
    BY <1>0, <2>9 DEF Remembered
  <2>18. ReviewRows'
    <3>1. \A t \in Req : job'[t].at \in SendPlaces => job'[t] = job[t]
      BY <2>4, <2>5 DEF SendPlaces
    <3>2. "marking" \in SendPlaces
      BY DEF SendPlaces
    <3> QED BY <2>9, <2>10, <3>1, <3>2 DEF ReviewRows, at
  <2> HIDE DEF IInv
  <2> QED BY <1>0, <2>7, <2>8, <2>9, <2>11, <2>12, <2>13, <2>14, <2>15, <2>17, <2>18, ReservesNothing
<1> QED BY <1>2, <1>3

\* The answer to an attempt: it is no longer out, and compared.
LEMMA VerifyPreserves == ASSUME IInv, NEW q \in Req, verifyCode(q) PROVE IInv'
<1> USE DEF IInv
<1> DEFINE c == job[q].code
<1>0. at(q) = "trying" /\ at(q) \in VerifyPlaces /\ job[q] \in VerifyJobs
  BY JobKinds DEF verifyCode, VerifyPlaces
<1>1. c \in Req
  BY <1>0 DEF VerifyJobs
<1>2. UNCHANGED <<rows, log, sends, logins, wiped>> /\ checks' = [checks EXCEPT ![c] = @ + 1]
  BY DEF verifyCode
<1>3. PICK w \in {"ended", "spent", "right"} : to(q, w)
  BY DEF verifyCode, check, providerVerify, wrong, outage
<1>4. /\ job' \in [Req -> Jobs] /\ job'[q].at = w
      /\ \A t \in Req : t # q => job'[t] = job[t]
      /\ w # "ended" => /\ job'[q].phone = job[q].phone /\ job'[q].code = c
                        /\ job'[q].token = job[q].token
  <2>1. CASE w = "ended"
    BY <1>3, <2>1, Ends
  <2>2. CASE w # "ended"
    <3>1. w \in VerifyPlaces
      BY <2>2 DEF VerifyPlaces
    <3> QED BY <1>0, <1>3, <2>2, <3>1, Moves
  <2> QED BY <2>1, <2>2
<1>5. checks[c] \in Nat /\ checks' \in [Req -> Nat] /\ checks'[c] = checks[c] + 1
      /\ \A d \in Req : d # c => checks'[d] = checks[d]
  BY <1>1, <1>2 DEF Types
<1>6. Types'
  BY <1>2, <1>4, <1>5 DEF Types
<1>7. \A t \in Req : Issued(t) => Issued(t)'
  BY <1>4 DEF Issued, at
<1>8. \A t \in Req : Verifies(t)' => Verifies(t) /\ job'[t].code = job[t].code
          /\ job'[t].token = job[t].token /\ job'[t].phone = job[t].phone
  BY <1>0, <1>4 DEF Verifies, VerifyPlaces, at
<1>9. Issued(c) /\ \A t \in Req : Verifies(t)' => Issued(job'[t].code)
  BY <1>0, <1>8 DEF Known, Verifies
<1>10. \A d \in Req : checks'[d] > 0 \/ logins'[d] > 0 => Issued(d)
  BY <1>2, <1>5, <1>9 DEF Known
<1>11. Attempts'
  <2> SUFFICES ASSUME NEW d \in Req
               PROVE  checks'[d] + Cardinality(Trying(d)') = checks[d] + Cardinality(Trying(d))
    BY <1>2 DEF Attempts
  <2>1. CASE d = c
    <3>1. Trying(d)' = Trying(d) \ {q} /\ q \in Trying(d)
      BY <1>0, <1>4, <2>1 DEF Trying, at
    <3>2. Cardinality(Trying(d)') = Cardinality(Trying(d)) - 1
      BY <3>1, TryingFinite, FS_RemoveElement
    <3> QED BY <3>2, <2>1, <1>5, TryingFinite
  <2>2. CASE d # c
    <3>1. Trying(d)' = Trying(d)
      BY <1>0, <1>4, <2>2 DEF Trying, at
    <3> QED BY <3>1, <2>2, <1>5
  <2> QED BY <2>1, <2>2
<1>12. Spending'
  <2>1. \A t, d \in Req : Passed(t, d)' => Passed(t, d)
    BY <1>4 DEF Passed, at
  <2> QED BY <1>2, <2>1 DEF Spending
<1>13. \A t \in Req : job'[t].at = "reserving" => job'[t] = job[t]
  BY <1>4
<1>14. \A d \in Req : rows'[d].age >= rows[d].age
  BY <1>2, RowTypes
<1>15. Remembered'
  BY <1>2 DEF Remembered
<1>16. ReviewRows'
  <2>1. \A t \in Req : job'[t].at \in SendPlaces => job'[t] = job[t]
    BY <1>4 DEF SendPlaces
  <2>2. "marking" \in SendPlaces
    BY DEF SendPlaces
  <2> QED BY <1>2, <1>8, <2>1, <2>2 DEF ReviewRows, at
<1> HIDE DEF IInv
<1> QED BY <1>2, <1>6, <1>7, <1>9, <1>10, <1>11, <1>12, <1>13, <1>14, <1>15, <1>16, ReservesNothing

LEMMA ConsumePreserves == ASSUME IInv, NEW q \in Req, consume(q) PROVE IInv'
<1> USE DEF IInv
<1> DEFINE c == job[q].code
<1>0. at(q) = "right" /\ at(q) \in VerifyPlaces /\ job[q] \in VerifyJobs
      /\ UNCHANGED <<log, sends, checks, logins, wiped>>
  BY JobKinds DEF consume, VerifyPlaces
<1>1. c \in Req
  BY <1>0 DEF VerifyJobs
<1>2. CASE ~unconsumed(c)
  <2>1. to(q, "ended") /\ UNCHANGED rows
    BY <1>2 DEF consume
  <2> HIDE DEF IInv
  <2> QED BY <1>0, <2>1, VerifyMoves
<1>3. CASE unconsumed(c)
  <2> DEFINE row == [rows[c] EXCEPT !.consumed = TRUE]
  <2>1. rows' = [rows EXCEPT ![c] = row] /\ to(q, "verified") /\ ~rows[c].gone /\ ~rows[c].consumed
    BY <1>1, <1>3 DEF consume, unconsumed, Types
  <2>2. rows[c] \in Rows
    BY <1>1, RowTypes
  <2>3. row \in Rows /\ row.tries = rows[c].tries /\ row.phone = rows[c].phone /\ row.age = rows[c].age
        /\ row.gone = rows[c].gone /\ row.consumed /\ row.token = rows[c].token
    BY <2>2 DEF Rows
  <2> HIDE DEF row
  <2>4. /\ job' \in [Req -> Jobs] /\ job'[q].at = "verified" /\ job'[q].phone = job[q].phone
        /\ \A t \in Req : t # q => job'[t] = job[t]
        /\ job'[q].code = c /\ job'[q].token = job[q].token
    <3>1. "verified" \in VerifyPlaces
      BY DEF VerifyPlaces
    <3> QED BY <1>0, <2>1, <3>1, Moves
  <2>5. rows' \in [Req -> Rows] /\ rows'[c] = row /\ \A d \in Req : d # c => rows'[d] = rows[d]
    BY <1>1, <2>1, <2>3 DEF Types
  <2>6. Types'
    BY <1>0, <2>4, <2>5 DEF Types
  <2>7. \A d \in Req : rows'[d].gone = rows[d].gone /\ rows'[d].phone = rows[d].phone
            /\ rows'[d].age = rows[d].age /\ rows'[d].tries = rows[d].tries
            /\ rows'[d].token = rows[d].token /\ (rows[d].consumed => rows'[d].consumed)
    BY <2>3, <2>5
  <2>8. \A t \in Req : Issued(t) => Issued(t)'
    BY <2>4 DEF Issued, at
  <2>9. \A t \in Req : Verifies(t)' => Verifies(t) /\ job'[t].code = job[t].code
            /\ job'[t].token = job[t].token /\ job'[t].phone = job[t].phone
    BY <1>0, <2>4 DEF Verifies, at
  <2>10. /\ \A t \in Req : Verifies(t)' => Issued(job'[t].code)
         /\ \A d \in Req : checks'[d] > 0 \/ logins'[d] > 0 => Issued(d)
    BY <1>0, <2>9 DEF Known
  <2>11. Attempts'
    <3>1. \A d \in Req : Trying(d)' = Trying(d)
      BY <1>0, <2>4 DEF Trying, at
    <3> QED BY <1>0, <2>7, <3>1 DEF Attempts
  <2>12. Spending'
    <3>1. logins[c] = 0 /\ \A t \in Req : ~Passed(t, c)
      BY <1>1, <2>1, RowTypes DEF Spending
    <3>2. \A t, d \in Req : Passed(t, d)' => Passed(t, d) \/ (t = q /\ d = c)
      BY <2>4 DEF Passed, at
    <3>3. rows'[c].consumed
      BY <2>3, <2>5
    <3> QED BY <1>0, <2>7, <3>1, <3>2, <3>3 DEF Spending
  <2>13. \A t \in Req : job'[t].at = "reserving" => job'[t] = job[t]
    BY <2>4
  <2>14. \A d \in Req : rows'[d].age >= rows[d].age
    BY <2>7, RowTypes
  <2>15. Remembered'
    BY <1>0, <2>7 DEF Remembered
  <2>16. ReviewRows'
    <3>1. \A t \in Req : job'[t].at \in SendPlaces => job'[t] = job[t]
      BY <2>4 DEF SendPlaces
    <3>2. "marking" \in SendPlaces
      BY DEF SendPlaces
    <3> QED BY <2>7, <2>9, <3>1, <3>2 DEF ReviewRows, at
  <2> HIDE DEF IInv
  <2> QED BY <1>0, <2>6, <2>7, <2>8, <2>10, <2>11, <2>12, <2>13, <2>14, <2>15, <2>16, ReservesNothing
<1> QED BY <1>2, <1>3

LEMMA IssuePreserves == ASSUME IInv, NEW q \in Req, issueTokenPair(q) PROVE IInv'
<1> USE DEF IInv
<1> DEFINE c == job[q].code
<1>0. at(q) = "verified" /\ at(q) \in VerifyPlaces /\ job[q] \in VerifyJobs /\ to(q, "ended")
      /\ UNCHANGED <<rows, log, sends, checks, wiped>> /\ logins' = [logins EXCEPT ![c] = @ + 1]
  BY JobKinds DEF issueTokenPair, VerifyPlaces
<1>1. c \in Req
  BY <1>0 DEF VerifyJobs
<1>2. /\ job' \in [Req -> Jobs] /\ job'[q].at = "ended"
      /\ \A t \in Req : t # q => job'[t] = job[t]
  BY <1>0, Ends
<1>3. logins[c] = 0 /\ Passed(q, c) /\ Issued(c) /\ (rows[c].gone \/ rows[c].consumed)
      /\ \A t \in Req : Passed(t, c) => t = q
  BY <1>0, <1>1 DEF Spending, Passed, Known, Verifies
<1>4. logins' \in [Req -> Nat] /\ logins'[c] = 1 /\ \A d \in Req : d # c => logins'[d] = logins[d]
  BY <1>0, <1>1, <1>3 DEF Types
<1>5. Types'
  BY <1>0, <1>2, <1>4 DEF Types
<1>6. \A t \in Req : Issued(t) => Issued(t)'
  BY <1>2 DEF Issued, at
<1>7. /\ \A t \in Req : Verifies(t)' => Issued(job'[t].code)
      /\ \A d \in Req : checks'[d] > 0 \/ logins'[d] > 0 => Issued(d)
  BY <1>0, <1>2, <1>3, <1>4 DEF Known, Verifies, VerifyPlaces, at
<1>8. Attempts'
  <2>1. \A d \in Req : Trying(d)' = Trying(d)
    BY <1>0, <1>2 DEF Trying, at
  <2> QED BY <1>0, <2>1 DEF Attempts
<1>9. Spending'
  <2>1. \A t, d \in Req : Passed(t, d)' => Passed(t, d) /\ d # c
    BY <1>2, <1>3 DEF Passed, at
  <2> QED BY <1>0, <1>3, <1>4, <2>1 DEF Spending
<1>10. \A t \in Req : job'[t].at = "reserving" => job'[t] = job[t]
  BY <1>2
<1>11. \A d \in Req : rows'[d].age >= rows[d].age
  BY <1>0, RowTypes
<1>12. Remembered'
  BY <1>0 DEF Remembered
<1>13. ReviewRows'
  BY <1>0, <1>2 DEF ReviewRows, Verifies, VerifyPlaces, SendPlaces, at
<1> HIDE DEF IInv
<1> QED BY <1>0, <1>5, <1>6, <1>7, <1>8, <1>9, <1>10, <1>11, <1>12, <1>13, ReservesNothing

-----------------------------------------------------------------------------
(***************************************************************************)
(* Time, restarts and deletions.                                           *)
(***************************************************************************)
\* Steps that change rows and no job.
LEMMA RowsOnly ==
    ASSUME IInv, rows' \in [Req -> Rows], UNCHANGED <<job, log, sends, checks, logins>>,
           \A c \in Req : ~rows'[c].gone =>
               /\ ~rows[c].gone /\ rows'[c].phone = rows[c].phone /\ rows'[c].tries = rows[c].tries
               /\ rows'[c].age >= rows[c].age /\ rows'[c].consumed = rows[c].consumed
               /\ rows'[c].token = rows[c].token,
           Remembered'
    PROVE  IInv'
<1> USE DEF IInv
<1>1. Types'
  BY DEF Types
<1>2. \A q \in Req : Issued(q) => Issued(q)'
  BY DEF Issued, at
<1>3. \A q \in Req : Verifies(q)' => Issued(job'[q].code)
  BY DEF Known, Verifies, at
<1>4. ReviewRows'
  BY DEF ReviewRows, Verifies, at
<1> HIDE DEF IInv
<1> QED BY <1>1, <1>2, <1>3, <1>4, Ordinary

LEMMA ElapsePreserves == ASSUME IInv, NEW c \in Req, Elapse(c) PROVE IInv'
<1> DEFINE row == [rows[c] EXCEPT !.age = @ + 1]
<1>0. Types /\ Remembered
  BY DEF IInv
<1>1. rows[c] \in Rows /\ rows[c].age \in 0..4 /\ rows[c].age < 4 /\ ~rows[c].gone
      /\ rows' = [rows EXCEPT ![c] = row]
      /\ UNCHANGED <<job, log, sends, checks, logins, wiped>>
  BY <1>0, RowTypes DEF Elapse, Old, Types
<1>2. rows[c].age + 1 \in 0..4
  BY <1>1
<1>3. row \in Rows /\ row.age = rows[c].age + 1 /\ row.phone = rows[c].phone /\ row.tries = rows[c].tries
      /\ row.gone = rows[c].gone /\ row.consumed = rows[c].consumed /\ row.token = rows[c].token
  BY <1>1, <1>2 DEF Rows
<1> HIDE DEF row
<1>4. rows' \in [Req -> Rows] /\ rows'[c] = row /\ \A d \in Req : d # c => rows'[d] = rows[d]
  BY <1>0, <1>1, <1>3 DEF Types
<1>5. \A d \in Req : rows'[d].age >= rows[d].age
  <2>1. \A d \in Req : rows[d].age \in Int
    BY <1>0, RowTypes
  <2> QED BY <1>3, <1>4, <2>1
<1>6. Remembered'
  BY <1>0, <1>1, <1>3, <1>4 DEF Remembered
<1> QED BY <1>1, <1>3, <1>4, <1>5, <1>6, RowsOnly

LEMMA FailPreserves == ASSUME IInv, NEW q \in Req, fail(q) PROVE IInv'
BY VerifyMoves DEF fail

LEMMA RestartPreserves == ASSUME IInv, Restart PROVE IInv'
<1> USE DEF IInv
<1>1. PICK q \in Req : at(q) \notin Finished
  BY DEF Restart
<1>2. \A t \in Req : job'[t] = job[t] \/ job'[t] = [at |-> "ended"]
  BY DEF Restart
<1>3. job' \in [Req -> Jobs]
  <2>1. [at |-> "ended"] \in Jobs
    BY DEF Jobs, NoJobs
  <2> QED BY <2>1 DEF Restart, Types
<1>4. job'[q].at = "ended"
  BY <1>1 DEF Restart
<1>5. sends' \subseteq Req /\ UNCHANGED <<rows, log, checks, logins, wiped>>
  BY DEF Restart, Types
<1>6. "ended" \notin SendPlaces /\ "ended" \notin VerifyPlaces
  BY DEF SendPlaces, VerifyPlaces
<1> HIDE DEF IInv
<1> QED BY <1>2, <1>3, <1>4, <1>5, <1>6, JobsOnly

LEMMA NoRowTypes ==
    ASSUME NEW p \in Phones \cup {"none"}, NEW a \in 0..4
    PROVE  /\ [NoRow EXCEPT !.phone = p, !.age = a] \in Rows /\ NoRow \in Rows
           /\ NoRow.gone /\ NoRow.age = Old
           /\ [NoRow EXCEPT !.phone = p, !.age = a].gone
           /\ [NoRow EXCEPT !.phone = p, !.age = a].age = a
<1>1. Old \in 0..4 /\ "" \in Tokens
  BY DEF Old, Tokens
<1> QED BY <1>1 DEF Rows, NoRow

LEMMA CleanupPreserves == ASSUME IInv, deleteOTPCodesBefore PROVE IInv'
<1> DEFINE left(c) == [NoRow EXCEPT !.phone = rows[c].phone, !.age = rows[c].age]
<1>0. Types /\ Remembered
  BY DEF IInv
<1>1. rows' = [c \in Req |-> IF c \in staleRows THEN left(c) ELSE rows[c]]
      /\ UNCHANGED <<job, log, sends, checks, logins, wiped>>
  BY DEF deleteOTPCodesBefore, remove
<1>2. \A c \in Req : left(c) \in Rows /\ left(c).gone /\ left(c).age = rows[c].age
  <2> SUFFICES ASSUME NEW c \in Req
               PROVE  left(c) \in Rows /\ left(c).gone /\ left(c).age = rows[c].age
    OBVIOUS
  <2>1. rows[c].phone \in Phones \cup {"none"} /\ rows[c].age \in 0..4
    BY <1>0, RowTypes, RowFields
  <2> QED BY <2>1, NoRowTypes
<1>3. \A c \in staleRows : rows[c].age = Old
  BY DEF staleRows
<1> HIDE DEF left
<1>4. rows' \in [Req -> Rows]
  BY <1>0, <1>1, <1>2 DEF Types
<1>5. \A c \in Req : rows'[c] = rows[c] \/ (rows'[c].gone /\ rows'[c].age = Old)
  BY <1>1, <1>2, <1>3
<1>6. Remembered'
  BY <1>0, <1>1, <1>5 DEF Remembered
<1>7. \A c \in Req : ~rows'[c].gone => rows'[c] = rows[c] /\ rows[c].age \in Int
  BY <1>0, <1>5, RowTypes
<1>8. \A c \in Req : ~rows'[c].gone => rows'[c].age >= rows[c].age
  BY <1>7
<1> QED BY <1>1, <1>4, <1>6, <1>7, <1>8, RowsOnly

LEMMA DeletionPreserves == ASSUME IInv, NEW p \in Phones, deleteCustomer(p) PROVE IInv'
<1> DEFINE S == {c \in Existing : rows[c].phone = p}
<1>0. Types /\ Remembered
  BY DEF IInv
<1>1. rows' = [c \in Req |-> IF c \in S THEN NoRow ELSE rows[c]]
      /\ wiped' = wiped \cup {p} /\ UNCHANGED <<job, log, sends, checks, logins>>
  BY DEF deleteCustomer, remove
<1>2. NoRow \in Rows /\ NoRow.gone /\ NoRow.age = Old
  <2>1. 0 \in 0..4 /\ p \in Phones \cup {"none"}
    OBVIOUS
  <2> QED BY <2>1, NoRowTypes
<1> HIDE DEF S
<1>4. rows' \in [Req -> Rows]
  BY <1>0, <1>1, <1>2 DEF Types
<1>5. \A c \in Req : rows'[c] = rows[c] \/ (rows'[c].gone /\ rows'[c].age = Old)
  BY <1>1, <1>2
<1>6. Remembered'
  BY <1>0, <1>1, <1>5 DEF Remembered
<1>7. \A c \in Req : ~rows'[c].gone => rows'[c] = rows[c] /\ rows[c].age \in Int
  BY <1>0, <1>5, RowTypes
<1>8. \A c \in Req : ~rows'[c].gone => rows'[c].age >= rows[c].age
  BY <1>7
<1> QED BY <1>1, <1>4, <1>6, <1>7, <1>8, RowsOnly

LEMMA StutterPreserves ==
    ASSUME IInv, UNCHANGED <<job, rows, log, sends, checks, logins, wiped>>
    PROVE  IInv'
<1>0. Types /\ Remembered
  BY DEF IInv
<1>1. rows' \in [Req -> Rows] /\ Remembered'
  BY <1>0 DEF Types, Remembered
<1>2. \A c \in Req : rows'[c].age >= rows[c].age
  BY <1>0, RowTypes
<1> QED BY <1>1, <1>2, RowsOnly

LEMMA Inductive == IInv /\ [Next]_vars => IInv'
<1> SUFFICES ASSUME IInv, [Next]_vars PROVE IInv'
    OBVIOUS
<1>1. ASSUME NEW q \in Req, NEW in \in Inputs, reserve(q, in) PROVE IInv'
  BY <1>1, ReservePreserves
<1>2. ASSUME NEW q \in Req, NEW in \in Inputs, latestActive(q, in) PROVE IInv'
  BY <1>2, FindPreserves
<1>3. ASSUME NEW q \in Req, insertRow(q) PROVE IInv'
  BY <1>3, InsertPreserves
<1>4. ASSUME NEW q \in Req, SendCode(q) PROVE IInv'
  BY <1>4, SendPreserves
<1>5. ASSUME NEW q \in Req, setToken(q) PROVE IInv'
  BY <1>5, SetTokenPreserves
<1>6. ASSUME NEW q \in Req, burn(q) PROVE IInv'
  BY <1>6, BurnPreserves
<1>7. ASSUME NEW q \in Req, takeAttempt(q) PROVE IInv'
  BY <1>7, TryPreserves
<1>8. ASSUME NEW q \in Req, verifyCode(q) PROVE IInv'
  BY <1>8, VerifyPreserves
<1>9. ASSUME NEW q \in Req, consume(q) PROVE IInv'
  BY <1>9, ConsumePreserves
<1>10. ASSUME NEW q \in Req, issueTokenPair(q) PROVE IInv'
  BY <1>10, IssuePreserves
<1>11. ASSUME NEW q \in Req, Elapse(q) PROVE IInv'
  BY <1>11, ElapsePreserves
<1>12. ASSUME NEW q \in Req, fail(q) PROVE IInv'
  BY <1>12, FailPreserves
<1>13. ASSUME NEW i \in IPs, windowEnds(i) PROVE IInv'
  BY <1>13, StutterPreserves DEF windowEnds
<1>14. CASE Restart
  BY <1>14, RestartPreserves
<1>15. CASE deleteOTPCodesBefore
  BY <1>15, CleanupPreserves
<1>16. ASSUME NEW p \in Phones, deleteCustomer(p) PROVE IInv'
  BY <1>16, DeletionPreserves
<1>17. CASE UNCHANGED vars
  BY <1>17, StutterPreserves DEF vars
<1> QED BY <1>1, <1>2, <1>3, <1>4, <1>5, <1>6, <1>7, <1>8, <1>9, <1>10, <1>11, <1>12, <1>13,
           <1>14, <1>15, <1>16, <1>17 DEF Next

\* What the rows, the counters and the requests in flight know of each other
\* holds after every statement of RequestOTP, VerifyOTP and the cleanup.
THEOREM Invariance == Spec => []IInv
BY Initial, Inductive, PTL DEF Spec

-----------------------------------------------------------------------------
(***************************************************************************)
(* Whatever the number of parallel verifications, restarts and deletions,  *)
(* a code is compared at most OTPVerifyMaxAttempts times and issues one    *)
(* token pair (takeAttempt, consume).                                      *)
(***************************************************************************)
THEOREM OneLoginPerCode == Spec => []CodesSpentOnce
<1>1. IInv => CodesSpentOnce
  <2> SUFFICES ASSUME IInv, NEW c \in Req
               PROVE  checks[c] <= OTPVerifyMaxAttempts /\ logins[c] <= 1
    BY DEF CodesSpentOnce
  <2>1. checks[c] + Cardinality(Trying(c)) <= OTPVerifyMaxAttempts /\ logins[c] <= 1
    BY DEF IInv, Attempts, Spending
  <2>2. checks[c] \in Nat /\ Cardinality(Trying(c)) \in Nat /\ OTPVerifyMaxAttempts \in Nat
    BY RowTypes, TryingFinite, LimitAssumption DEF IInv
  <2> QED BY <2>1, <2>2
<1> QED BY <1>1, Invariance, PTL

(***************************************************************************)
(* Whatever the number of parallel requests, a phone is sent one SMS a     *)
(* cooldown and otpMaxPerHour an hour, since reserve counts and inserts    *)
(* under the phone's lock and a failed send's row is kept (burn).          *)
(***************************************************************************)
THEOREM MessagesCapped == Spec => []SendsCapped
<1>1. IInv => SendsCapped
  <2> SUFFICES ASSUME IInv, NEW p \in Phones \ wiped
               PROVE  LET mine == {c \in sends : rows[c].phone = p} IN
                      recent(mine, Cooling) <= 1 /\ recent(mine, ThisHour) <= otpMaxPerHour
    BY DEF SendsCapped
  <2> DEFINE mine == {c \in sends : rows[c].phone = p}
             S(a) == {c \in mine : rows[c].age <= a}
  <2>1. ASSUME NEW a \in 0..3
        PROVE  Cardinality(S(a)) <= Cardinality(Recent(p, a)) /\ Cardinality(S(a)) \in Nat
    <3>1. \A c \in Req : rows[c].phone = p /\ rows[c].age <= a => ~rows[c].gone
      <4> SUFFICES ASSUME NEW c \in Req, rows[c].phone = p, rows[c].gone PROVE ~(rows[c].age <= a)
        OBVIOUS
      <4>1. rows[c].age = 4
        BY DEF IInv, Remembered, Old
      <4> QED BY <4>1
    <3>2. S(a) \in SUBSET Recent(p, a)
      BY <3>1 DEF IInv, Types, Recent
    <3> QED BY <3>2, RecentFinite, FS_Subset, FS_CardinalityType
  <2>2. Cardinality(Recent(p, Cooling)) <= 1 /\ Cardinality(Recent(p, ThisHour)) <= otpMaxPerHour
    BY DEF IInv, Capped
  <2>3. Cooling \in 0..3 /\ ThisHour \in 0..3 /\ otpMaxPerHour \in Nat
    BY LimitAssumption DEF Cooling, ThisHour
  <2>4. recent(mine, Cooling) = Cardinality(S(Cooling)) /\ recent(mine, ThisHour) = Cardinality(S(ThisHour))
    BY DEF recent
  <2> HIDE DEF S, mine
  <2>5. recent(mine, Cooling) <= 1 /\ recent(mine, ThisHour) <= otpMaxPerHour
    BY <2>1, <2>2, <2>3, <2>4, RecentFinite
  <2> QED BY <2>5 DEF mine
<1> QED BY <1>1, Invariance, PTL

(***************************************************************************)
(* A request that saw a review row is answered by the guard and not by the *)
(* provider, and the guard answers no once it has tripped, whenever the    *)
(* row was marked (check).                                                 *)
(***************************************************************************)
THEOREM TrippedGuardStaysShut == Spec => ReviewStaysLocked
<1> DEFINE Shut == \A q \in Req :
             at(q) = "trying" /\ job'[q].at = "right" /\ job[q].token = "review" => ~tripped
<1>1. IInv /\ [Next]_vars => [Shut]_vars
  <2> SUFFICES ASSUME IInv, Next, NEW q \in Req,
                      at(q) = "trying", job'[q].at = "right", job[q].token = "review", tripped
               PROVE  FALSE
    OBVIOUS
  <2>0. Types /\ job[q].phone = ReviewPhone
    BY DEF IInv, ReviewRows, Verifies, VerifyPlaces
  <2>1. ASSUME NEW r \in Req, r # q, \E w : to(r, w) PROVE FALSE
    BY <2>0, <2>1 DEF to, Types, at
  <2>2. ASSUME to(q, "ended") PROVE FALSE
    BY <2>0, <2>2, Ends
  <2>3. ASSUME NEW r \in Req, verifyCode(r) PROVE FALSE
    <3>1. r = q
      BY <2>1, <2>3 DEF verifyCode, check, providerVerify, wrong, outage
    <3>2. wrong(q)
      BY <2>0, <2>3, <3>1 DEF verifyCode, check, guardOpen
    <3>3. to(q, "spent")
      BY <3>2, <2>2 DEF wrong
    <3> QED BY <2>0, <3>3, Moves DEF VerifyPlaces
  <2>4. ASSUME NEW r \in Req, at(r) = "idle", \A t \in Req : t # r => job'[t] = job[t] PROVE FALSE
    BY <2>4 DEF at
  <2>5. ASSUME NEW r \in Req, NEW in \in Inputs, reserve(r, in) \/ latestActive(r, in) PROVE FALSE
    <3>1. at(r) = "idle" /\ \A t \in Req : t # r => job'[t] = job[t]
      BY <2>0, <2>5 DEF reserve, latestActive, arrives, at, Types
    <3> QED BY <2>4, <3>1
  <2>6. ASSUME NEW r \in Req, insertRow(r) \/ SendCode(r) \/ setToken(r) \/ burn(r)
                              \/ consume(r) \/ issueTokenPair(r)
        PROVE  FALSE
    <3>1. r # q
      BY <2>6 DEF insertRow, SendCode, setToken, burn, consume, issueTokenPair
    <3>2. \E w : to(r, w)
      BY <2>6 DEF insertRow, SendCode, setToken, burn, consume, issueTokenPair
    <3> QED BY <2>1, <3>1, <3>2
  <2>7. ASSUME NEW r \in Req, takeAttempt(r) PROVE FALSE
    <3>1. r # q
      BY <2>7 DEF takeAttempt
    <3>2. job'[q] = job[q]
      BY <2>0, <2>7, <3>1 DEF takeAttempt, to, Types
    <3> QED BY <3>2 DEF at
  <2>8. ASSUME NEW r \in Req, fail(r) PROVE FALSE
    BY <2>1, <2>2, <2>8 DEF fail
  <2>9. CASE Restart
    BY <2>9 DEF Restart, at
  <2>10. CASE UNCHANGED job
    BY <2>10 DEF at
  <2> QED BY <2>3, <2>5, <2>6, <2>7, <2>8, <2>9, <2>10
          DEF Next, Elapse, windowEnds, deleteOTPCodesBefore, deleteCustomer
<1> QED BY <1>1, Invariance, PTL DEF ReviewStaysLocked, Spec
-----------------------------------------------------------------------------
(* RefreshTokens: a token has one successor by rotation, a family nobody   *)
(* revoked keeps a token, and a family revoked while no refresh was        *)
(* running stays without one.  None of the three is inductive: they rest   *)
(* on who may hold a row (Locks), on tokens being stored by requests that  *)
(* have ended (Storing), on requests presenting stored tokens only         *)
(* (Presenting) and on revoked families being left alone by the refreshes  *)
(* that are running (Quiet).                                               *)

Places == {"idle", "refresh", "rotating", "inactive", "grace", "issuing",
           "revoke", "revoking", "done", "refused"}

TokenTypes ==
    /\ pc \in [Ops -> Places]
    /\ token \in [Ops -> Ops \cup {0}]
    /\ tokenRows \in [Ops -> [family : Ops \cup {0}, revoked : BOOLEAN, rotated : BOOLEAN,
                         recent : BOOLEAN, expired : BOOLEAN]]
    /\ target \in [Ops -> SUBSET Ops]
    /\ parent \in [Ops -> Ops \cup {0}]

\* A stored token and the login of its family have ended.
Storing ==
    \A t \in Ops : tokenRows[t].family # 0 => pc[t] = "done" /\ pc[tokenRows[t].family] = "done"

\* Only stored tokens are worked on.
Presenting ==
    \A q \in Ops :
        /\ pc[q] \in {"refresh", "rotating", "inactive", "grace", "issuing", "revoke"} =>
                token[q] \in Ops /\ tokenRows[token[q]].family # 0
        /\ token[q] # 0 => tokenRows[token[q]].family # 0
        /\ \A t \in target[q] : tokenRows[t].family # 0

\* A rotation holds an unrevoked row alone.
Locks ==
    \A q \in Ops : pc[q] = "rotating" =>
        /\ ~tokenRows[token[q]].revoked
        /\ \A r \in Ops : pc[r] = "rotating" /\ token[r] = token[q] => r = q

\* A rotated token is stored, and revoked.
Succession ==
    \A q \in Ops : parent[q] # 0 => tokenRows[parent[q]].family # 0 /\ tokenRows[parent[q]].revoked

\* No refresh that may still store a token works in a calm family.
Quiet ==
    \A f \in calm :
        /\ f \in Ops /\ pc[f] = "done"
        /\ \A r \in Ops : pc[r] \in {"rotating", "issuing"} => tokenRows[token[r]].family # f
        /\ \A t \in Ops : tokenRows[t].family = f => tokenRows[t].revoked

\* NeverStranded in terms of rows.
Kept ==
    \A t \in Ops : tokenRows[t].family # 0 /\ tokenRows[t].family \notin closed =>
        \E u \in Ops : tokenRows[u].family = tokenRows[t].family /\ ~tokenRows[u].revoked

TokenInv == TokenTypes /\ Storing /\ Presenting /\ Locks /\ Succession /\ RotatedOnce /\ Quiet /\ Kept

-----------------------------------------------------------------------------
LEMMA TokensInitially == TokensInit => TokenInv
<1> SUFFICES ASSUME TokensInit PROVE TokenInv
    OBVIOUS
<1>1. TokenTypes
    BY DEF TokensInit, TokenTypes, NoToken, Places
<1>2. Storing /\ Presenting /\ Locks /\ Succession /\ RotatedOnce /\ Quiet /\ Kept
    BY DEF TokensInit, Storing, Presenting, Locks, Succession, RotatedOnce, Quiet, Kept, NoToken
<1> QED
    BY <1>1, <1>2 DEF TokenInv

\* Steps that change where requests are, and no row.
LEMMA SameRows ==
    ASSUME TokenInv, UNCHANGED <<tokenRows, parent, closed, calm>>,
           pc' \in [Ops -> Places], token' \in [Ops -> Ops \cup {0}], target' \in [Ops -> SUBSET Ops],
           \A q \in Ops : pc[q] = "done" => pc'[q] = "done",
           \A q \in Ops : pc'[q] = "rotating" => token'[q] \in Ops /\ ~tokenRows[token'[q]].revoked,
           \A q, r \in Ops : pc'[q] = "rotating" /\ pc'[r] = "rotating" /\ token'[q] = token'[r] => q = r,
           \A q \in Ops : pc'[q] = "issuing" =>
                \/ pc[q] = "issuing" /\ token'[q] = token[q]
                \/ \E t \in Ops : tokenRows[t].family = tokenRows[token'[q]].family /\ ~tokenRows[t].revoked,
           Presenting'
    PROVE  TokenInv'
<1> USE DEF TokenInv
<1>1. TokenTypes'
    BY DEF TokenTypes
<1>2. Storing'
    BY DEF Storing, TokenTypes
<1>3. Locks'
    BY DEF Locks
<1>4. Succession' /\ RotatedOnce' /\ Kept'
    BY DEF Succession, RotatedOnce, Kept
<1>5. Quiet'
  <2> SUFFICES ASSUME NEW f \in calm
               PROVE  /\ f \in Ops /\ pc'[f] = "done"
                      /\ \A r \in Ops : pc'[r] \in {"rotating", "issuing"} => tokenRows[token'[r]].family # f
                      /\ \A t \in Ops : tokenRows[t].family = f => tokenRows[t].revoked
    BY DEF Quiet
  <2>1. f \in Ops /\ pc'[f] = "done" /\ \A t \in Ops : tokenRows[t].family = f => tokenRows[t].revoked
    BY DEF Quiet
  <2>2. ASSUME NEW r \in Ops, pc'[r] = "rotating" PROVE tokenRows[token'[r]].family # f
    BY <2>1, <2>2
  <2>3. ASSUME NEW r \in Ops, pc'[r] = "issuing" PROVE tokenRows[token'[r]].family # f
    BY <2>1, <2>3 DEF Quiet
  <2> QED
    BY <2>1, <2>2, <2>3
<1> QED
    BY <1>1, <1>2, <1>3, <1>4, <1>5

\* Steps that leave the tokens where they are, too.
LEMMA SameTokens ==
    ASSUME TokenInv, UNCHANGED <<token, tokenRows, parent, closed, calm>>,
           pc' \in [Ops -> Places], target' \in [Ops -> SUBSET Ops],
           \A q \in Ops : pc[q] = "done" => pc'[q] = "done",
           \A q \in Ops : pc'[q] = "rotating" => pc[q] = "rotating",
           \A q \in Ops : pc'[q] = "issuing" =>
                \/ pc[q] = "issuing"
                \/ \E t \in Ops : tokenRows[t].family = tokenRows[token[q]].family /\ ~tokenRows[t].revoked,
           Presenting'
    PROVE  TokenInv'
<1>1. token' \in [Ops -> Ops \cup {0}]
    BY DEF TokenInv, TokenTypes
<1>2. \A q \in Ops : pc'[q] = "rotating" => token'[q] \in Ops /\ ~tokenRows[token'[q]].revoked
    BY DEF TokenInv, Presenting, Locks
<1>3. \A q, r \in Ops : pc'[q] = "rotating" /\ pc'[r] = "rotating" /\ token'[q] = token'[r] => q = r
    BY DEF TokenInv, Locks
<1>4. \A q \in Ops : pc'[q] = "issuing" =>
          \/ pc[q] = "issuing" /\ token'[q] = token[q]
          \/ \E t \in Ops : tokenRows[t].family = tokenRows[token'[q]].family /\ ~tokenRows[t].revoked
    OBVIOUS
<1> QED
    BY <1>1, <1>2, <1>3, <1>4, SameRows

LEMMA QuietSteps ==
    ASSUME TokenInv, NEW q \in Ops,
           \/ \E t \in Stored : Refresh(q, t) \/ Logout(q, t)
           \/ rotate(q) \/ rotateFails(q) \/ lookup(q) \/ issueInFamily(q)
           \/ revokeFamily(q) \/ revokeCustomer(q) \/ refuse(q)
    PROVE  TokenInv'
<1> USE DEF TokenInv, goes
<1>1. CASE \E t \in Stored : Refresh(q, t) \/ Logout(q, t)
  <2>1. PICK t \in Stored : Refresh(q, t) \/ Logout(q, t)
    BY <1>1
  <2>2. t \in Ops /\ tokenRows[t].family # 0
    BY DEF Stored
  <2>3. Presenting'
    BY <2>1, <2>2 DEF Refresh, Logout, begins, Presenting, TokenTypes
  <2>4. UNCHANGED <<tokenRows, target, parent, closed, calm>>
    BY <2>1 DEF Refresh, Logout
  <2>5. pc' \in [Ops -> Places] /\ token' \in [Ops -> Ops \cup {0}] /\ target' \in [Ops -> SUBSET Ops]
    BY <2>1, <2>2 DEF Refresh, Logout, TokenTypes, Places
  <2>6. \A r \in Ops : \/ r # q /\ pc'[r] = pc[r] /\ token'[r] = token[r]
                       \/ r = q /\ pc[r] = "idle" /\ pc'[r] \in {"refresh", "revoke"}
    BY <2>1 DEF Refresh, Logout, begins, TokenTypes
  <2>7. \A r \in Ops : pc'[r] = "rotating" => token'[r] \in Ops /\ ~tokenRows[token'[r]].revoked
    BY <2>6 DEF Presenting, Locks
  <2>8. \A u, r \in Ops : pc'[u] = "rotating" /\ pc'[r] = "rotating" /\ token'[u] = token'[r] => u = r
    BY <2>6 DEF Locks
  <2> QED
    BY <2>3, <2>4, <2>5, <2>6, <2>7, <2>8, SameRows
<1>2. CASE rotate(q)
  <2>1. Presenting'
    BY <1>2 DEF rotate, Presenting, TokenTypes
  <2>2. \A r \in Ops : pc'[r] = "rotating" => token'[r] \in Ops /\ ~tokenRows[token'[r]].revoked
    BY <1>2 DEF rotate, activeRow, Presenting, Locks, TokenTypes
  <2>3. ASSUME NEW u \in Ops, NEW r \in Ops,
               pc'[u] = "rotating", pc'[r] = "rotating", token'[u] = token'[r]
        PROVE  u = r
    BY <1>2, <2>3 DEF rotate, locked, Locks, TokenTypes
  <2> QED
    BY <1>2, <2>1, <2>2, <2>3, SameRows DEF rotate, TokenTypes, Places
<1>3. CASE rotateFails(q) \/ lookup(q) \/ refuse(q)
  <2>1. Presenting'
    BY <1>3 DEF rotateFails, rotateUndone, lookup, refuse, Presenting, TokenTypes
  <2> QED
    <3>1. UNCHANGED <<token, tokenRows, target, parent, closed, calm>>
      BY <1>3 DEF rotateFails, rotateUndone, lookup, refuse
    <3>2. pc' \in [Ops -> Places] /\ \A r \in Ops : pc'[r] = pc[r] \/ pc'[r] \in {"refused", "grace", "revoke"}
      BY <1>3 DEF rotateFails, lookup, refuse, TokenTypes, Places
    <3>3. \A r \in Ops : pc[r] = "done" => pc'[r] = "done"
      BY <1>3 DEF rotateFails, lookup, refuse, TokenTypes
    <3>4. target' \in [Ops -> SUBSET Ops]
      BY <3>1 DEF TokenTypes
    <3> HIDE DEF TokenInv
    <3> QED
      BY <2>1, <3>1, <3>2, <3>3, <3>4, SameTokens
<1>4. CASE issueInFamily(q)
  <2>1. Presenting'
    BY <1>4 DEF issueInFamily, Presenting, TokenTypes
  <2>2. ASSUME NEW r \in Ops, pc'[r] = "issuing"
        PROVE  \/ pc[r] = "issuing"
               \/ \E t \in Ops : tokenRows[t].family = tokenRows[token[r]].family /\ ~tokenRows[t].revoked
    BY <1>4, <2>2 DEF issueInFamily, familyAlive, activeRow, Family, Stored, TokenTypes
  <2>3. UNCHANGED <<token, tokenRows, target, parent, closed, calm>>
    BY <1>4 DEF issueInFamily
  <2>4. pc' \in [Ops -> Places] /\ target' \in [Ops -> SUBSET Ops]
    BY <1>4, <2>3 DEF issueInFamily, TokenTypes, Places
  <2>5. \A r \in Ops : /\ pc[r] = "done" => pc'[r] = "done"
                       /\ pc'[r] = "rotating" => pc[r] = "rotating"
    BY <1>4 DEF issueInFamily, TokenTypes
  <2> HIDE DEF TokenInv
  <2> QED
    BY <2>1, <2>2, <2>3, <2>4, <2>5, SameTokens
<1>5. CASE revokeFamily(q) \/ revokeCustomer(q)
  <2>1. Presenting'
    BY <1>5 DEF revokeFamily, revokeCustomer, unrevoked, Family, Stored, begins, Presenting, TokenTypes
  <2>2. target' \in [Ops -> SUBSET Ops]
    BY <1>5 DEF revokeFamily, revokeCustomer, unrevoked, Family, Stored, TokenTypes
  <2>3. UNCHANGED <<token, tokenRows, parent, closed, calm>>
    BY <1>5 DEF revokeFamily, revokeCustomer
  <2>4. pc' \in [Ops -> Places] /\ \A r \in Ops : pc'[r] = pc[r] \/ pc'[r] = "revoking"
    BY <1>5 DEF revokeFamily, revokeCustomer, TokenTypes, Places
  <2>5. \A r \in Ops : pc[r] = "done" => pc'[r] = "done"
    BY <1>5 DEF revokeFamily, revokeCustomer, begins, TokenTypes
  <2> HIDE DEF TokenInv
  <2> QED
    BY <2>1, <2>2, <2>3, <2>4, <2>5, SameTokens
<1> QED
    BY <1>1, <1>2, <1>3, <1>4, <1>5

\* Steps that store a token.
LEMMA StoringSteps ==
    ASSUME TokenInv, NEW q \in Ops, create(q) \/ rotateCommit(q) \/ issueCommit(q)
    PROVE  TokenInv'
<1> USE DEF TokenInv, goes
<1>0. pc[q] \in {"idle", "rotating", "issuing"}
    BY DEF create, rotateCommit, issueCommit, begins
<1>1. tokenRows[q].family = 0 /\ \A r \in Ops : tokenRows[r].family # q
  <2>1. tokenRows[q].family = 0
    BY <1>0 DEF Storing
  <2>2. ASSUME NEW r \in Ops PROVE tokenRows[r].family # q
    <3>1. q # 0
      BY OpsAssumption
    <3> QED
      BY <1>0, <3>1 DEF Storing
  <2> QED
    BY <2>1, <2>2
<1>2. CASE create(q)
  <2>1. TokenTypes'
    BY <1>2 DEF create, TokenTypes, Fresh, Places
  <2>2. Storing'
    BY <1>1, <1>2 DEF create, TokenTypes, Fresh, Storing, begins
  <2>3. Presenting'
    BY <1>1, <1>2 DEF create, TokenTypes, Fresh, Presenting, begins
  <2>4. Locks'
    BY <1>1, <1>2 DEF create, TokenTypes, Fresh, Locks, Presenting, begins
  <2>5. Succession' /\ RotatedOnce'
    <3>1. \A r \in Ops : parent[r] # q
      BY <1>1, <1>2 DEF Succession, create, begins
    <3> QED
      BY <1>1, <1>2, <3>1 DEF create, TokenTypes, Fresh, Succession, RotatedOnce
  <2>6. Quiet'
    BY <1>1, <1>2 DEF create, TokenTypes, Fresh, Quiet, Presenting, begins
  <2>7. Kept'
    BY <1>1, <1>2 DEF create, TokenTypes, Fresh, Kept
  <2> QED
    BY <2>1, <2>2, <2>3, <2>4, <2>5, <2>6, <2>7
<1>3. CASE rotateCommit(q)
  <2> DEFINE t == token[q]
  <2>0. /\ t \in Ops /\ t # q /\ tokenRows[t].family # 0 /\ tokenRows[t].family \in Ops /\ pc[t] = "done"
        /\ pc[tokenRows[t].family] = "done" /\ ~tokenRows[t].revoked
    BY <1>1, <1>3 DEF rotateCommit, Presenting, Storing, Locks, TokenTypes
  <2>1. /\ tokenRows' = [tokenRows EXCEPT ![t] = retired(t), ![q] = Fresh(tokenRows[t].family)]
        /\ parent' = [parent EXCEPT ![q] = t] /\ pc' = [pc EXCEPT ![q] = "done"]
        /\ UNCHANGED <<token, target, closed, calm>>
    BY <1>3 DEF rotateCommit
  <2>2. /\ tokenRows'[q] = Fresh(tokenRows[t].family)
        /\ tokenRows'[t] = retired(t)
        /\ \A u \in Ops \ {q, t} : tokenRows'[u] = tokenRows[u]
        /\ \A u \in Ops \ {q} : tokenRows'[u].family = tokenRows[u].family
    BY <2>0, <2>1 DEF TokenTypes, retired
  <2>3. tokenRows'[q].family = tokenRows[t].family /\ ~tokenRows'[q].revoked /\ tokenRows'[t].revoked
    BY <2>0, <2>2 DEF Fresh, retired, TokenTypes
  <2> HIDE DEF t
  <2>4. TokenTypes'
    <3> DEFINE Row == [family : Ops \cup {0}, revoked : BOOLEAN, rotated : BOOLEAN,
                       recent : BOOLEAN, expired : BOOLEAN]
    <3>0. tokenRows \in [Ops -> Row]
      BY DEF TokenTypes
    <3>1. retired(t) \in Row /\ Fresh(tokenRows[t].family) \in Row
      <4>1. PICK row \in Row : row = tokenRows[t]
        BY <2>0, <3>0
      <4>2. [row EXCEPT !.revoked = TRUE, !.rotated = TRUE, !.recent = TRUE] \in Row
        OBVIOUS
      <4> QED
        BY ONLY <2>0, <4>1, <4>2 DEF retired, Fresh, Row
    <3> HIDE DEF Row
    <3>2. tokenRows' \in [Ops -> Row]
      BY <2>0, <2>1, <3>0, <3>1
    <3>3. tokenRows' \in [Ops -> [family : Ops \cup {0}, revoked : BOOLEAN, rotated : BOOLEAN,
                            recent : BOOLEAN, expired : BOOLEAN]]
      BY <3>2 DEF Row
    <3> QED
      BY <2>0, <2>1, <3>3 DEF TokenTypes, Places
  <2>5. Storing'
    BY <2>0, <2>1, <2>2, <2>3 DEF TokenTypes, Storing
  <2>6. Presenting'
    <3>1. \A u \in Ops : tokenRows[u].family # 0 => tokenRows'[u].family # 0
      BY <2>2, <2>3, <2>0
    <3>2. \A r \in Ops : token'[r] = token[r] /\ target'[r] = target[r] /\ (pc'[r] = pc[r] \/ pc'[r] = "done")
      BY <2>1 DEF TokenTypes
    <3> QED
      BY <3>1, <3>2 DEF TokenTypes, Presenting
  <2>7. Locks'
    BY <1>1, <1>3, <2>0, <2>1, <2>2, <2>3 DEF TokenTypes, Locks, Presenting, rotateCommit, t
  <2>8. Succession'
    BY <1>1, <2>0, <2>1, <2>2, <2>3 DEF TokenTypes, Succession
  <2>9. RotatedOnce'
    BY <2>0, <2>1 DEF TokenTypes, Succession, RotatedOnce
  <2>10. Quiet'
    <3>1. \A f \in calm : tokenRows[t].family # f
      BY <1>3 DEF Quiet, rotateCommit, t
    <3>2. \A r \in Ops : token'[r] = token[r] /\ (pc'[r] = pc[r] \/ pc'[r] = "done")
      BY <2>1 DEF TokenTypes
    <3>3. \A r \in Ops : pc[r] \in {"rotating", "issuing"} =>
                token[r] \in Ops \ {q}
      BY <1>1 DEF Presenting
    <3> SUFFICES ASSUME NEW f \in calm
                 PROVE  /\ f \in Ops /\ pc'[f] = "done"
                        /\ \A r \in Ops : pc'[r] \in {"rotating", "issuing"} => tokenRows'[token'[r]].family # f
                        /\ \A u \in Ops : tokenRows'[u].family = f => tokenRows'[u].revoked
      BY <2>1 DEF Quiet
    <3>4. f \in Ops /\ pc'[f] = "done"
      BY <3>2 DEF Quiet
    <3>5. ASSUME NEW r \in Ops, pc'[r] \in {"rotating", "issuing"} PROVE tokenRows'[token'[r]].family # f
      BY <2>2, <3>2, <3>3, <3>5 DEF Quiet
    <3>6. ASSUME NEW u \in Ops, tokenRows'[u].family = f PROVE tokenRows'[u].revoked
      BY <2>2, <2>3, <3>1, <3>6 DEF Quiet
    <3> QED
      BY <3>4, <3>5, <3>6
  <2>11. Kept'
    <3> SUFFICES ASSUME NEW u \in Ops, tokenRows'[u].family # 0, tokenRows'[u].family \notin closed
                 PROVE  \E w \in Ops : tokenRows'[w].family = tokenRows'[u].family /\ ~tokenRows'[w].revoked
      BY <2>1 DEF Kept
    <3>1. CASE tokenRows'[u].family = tokenRows[t].family
      BY <2>3, <3>1
    <3>2. CASE tokenRows'[u].family # tokenRows[t].family
      BY <1>1, <2>2, <2>3, <3>2 DEF Kept
    <3> QED
      BY <3>1, <3>2
  <2> QED
    BY <2>4, <2>5, <2>6, <2>7, <2>8, <2>9, <2>10, <2>11
<1>4. CASE issueCommit(q)
  <2> DEFINE f == tokenRows[token[q]].family
  <2>0. f # 0 /\ f \in Ops /\ pc[f] = "done" /\ token[q] \in Ops /\ pc[q] = "issuing"
    BY <1>4 DEF issueCommit, Presenting, Storing, TokenTypes
  <2>1. /\ tokenRows' = [tokenRows EXCEPT ![q] = Fresh(f)] /\ pc' = [pc EXCEPT ![q] = "done"]
        /\ UNCHANGED <<token, target, parent, closed, calm>>
    BY <1>4 DEF issueCommit
  <2>2. tokenRows'[q].family = f /\ ~tokenRows'[q].revoked /\ \A u \in Ops \ {q} : tokenRows'[u] = tokenRows[u]
    BY <2>1 DEF Fresh, TokenTypes
  <2>3. \A g \in calm : g # f
    BY <2>0 DEF Quiet
  <2> HIDE DEF f
  <2>4. TokenTypes'
    BY <2>0, <2>1 DEF TokenTypes, Fresh, Places
  <2>5. Storing'
    BY <2>0, <2>1, <2>2 DEF TokenTypes, Storing
  <2>6. Presenting'
    BY <1>1, <2>0, <2>1, <2>2 DEF TokenTypes, Presenting
  <2>7. Locks'
    BY <1>1, <2>0, <2>1, <2>2 DEF TokenTypes, Locks, Presenting
  <2>8. Succession' /\ RotatedOnce'
    BY <1>1, <2>1, <2>2 DEF TokenTypes, Succession, RotatedOnce
  <2>9. Quiet'
    BY <1>1, <2>1, <2>2, <2>3 DEF TokenTypes, Quiet, Presenting
  <2>10. Kept'
    BY <1>1, <2>0, <2>1, <2>2 DEF Kept
  <2> QED
    BY <2>4, <2>5, <2>6, <2>7, <2>8, <2>9, <2>10
<1> QED
    BY <1>2, <1>3, <1>4

\* A revocation marks the rows it picked, and changes nothing else of a row.
LEMMA RevokingSteps ==
    ASSUME TokenInv, NEW q \in Ops, revokeCommit(q)
    PROVE  TokenInv'
<1> USE DEF TokenInv, goes
<1>1. /\ tokenRows' = [t \in Ops |-> IF t \in target[q] THEN [tokenRows[t] EXCEPT !.revoked = TRUE] ELSE tokenRows[t]]
      /\ pc' = [pc EXCEPT ![q] = "done"] /\ pc[q] = "revoking"
      /\ \A t \in target[q] : ~locked(q, t)
      /\ closed' = closed \cup revokes(q)
      /\ UNCHANGED <<token, target, parent>>
    BY DEF revokeCommit
<1>2. \A t \in Ops : /\ tokenRows'[t].family = tokenRows[t].family
                     /\ t \notin target[q] => tokenRows'[t] = tokenRows[t]
                     /\ t \in target[q] => tokenRows'[t].revoked
                     /\ tokenRows[t].revoked => tokenRows'[t].revoked
    BY <1>1 DEF TokenTypes
<1>3. \A r \in Ops : pc'[r] = pc[r] \/ pc'[r] = "done"
    BY <1>1 DEF TokenTypes
<1>4. TokenTypes'
    BY <1>1 DEF TokenTypes, Places
<1>5. Storing'
    BY <1>2, <1>3 DEF Storing, TokenTypes
<1>6. Presenting'
    BY <1>1, <1>2, <1>3 DEF Presenting, TokenTypes
<1>7. Locks'
    BY <1>1, <1>2, <1>3 DEF Locks, Presenting, locked
<1>8. Succession' /\ RotatedOnce'
    BY <1>1, <1>2 DEF Succession, RotatedOnce, TokenTypes
<1>9. Quiet'
  <2> SUFFICES ASSUME NEW f \in calm'
               PROVE  /\ f \in Ops /\ pc'[f] = "done"
                      /\ \A r \in Ops : pc'[r] \in {"rotating", "issuing"} => tokenRows'[token'[r]].family # f
                      /\ \A t \in Ops : tokenRows'[t].family = f => tokenRows'[t].revoked
    BY DEF Quiet
  <2>1. CASE f \in calm
    BY <1>1, <1>2, <1>3, <2>1 DEF Quiet, Presenting
  <2>2. CASE f \in revokes(q) /\ ~refreshing(f) /\ unrevoked(Family(f)) \subseteq target[q]
    <3>1. f # 0 /\ f \in Ops /\ pc[f] = "done"
      BY <1>1, <2>2 DEF revokes, Presenting, Storing, TokenTypes
    <3>2. \A r \in Ops : pc'[r] \in {"rotating", "issuing"} => tokenRows'[token'[r]].family # f
      BY <1>1, <1>2, <1>3, <2>2 DEF refreshing, Presenting
    <3>3. \A t \in Ops : tokenRows'[t].family = f => tokenRows'[t].revoked
      BY <1>2, <2>2, <3>1 DEF unrevoked, Family, Stored
    <3> QED
      BY <1>3, <3>1, <3>2, <3>3
  <2> QED
    BY <2>1, <2>2 DEF revokeCommit
<1>10. Kept'
  <2> SUFFICES ASSUME NEW t \in Ops, tokenRows'[t].family # 0, tokenRows'[t].family \notin closed'
               PROVE  \E u \in Ops : tokenRows'[u].family = tokenRows'[t].family /\ ~tokenRows'[u].revoked
    BY DEF Kept
  <2>1. PICK u \in Ops : tokenRows[u].family = tokenRows[t].family /\ ~tokenRows[u].revoked
    BY <1>1, <1>2 DEF Kept
  <2>2. u \notin target[q]
    BY <1>1, <1>2, <2>1 DEF revokes
  <2> QED
    BY <1>2, <2>1, <2>2
<1> QED
    BY <1>4, <1>5, <1>6, <1>7, <1>8, <1>9, <1>10

\* Time changes only what nobody's claim rests on.
LEMMA ClockSteps ==
    ASSUME TokenInv, NEW t \in Ops, expire(t) \/ graceEnds(t)
    PROVE  TokenInv'
<1> USE DEF TokenInv
<1>1. /\ UNCHANGED <<pc, token, target, parent, closed, calm>>
      /\ \A u \in Ops : tokenRows'[u].family = tokenRows[u].family /\ tokenRows'[u].revoked = tokenRows[u].revoked
    BY DEF expire, graceEnds, TokenTypes
<1>2. TokenTypes'
  <2> DEFINE Row == [family : Ops \cup {0}, revoked : BOOLEAN, rotated : BOOLEAN,
                     recent : BOOLEAN, expired : BOOLEAN]
  <2>1. tokenRows \in [Ops -> Row]
    BY DEF TokenTypes
  <2>2. \A row \in Row : [row EXCEPT !.expired = TRUE] \in Row /\ [row EXCEPT !.recent = FALSE] \in Row
    OBVIOUS
  <2>3. \E row \in Row : tokenRows' = [tokenRows EXCEPT ![t] = row]
    <3> HIDE DEF Row
    <3>1. tokenRows[t] \in Row
      BY <2>1
    <3> QED
      BY <2>2, <3>1 DEF expire, graceEnds
  <2> HIDE DEF Row
  <2>4. tokenRows' \in [Ops -> Row]
    BY <2>1, <2>3
  <2> QED
    BY <1>1, <2>4 DEF TokenTypes, Row
<1>3. Storing' /\ Presenting'
    BY <1>1 DEF Storing, Presenting, TokenTypes
<1>4. Locks' /\ Succession' /\ RotatedOnce'
    BY <1>1 DEF Locks, Presenting, Succession, RotatedOnce, TokenTypes
<1>5. Quiet'
    BY <1>1 DEF Quiet, Presenting
<1>6. Kept'
    BY <1>1 DEF Kept
<1> QED
    BY <1>2, <1>3, <1>4, <1>5, <1>6

-----------------------------------------------------------------------------
LEMMA TokensInductive == TokenInv /\ [TokensNext]_tokenVars => TokenInv'
<1> SUFFICES ASSUME TokenInv, [TokensNext]_tokenVars PROVE TokenInv'
    OBVIOUS
<1>1. CASE TokensNext
  <2>1. PICK q \in Ops :
            \/ \/ \E t \in Stored : Refresh(q, t) \/ Logout(q, t)
               \/ rotate(q) \/ rotateFails(q) \/ lookup(q) \/ issueInFamily(q)
               \/ revokeFamily(q) \/ revokeCustomer(q) \/ refuse(q)
            \/ create(q) \/ rotateCommit(q) \/ issueCommit(q)
            \/ revokeCommit(q)
            \/ expire(q) \/ graceEnds(q)
    BY <1>1 DEF TokensNext
  <2> QED
    BY <2>1, QuietSteps, StoringSteps, RevokingSteps, ClockSteps
<1>2. CASE UNCHANGED tokenVars
    BY <1>2 DEF tokenVars, TokenInv, TokenTypes, Storing, Presenting, Locks, Succession, RotatedOnce, Quiet, Kept
<1> QED
    BY <1>1, <1>2

LEMMA TokensInvariance == TokensSpec => []TokenInv
    BY TokensInitially, TokensInductive, PTL DEF TokensSpec

\* However many refreshes present one token at once, at most one of them
\* rotates it (refreshRepo.rotate's single UPDATE under the row lock).
THEOREM Rotation == TokensSpec => []RotatedOnce
<1>1. TokenInv => RotatedOnce
    BY DEF TokenInv
<1> QED
    BY <1>1, TokensInvariance, PTL

\* No failed or lost refresh ends a session: a family nobody revoked has an
\* unrevoked token (rotate's transaction).
THEOREM SessionSurvives == TokensSpec => []NeverStranded
<1>1. TokenInv => NeverStranded
  <2> SUFFICES ASSUME TokenInv, NEW f \in Ops \ closed, Family(f) # {}
               PROVE  unrevoked(Family(f)) # {}
    BY DEF NeverStranded
  <2>1. PICK t \in Family(f) : TRUE
    OBVIOUS
  <2>2. t \in Ops /\ tokenRows[t].family # 0 /\ tokenRows[t].family = f
    BY DEF Family, Stored
  <2>3. PICK u \in Ops : tokenRows[u].family = f /\ ~tokenRows[u].revoked
    BY <2>2 DEF TokenInv, Kept
  <2> QED
    BY <2>2, <2>3 DEF unrevoked, Family, Stored
<1> QED
    BY <1>1, TokensInvariance, PTL

\* A family revoked while no refresh of it was running never has a usable
\* token again (issueInFamily's EXISTS, rotate's WHERE).
THEOREM SessionStaysOver == TokensSpec => []ClosedStaysClosed
<1>1. TokenInv => ClosedStaysClosed
    BY DEF TokenInv, Quiet, ClosedStaysClosed, unrevoked, Family, Stored
<1> QED
    BY <1>1, TokensInvariance, PTL
=============================================================================
