# Verification of the Cozy shop backend

Cozy is the Go backend of a shoe shop: a JSON API for the mobile app, a
server-rendered site, an admin panel, background jobs, one PostgreSQL database
(READ COMMITTED), an object store for photos, a bank that calls back about card
payments, and an SMS provider that sends and checks login codes. One process
serves everything. This directory holds TLA+ models of its concurrent core, the
TLC configurations that check them, and TLAPS proofs of what matters most.

Contents: the inventory of the system, what is modelled and how it corresponds
to the code, the runs with their bounds, the proofs, what is not modelled, where
comments and code disagree, and the plan.

## 1. Inventory

| Part | State | Operations | Interacts with | What is hard | What makes it correct |
|---|---|---|---|---|---|
| Orders (`internal/orders`) | `orders`, `order_items`, `order_status_history`, reserved `stock` | place, cancel by customer, staff transitions, cancel unpaid | payments, notifications, stock, `product_sales` triggers | several ways to end an order racing each other | stock returned once; history a path; no goods without money |
| Payments (`internal/payments`) | `payments` (attempts), `orders.payment_status`, `refund_required` | open session, retry/QR, callback, abort, fail attempt, expire | bank (calls and callbacks), orders | late, repeated, contradictory callbacks; crash after commit; unlocked expiry scan | at most one attempt pays; no captured money forgotten; unpaid orders close |
| Checkout (`orders.createOrder`) | the rows above plus advisory locks | one transaction of ~12 statements | other checkouts, cancellations, imports, product forms, account deletion | unlocked reads, lock order, idempotency window | one order per key; cap; gapless numbers; no lost stock update; no deadlock |
| SMS login (`internal/auth`) | `otp_codes`, in-memory counters | request, verify, cleanup | SMS provider, account deletion | parallel guesses and sends, provider outage, restart | bounded guesses, one login per code, bounded sends |
| Refresh tokens (`internal/auth`) | `refresh_tokens` (families) | create, rotate, grace retry, reuse detection, logout, deletion | clients whose responses are lost | READ COMMITTED snapshots, partial failure | one successor per token; no session lost or revived |
| Staff (`internal/staff`) | `staff`, `staff_sessions`, login limiter | login, logout, update, reset password, bootstrap owner | admin panel | login racing a reset; last-owner rule | a reset ends every session; an owner remains |
| Broadcasts (`internal/broadcasts`) | `broadcasts` with a cursor | worker: next, batch, record, finish | push provider, device tokens | crash between sending and recording; repeated store errors | nobody skipped; queue never stuck |
| Notifications (`internal/notifications`, `notify`, `push`) | slots, in-flight jobs, device rows | dispatch, push, SMS, shutdown | orders, Telegram/SMS/FCM | drops at the limit, shutdown racing new jobs, what FCM's errors mean | slots come back; no job after shutdown; reachable devices stay |
| Server (`cmd/server`) | phase, background goroutines, pool | start, signal, drain, close | all jobs | order of waits under one deadline | nothing uses a closed pool; a stop ends |
| Report cache, report (`internal/reports`) | entries, flights, load slots | load, evict, aggregate | report queries | abandoned leader, shared result, groupings | every caller answered; nothing stale; sections add up |
| Rate limiter (`internal/httpmw`) | a bucket per client | allow, sweep | every request | cap, sweeping, late clocks | no early refill |
| Import (`internal/catalog`, `importguard`, `admin`) | products, variants, `stock`; slots, tokens | parse, plan, dry run, apply | forms, checkouts, other imports | lookups before writes, spelling, release on every path | rows as the file has them; only what was checked |
| Product form, stock page, API (`internal/admin`, `httpapi`) | the same tables, pages in browsers, the journal | render, edit, save, toggle, bulk | sales, other staff | stale pages, conflicts, a snapshot that fails | nobody's stock or override is overwritten; the journal tells what it can |
| Directory (`points`, `banner`, `media`, categories) | rows and objects in the bucket | save, upload, delete | products, stock | two systems without a transaction | no broken picture; no point deleted with goods |
| Lists and pages (`internal/catalog`, `web`, `httpapi`) | none | filter, sort, page, select | tables above | ties, bounds, three definitions of "in stock" | every match once where the order is total; pages agree |
| Cart and checkout pages (`internal/orders`, `web`) | `cart_items`, `delivery_zones`, addresses, forms in browsers | add, step, submit, retry, cancel; edit zones | checkout, payments | tabs and the app at once, resubmits, moving fees | a form places one order, at the price shown |
| Favourites, devices, audit, HTTP, i18n, config, health | rows of one owner, or none | CRUD, decode, render | | little | |

Components interact by direct calls inside one process, through the database
(row locks, advisory locks, triggers), and through the bank's and the
provider's HTTP interfaces. A stop of the process loses goroutines and memory;
everything committed stays.

## 2. What is modelled

Sources are relative to `src/internal`. `PROJECT.json` maps each definition to
its lines.

### Orders and payments: `OrderRules`, `OrderContract`, `OrderPayments`

`OrderRules` holds the pure decisions: the status machine
(`validStatusTransition`), who may cancel (`customerCanCancel`), when an order
takes another attempt (`PaymentRetryable`), when it may be confirmed
(`paymentAllowsConfirm`), and what a callback does to an attempt
(`transition...`, `lateSuccess`).

`OrderPayments` is the state machine. One action is one committed transaction:
each of them locks the order row first (`LockOrderTx`, `lockOrderTx`), so
transactions on one order serialise. What happens after a commit (asking the
bank for a session, compensating when that fails, telling the staff, handling
the next order of an expiry pass) is an action of its own, and `Crash` may come
between. State and code:

| Variable | Code |
|---|---|
| `orders`, `refunds`, `history` | `orders` rows, `refund_required`, `order_status_history` |
| `attempts`, `payments`, `linked` | `payments` rows: their number, `status`, whether `provider_tx_id` is stored |
| `opener` | the request goroutine between `CreateOnlineOrder`/`PrepareRetryPayment` and the end of `openSession`, `abort`, `failAttempt` |
| `ripe`, `batch` | `unpaidExpiredCond`'s clock; ids an `ExpirePending` pass selected |
| `stock`, `adjusted` | `stock.quantity`; ghost: what staff changed |
| `announcing`, `announced` | `notifyCreated` / `NotifyOrderPaid` pending and done |
| `bank`, `acked` | external: what the bank did with the money; ghost: "paid" callbacks answered 200 |

Actions keep the code's names: `PlaceOrder`, `CreateOnlineOrder`,
`PrepareRetryPayment`, `openSession`, `openSessionFails`, `abort`,
`failAttempt`, `compensationFails`, `HandleCallback`, `notifyCreated`,
`CancelByCustomer`, `AdminUpdateStatus`, `Upsert`, `ExpirePending`,
`expireOne`. The bank may capture money on any session it knows, at any time,
for the right or another amount, and may report anything it could once have
known, again and again and in any order.

`OrderContract` is the promise without attempts, callbacks, jobs and crashes:
goods reserved once and delivered or returned once, leaving only for cash or
taken money, money taken once while goods are reserved, a refund owed whenever
paid goods come back. `OrderPayments!Contract` is the refinement mapping.

### Checkout: `Checkout`

Opens `createOrder` up: a request is a list of locks it still has to take
(`plan`), the locks it holds until it ends (`held`) and what each statement
reads when its lock is granted. Requests: a checkout, a cancellation, an
`abort` (which also frees the key), a catalog import, a product form save, an
account deletion. Any statement may fail; the database fails one member of a
wait cycle. A row waits only for running transactions, which is what READ
COMMITTED does. Each customer has one saved address (`saved`): a checkout is a
pickup or a delivery to it, and the deletion of the account removes it unless an
order refers to it (`addressReferenced`), after which a delivery fails, at the
check or at the INSERT's foreign key (`addressIsThere`). The unlocked parts stay unlocked: `pickFulfillmentPoint` reads
the shelves before the row locks, and the form carries quantities from when it
was rendered.

### SMS login: `OtpLogin`

Each statement of `RequestOTP` and `VerifyOTP` is an action on a request's
`job`: `reserve` (under the per-phone advisory lock) and `insertRow`,
`SendCode`, `setToken` or `burn`; `latestActive`, `takeAttempt`, `verifyCode`,
`consume`, `issueTokenPair`. A row's age is one of five stages (cooldown,
validity, hour, day, older). `Restart` loses the requests and the in-memory
counters; cleanup and account deletion remove rows.

### Refresh tokens: `RefreshTokens`

One UPDATE is split into the moment it starts (its snapshot) and the moment it
has its row locks, because that gap is what the code relies on or overlooks:
`rotate`/`rotateCommit`, `lookup`, `issueInFamily`/`issueCommit`,
`revokeFamily`/`revokeCommit`, `revokeCustomer`. Any request may present any
token ever stored.

### Staff: `StaffAccounts`

A request asks one thing (`in`): a login, a logout, creating, editing, toggling
or resetting an account, or the `create-owner` command; admin requests pass the
role gate (`getActiveByHash`, `RequireRole`) first, in two reads. `Repo.Update`
is opened up: `lockStaff` (FOR UPDATE of the target), `otherOwners` (the
snapshot of `countOtherActiveOwners`), `lockOwner` one row at a time with
PostgreSQL's re-check, then `lastOwner` or `enoughOwners`, `Update`, and outside
the transaction `revokeAllForStaff`. The login limiter is `attempts` per number
and address, with windows that may end at any moment; `compare` uses the row
`GetByPhone` read and `createSession` waits for a FOR UPDATE of the account.
`fails` ends a request anywhere: error, cancelled context, deadlock victim,
stopped process. A password is the number of the request that set it; a number
may be stored normalized or in a legacy spelling, which the unique constraint
tells apart and the lookup does not.

### Broadcasts: `BroadcastWorker`

The admin form (`idByToken`, `Create` with ON CONFLICT) and the one worker
(`pc`, `job`): `NextPending`, `MarkSending`, `NextTargets`, `Send` per device,
`RecordBatch`, `Finish`. A statement may fail, also after it took effect
(`storeError`), and repeated errors give up on the broadcast. `Shutdown` cancels
the context: the batch in flight is finished and recorded, everything else
fails. `Crash` loses the batch. Devices join and leave the audience, and tokens
that prove invalid are deleted with the record. `Nudge` is not a variable: the
ticker may fire at any moment, so the signal adds no behaviour. `pushes` counts
attempts to send; whether the provider delivers is not known to the code.

### Services: `ReportCache`, `SalesReport`, `RequestLimiter`, `Dispatcher`, `ServerLife`

`ReportCache`: a reader asks for its keys in turn (`load`), starts or joins the
flight of a key (`DoChan`), and receives its result or gives up at any moment; a
flight looks the key up again, waits for a load slot, queries and stores
(`flightLookup`, `flightSlot`, `query`, `flightDone`), and is abandoned when its
leader gave up before it had a slot (`errLoadAbandoned`). Entries expire by the
shorter or longer time to live; the ones closest to their deadline make room.
Rows are the moment they were read and the
point names they were read with. `SalesReport` has the SQL's groupings as
operators over sets of orders beside `AggregateSales`, the Go reference the
repository's own tests use. `RequestLimiter` is the bucket map with its sweep
and cap; a request reads the clock before it waits for the mutex (at most
`LimiterLag` ticks), so it may be charged in the past. Dropping a bucket that has
refilled "loses nothing" (`ratelimit.go`) only up to that wait: a late request may
start the client's next bucket in the past. The history variable `forgiven` counts
what sweeps have given a client that way. `Dispatcher` has the slots, the panics, and a job's sends:
to the staff chat, to each device with FCM's answers classified by
`isInvalidTokenError`, and the SMS as a last resort. `ServerLife` extends it
with the process: requests that notify, the expiry and cleanup passes, the
broadcast batch, the signal or a failed listener, the deadline, and the order in
which `run` waits for each and closes the pool.

### Catalogue: `CatalogTables`, `ImportPlan`, `CatalogImport`, `ProductForm`, `ShopDirectory`, `CatalogList`

`CatalogTables` is the tables as one value `shop`, with the constraints the
writes meet; a text is a word and a spelling, because lookups fold case and
unique keys do not. `ImportPlan` is the file as data: headers, blank cells,
numbers with their rounding, rows grouped into models, base price and
overrides. `CatalogImport` runs plans: guard, slot, dry run with its signed
token, then model by model `Find` and `Write`, with another run, a closed point,
the clock or a restart between any two. `ProductForm` keeps an open page with
the values it was rendered from. Its save is two steps: `submitProduct` parses,
opens the transaction and takes the journal's snapshot (`SnapshotTx`: two reads on
a savepoint, of which either may fail or the second break off); `saveProduct`
locks, writes with compare-and-set cells, journals and commits, or brings the
conflict page. Others may write between the two, since nothing is locked before. The API's requests
(`updateProduct`, `createVariant`, `updateVariant`, ...) write every column of
their row, so an open page can be stale in each of them.
`ShopDirectory` splits each save at the boundary between bucket and database.
`CatalogList` enumerates queries over sets of tables: the three lists, their
facets, the product page and the quick-buy window. Two products are created at
one instant: the lists of the shop and the API break that tie by id
(`listOrderBy`), the panel's does not, so each of its queries may bring them in
either order (`adminOrders`).

### Cart to order: `ShopCart`

The cart row by row, zones, prices and addresses, forms with their keys, and
requests that read first and write later (`listCart`, `addCheck`/`addUpsert`,
`cartAdjustQty`, `zoneGet`/`zoneWrite`); createOrder is `openOrder` (the
customer's lock, the key, address and zone), `loadVariantSnapshots` and
`insertOrder` (fee, total, row, cleared cart lines), after which a session is
opened or `abortOrder` gives the key back. Any of these steps may fail
(`requestFails`), and so may the lookup of the placed order by a submit that finds
the cart empty: `findOrderByCheckoutKey` swallows the error, and the submit is
answered empty_cart (`err` in the request tells the two apart). Pages (`checkoutForm`,
`buildPayReturnData`) are what the customer was shown. `fresh` in an order is
history: nobody had changed anything since its page was rendered.

## 3. Runs

| Run | Instance | Shows |
|---|---|---|
| `payment_attempts` | 1 order that takes the whole shelf, staff edits of it, 2 attempts, 1 crash, fair | the money, goods and announcement invariants of one order, that `OrderPayments` implements `OrderContract`, that an abandoned order closes and that captured money is booked or flagged |
| `checkouts` | 3 requests, 2 customers; either double submits under one key with cancels and aborts, or a crowd at 2 points, 2 variants and 2 products in crossed order, or a delivery and a pickup while both accounts are deleted; fair | one order per key, the cap, gapless numbers; stock and sales exact, no deadlock among customer requests, every request answered |
| `otp_logins` | 3 requests, 2 phones, limits 1 and 2 | guesses and sends bounded, one login per code, review guard |
| `token_families` | 5 requests | one successor, no session lost, none revived |
| `staff_accounts` | 3 requests, either on 2 owners' accounts (logins, demotions, toggles, resets) or creating accounts, limits 1 and 2 | an owner remains, numbers unique, reset passwords stay, sessions end with the password, guesses bounded |
| `broadcasts` | one form submitted twice or two forms, 2 devices, batches of 1, 2 errors give up, fair | one broadcast per form, nobody skipped, repeats only after a lost record, counters exact, every broadcast ends |
| `services` | six scenes: 3 readers that give up; 2 readers with a clock and a renaming; 2 sales; 2 clients; pushes to 2 devices; a stop with 2 requests and an expiry pass; fair | served rows are fresh and refusals have a cause, sections of the report add up, no bucket refills early, reachable devices stay, a stop is clean and ends, readers are answered |
| `catalog` | eight scenes: 2 imports side by side; the import screen; 1 page edited twice; 2 pages; pictures; points; lists over 128 shelves; a cart with 2 requests and a resubmit | rows as the file has them, guarded imports, forms that overwrite nobody's stock or override, a journal that tells what its snapshot knew, stored pictures, complete lists, agreeing pages, checkout as shown |
| `decline_comment`, `deletion_comment`, `revoke_comment`, `point_delete` | small | what a comment says and the code does not (section 6) |

Bounds, and why they are enough:

* Orders do not read each other's rows; they meet only at stock rows. So one
  order explores payments fully, with staff edits of the shelf it empties, and
  `checkouts` explores several at one shelf. Two attempts suffice for
  "older closed, newer open", the only relation between attempts the code
  looks at; the proofs remove this bound.
* `MaxCrashes = 1`: a crash only empties volatile state, so a second one adds
  nothing that a crash at another moment does not show. `ExpiryBatch = 1`
  forces a pass per order.
* Three checkouts contain a double submit with an interfering third, and wait
  cycles of two and three, the longest three requests can close; `inCycle` and the
  theorem about it speak of any length. Variants and products are numbered in opposite orders on purpose, so
  that sorting by the wrong one deadlocks.
* OTP limits of 1 and 2 are reached by three requests, so the boundary is hit.
* Five token requests allow a login, two racing refreshes, a late retry and a
  logout; the theorems remove the bound.
* Three staff requests: two owners acting on each other and a third request in
  between. The requests are chosen in two groups (the owners' accounts; new
  accounts), with `create-owner` in both, so that the combinations stay
  checkable. Limits of 1 (number) and 2 (address), one window that ends and one
  session that expires reach each boundary; the theorems remove the bounds.
* Broadcasts: two devices in batches of one give a broadcast a first, a second
  and an empty batch; two faults are what giving up needs; one shutdown or crash;
  one device that moves. The worker is one goroutine, so only the submits race.

* Services: three readers are a leader, a follower and one that comes after the
  leader has left; one load slot and two entries make both limits bind. A clock
  of three or four ticks outlives every time to live and window. Two sales give
  every grouping a shared and a separate key; the amounts differ so that a lost
  line shows. One slot and three events make the dispatcher drop.
* Catalogue: two models' worth of rows in each file hold a new and a stored
  model, two spellings, an override, a SKU that moves. Two editors, one page
  edited twice or two edited once; two savers. One variant under the pages is
  enough for a snapshot that is whole, broken off or missing. Lists of three products with pages
  of one have a first, a middle and a last page, and a page beyond; two of the
  products share their instant.
* Cart: two variants and two zones (one free from a threshold), a cap of two,
  one change by staff or another tab between a page and its submit, two requests
  at a time and one more submit once an order exists, which is a resubmit after
  the cart was emptied, refilled or the order aborted.

The scenes of `services`, `catalog` and `checkouts` are disjoint: the initial
state chooses one (`part`), and the constraints of a scene are next-state
conjuncts of the MC module, named and stated there. They cut combinations of
independent parts, never a step inside one.

`CHECK_DEADLOCK FALSE` is set where the system may stop: every order ended, or
every request of the instance was answered. Deadlock of the database is a
property of its own (`NoShopDeadlock`, `RequestsEnd`).

Fairness. `payment_attempts` (`FairSpec`): time passes and the expiry goroutine keeps
ticking (`RunPendingExpiry`), handling every id it selected; the bank repeats a
"paid" callback until it is answered with 200. Nothing is assumed about
customers, staff, sessions or compensations. `checkouts`: a granted lock is
eventually used (PostgreSQL queues waiters, hence strong fairness of a
request's next step) and wait cycles are detected. `broadcasts`: the worker
goroutine keeps taking steps (its ticker never stops) and a server that was shut
down is started again. `services`: a running query, job, handler or pass ends
(each has a timeout) and so do the waits of `run`; readers are scheduled. Failures
are never fair.

Every property has a mutant: a definition with a plausible slip of the code
(a dropped re-check, an off-by-one, a missing rollback), written above the
definition it replaces, which makes TLC find the property violated.

## 4. Proofs

The theorems hold for every value of the constants that satisfies the named
assumptions of the modules. The runs check the same properties on small
instances; a proof removes the bounds of section 3.

Assumptions. Counts and limits are naturals, positive where the code refuses
zero; the sets that a sum or a count ranges over (orders, requests, devices,
variants) are finite; request ids, device ids, points and variants are numbered
as the database numbers them, since the code sorts or compares by id; `NoPoint`
is no point; inputs have the fields the handlers parse; for staff,
`create-owner` has run (there is an active owner), no number was stored in two
spellings before, and an address is no phone number; for the request limiter,
the proxy's own address and an unparsable header entry are no subscriber's
address. A read spreadsheet is a sequence of records, and a basket a sequence of
lines with a positive quantity of a known product. An import starts from tables
that keep the schema (`TablesSound`: rows have their columns, a variant refers to
a stored product); the pictures from a bucket that holds what the rows name
(`PhotosStored`), and a new key, a random UUID in the code, is the name of none of them
(`DirectoryAssumption`). Cart requests carry what their handlers have validated
(`InputsAssumption`), prices, fees and thresholds are not negative, and `""` names
no key, zone or address. Nothing is assumed about scheduling: all theorems are
about safety.

| Module | Theorems | States |
|---|---|---|
| `OrderPaymentsProofs` | `TypeCorrect`, `OpenAttempt`, `OnePayment`, `NoMoneyNoGoods`, `NoMoneyLost`, `CancelSparesPaid`, `GoodsConserved`, `ToldOnce`, `Refinement` | the invariants of `payment_attempts`, and that `OrderPayments` implements `OrderContract` |
| `CheckoutProofs` | `DoubleSubmitsSettle`, `NothingOversold`, `CustomersNeverDeadlock` | the invariants of `checkouts` |
| `SignInProofs` | `OneLoginPerCode`, `MessagesCapped`, `TrippedGuardStaysShut`; `Rotation`, `SessionSurvives`, `SessionStaysOver` | the properties of `otp_logins` and of `token_families` |
| `StaffAccountsProofs` | `OwnerRemains`, `NumberIsUnique`, `AccountsAreSound`, `PasswordStays`, `SessionsFollow`, `GuessesAreBounded` | the properties of `staff_accounts` |
| `BroadcastWorkerProofs` | `NobodySkipped`, `RepeatsExplained` | the invariants of `broadcasts` |
| `ServicesProofs` | `StopsClean`, `ReachableStay`, `NothingRefillsEarly`, `ReportsFresh`, `ReportIsTheReference` | the invariants of `services` |
| `CatalogProofs` | `ImportsAreGuarded`, `ImportsWriteTheirRows`, `NoBrokenPictures`, `CheckoutKeepsItsWord` | `ImportGuarded`, `RowsAsWritten`, `PicturesStored` and `CheckoutAsShown` of `catalog` |
| `FiniteLemmas` | lemmas only | finite sets: least and largest members, ascending orders, sums |

Each module states an inductive invariant for each state machine it is about
(`IInv` where there is one) as a conjunction of named parts, proves that every
action keeps it, and derives the theorems from it.

`FiniteLemmas`. `SumFunctionOnSet` adds in an order fixed by CHOOSE; the lemmas
say that the order does not matter, what adding or changing one summand does,
that a sum may be cut into groups (`SumFibres`), renamed by a bijection or split
into two, that a finite set has a member where a function is largest and that n
different ranks below n are all of them. The library's
induction theorems cannot be instantiated by the provers at hand, so every
induction here takes a least counterexample, which the well-foundedness of `<`
provides (`NatLeast`, `LeastSet`).

`OrderPaymentsProofs`. `TypeCorrect` is inductive by itself; its content is
that no shelf goes negative and attempts stay in bounds. Most others share
`IInv == TypeOK /\ \A o : Safe(o)`, with three parts:

* `Consistent(order, rows, n)` relates an order row to its payments rows: rows
  exist exactly up to `n`, only row `n` may be pending and then the order is
  open and pending, at most one row is recorded as paid and the order row agrees
  with it, a shipped online order has one. None of the listed properties is
  inductive without it: that a late "paid" is booked only once needs "recorded
  row implies order says paid", which needs "pending row is the latest", which
  needs "a retry closes what was open".
* `Money(o, k)`: linked or opening attempts exist; a recorded attempt was
  captured for the exact amount; an acknowledged one is accounted for.
* `Ended(o)`: what a cancellation row in the history says about the order, and
  that a cancelled paid order is flagged.

There is a lemma per kind of transaction (what it does to `Consistent`, as a
statement about one row; then to `Safe`), and `SafeStep` splits `Next` into
them. `ShopInv` adds `Told(o)` (an announcement is made or about to be made
at most once, and for an online order only with its money booked) and the balance of every shelf: the initial
stock plus what staff adjusted is on the shelf or held by an order. `held` is a
sum over all orders, so each transaction is shown to change the shelf by what it
changes in the one order it writes (`TransactsConserves`).
`Refinement`: every transaction is one step of `OrderContract` or leaves its
three variables alone; `IInv` rules out the transactions the contract would not
allow (cancelling a paid order without a flag, booking money on returned goods).

`CheckoutProofs`. The invariant is what a transaction may rely on because of the
locks it holds: a lock has one holder (`Exclusive`); what it will write it has
locked or will lock (`Covers`), a customer's request in one global order
(`Ordered`); what it read under a lock is still true (`CheckoutReads`,
`CancelReads`, `FormReads`). That gives one order per key and the cap from the
customer's lock, gapless numbers from the number lock, exact stock from the row
locks. `CustomersNeverDeadlock` is about cycles of any length (`inCycle` is a
function from `1..n` to waiting requests, each of which waits for the next and the
last for the first). It needs no search for them: everybody in a cycle waits for
somebody in it (`CycleRuns`); among its members one would wait for the last lock
in the order, and whoever holds it waits for a later one (`WaitsRise`,
`FiniteMax`).

`SignInProofs`, codes. A row pays in `tries` for every comparison that is out or over
(`Attempts`), who got past `consume` has used the row (`Spending`), and what
`reserve` counted under the phone's lock is still true when the row is inserted
(`Reserving`, `Capped`, `Remembered`).

`SignInProofs`, sessions. A token is stored only by a finished request (`Storing`),
requests work on stored tokens (`Presenting`), a rotation holds an unrevoked row
alone (`Locks`), a rotated token is revoked (`Succession`), and no running
refresh works in a family that was revoked while quiet (`Quiet`).

`StaffAccountsProofs`. Where a request can hold locks, and that it holds its
target from `lockStaff` on (`Holding`); its copy of the row is then the row
itself (which gives `PasswordStays`); an owner it has counted is still one and
locked by it (`Counting`: whoever writes a demotion leaves that owner, and two
who demote each other cannot both have counted); a number about to be inserted
is stored in no legacy spelling (`Spelling`). `SessionInv` ties sessions to the
password they were opened with. `LoginInv` is a budget: wrong passwords, plus
the admitted attempts that have not compared yet (`InFlight`), never exceed what
the counter has charged.

`BroadcastWorkerProofs`. Up to the stored cursor everybody who stayed in the
audience was tried (`Covered`), and at most once more often than records were
lost; beyond it only what the batch in the worker's hands has sent is not paid
for by a loss (`Repeats`).

`ServicesProofs`, one invariant per service:

* `ServerInv`: what `run` has stopped is stopped, in order; jobs hold slots; a
  device a job is through with and did not reach failed for now or lost the app
  (`Honest`).
* `LimiterInv`: a bucket's debt is `last - tokens`. A charge never lowers it,
  an admission raises it by one and leaves it no later than the arrival, so the
  debt counts the admissions of every window of arrivals (`Window`). A sweep
  forgets the debt; the bucket it drops was idle for as long as filling takes, as
  far as the sweeping request's clock tells. The attempt to prove the first version of
  `NoEarlyRefill`, which allowed for the wait at the mutex once, failed for
  that reason: a request that waited can start a new bucket in the past after each
  sweep (TLC shows it with a burst of 2 and 5 ticks). The property now counts the
  sweeps that dropped a client (`forgiven`), twice the wait for each.
* `CacheInv`: rows are as old as their query, a query as old as its slot, an
  entry was stored a time to live before it expires; whoever waits for a flight
  still wants its key, and its leader waits too or gave up, so the point names the query
  uses are the key's (`Entry`, `Flight`, `Crew`, `Mail`).
* `BookShape` is all the report needs of its orders. The rest is arithmetic: the
  groups of a query merge into the groups of its mapped keys (`ByOrder`, also when two points
  share a name), the lines of the sales are the lines of each sale
  (`GoodsOfLines`), every grouping of one set of lines has the same total (`ByItem`,
  `OrderRows`), and a ranking gives every key another place, so that whatever is
  cut off has more better keys than the list has places (`RankedUnbeaten`).

`CatalogProofs`, three state machines:

* Imports. `ImportInv`: the slots taken are those of the running imports
  (`Slots`), a signed token was earned by a check (`TokensEarned`), and a real run
  has one for its own file, point and member, young enough when it began (`Vetted`).
  For the rows, `RunInv` adds that the tables keep the schema and that a request on
  its way has planned models and an existing or new product (`Ready`); the transaction of a
  model is a loop over its rows, and `RowsIn` is its loop invariant: after n rows,
  each of them is as the file has it or its variant was taken over by a later
  one, and nothing else has changed (`RowStep`, by a least counterexample over n).
* Pictures. A save works in steps between bucket and tables, so what is in the
  bucket must be known for the saves, too: `AllStored` says it of the rows, of
  the rows a save is going to write back and of its own uploads. Removing an old
  picture is safe because the uploads of a save are named by no row and by no other save
  (`OwnUploads`), which needs that keys are handed out once (`KeysKnown`).
* Cart. One `createOrder` at a time holds the customer's lock (`OneTransaction`);
  inside it there is still no order with the form's key, and what it has read is
  what the page was made from unless something was edited since (`ReadUnedited`,
  `PagesCurrent`). So a key has one order (`OneOrderPerKey`), which has the
  totals its page showed (`OrderOk`). A submit is told empty_cart without a failed
  lookup only if no order has its key at that moment, and later only new orders,
  which it has not known, are given one (`EmptyStep`).

Other properties that proving made sharper: `RepeatsOnlyAfterLoss` now bounds the
repeats of each device by the lost records of its broadcast, and
`StockFollowsOrders` says that no shelf goes negative.

Only model-checked: what needs fairness (`OrdersSettle`, `RequestsEnd`,
`BroadcastsEnd`, `ReadersAnswered`, `ServerStops`), which is out of the prover's
reach; `ListingComplete` and `PagesAgree`, which compare a listing with the walk
over its pages (induction over data); `FormGuardsStockAndOverrides`
and `JournalTellsSave`, where a save folds its writes over sequences with `FoldLeft`:
it takes its step as an operator, and no prover here can instantiate such a
parameter.

## 5. What is not modelled

Listed with its reason in `PROJECT.json`. In short: order screens of the panel,
templates, translations and configuration keep no state that interleaves; JWTs
are stateless; favourites, devices and addresses are single-statement writes on
one customer's rows. Inside the modelled parts these are abstracted: names and
messages, the callback's signature and JSON, spreadsheets' bytes, image scaling,
search ranking, the wording of errors. `OrderPayments` has no prices (an attempt
is captured for the exact amount or another one); `ShopCart` has. Timestamps are
stages or ticks. Attempts of an order are numbered by commit, while the code
orders them by `created_at`, the start of the transaction; two retries
contending for one order may differ there. A checkout page and a product list are
read at one moment, although the code reads them in several statements.

## 6. Where comments and code disagree

1. `payments/service.go` (`transition`): failed and cancelled attempts "both
   already cancelled the order; nothing to reconcile". A decline leaves the
   order open, so a customer who is declined and then cancels at the bank keeps
   the goods reserved until the expiry job (run `decline_comment`).
2. `auth/account_repo.go`: the deletion is "row-locked, so it can't race a
   concurrent checkout". A checkout waits for that lock at its foreign key and
   then commits an open order for the anonymized account (`deletion_comment`). The
   run shows a pickup; a delivery to an address that only earlier orders keep would
   do the same, while one to any other address fails, since the deletion removes it.
3. `auth/refresh_repo.go`: `revokeFamily` "revokes every still-active token of
   the family". A token stored by a refresh that was running when the UPDATE
   started stays active (`revoke_comment`); `SessionStaysOver` is what does
   hold.

4. `points/points.go` (`Delete`): a "point that still holds goods (quantity > 0)
   is refused here explicitly". The check and the DELETE are two statements
   without a transaction, and the cascade takes goods that arrive in between
   (`point_delete`).

Without a run, from modelling:

* `web/product_actions.go`: "a second click must not turn into two pairs", but
  `ensureInCart` lists and then adds; two clicks at once make two. The stepper
  of the cart loses a step the same way.
* `payments/service.go` (`abort`): the key is released "so the client's retry with
  the same key places a fresh order"; on the site the cart was cleared with the
  aborted order, so the retry finds it empty.
* `web/checkout_handlers.go`: the fee is charged "exactly as the page previewed
  it"; only while nobody edits a zone or a price in between
  (`CheckoutAsShown` says so). Lines raised between the submit's read of the
  cart and the commit leave the cart unordered.
* `storefront/addresses.go`: two creations of a default address at once leave two
  defaults; no index forbids it.
* `productToggleActive`, the points page and the delivery page write a flag or a
  row they read before: the later of two clicks wins.
* `web/checkout_handlers.go` (`findOrderByCheckoutKey`): a submit that is repeated
  after the cart was emptied is sent to its order, but an error of that lookup is
  only logged, and the customer is told that the cart is empty
  (`CheckoutAsShown` excludes it).
* `catalog/product.go` (`ListForAdmin`): the panel's list is ordered by created_at
  alone, where the shop's adds the id "for a stable order across pages". Products
  of one instant, which a bulk load in one transaction gives, may show twice or not
  at all to a member who pages through; `ListingComplete` says for the panel what
  is left: as many of every instant as there are.
* A product form guards stock cells and overrides against writes made since it was
  opened. Category, name, brand, base price, photos, sizes and colors are written
  as the page shows them, edited or not, so an old page undoes an API change of
  them (`FormGuardsStockAndOverrides` states both halves).
* The journal of a form's save needs a snapshot that is read before the rows are
  locked and may fail on its own savepoint (`SnapshotTx`). Without it the deleted and
  changed variants are not told; an older one does not tell that the save undid
  what somebody wrote in between; one that broke off tells old variants as new.
* A product form deletes the variants it does not list, also one another member
  added after it was opened, with its stock; two imports at once of a model
  without an article create it twice; an override of 0 and none look alike in the
  form.
* A notification of the expiry pass that commits after `notifier.Shutdown` is lost;
  status pushes of one order may overtake each other.
* The product page counts a closed point's goods where the list does not
  (`PagesAgree` excludes it).

Also without a run: `config/security.go` calls `OTP_MAX_PER_DAY` "a hard ceiling on
SMS spend", but `reserve` counts the day's rows under the lock of one phone
only, so requests for different phones that are in flight together can exceed
it by their number. Two limits are soft in the same way: the codes an address
may request in an hour, and the wrong codes it may try (`verifyFails` is checked
when a verification starts and charged when it ends). Account deletion removes
the phone's `otp_codes` and with them its cooldown; `SendsCapped` excludes it.
`staffToggle` submits the role it listed a moment ago, so a toggle can undo a role
change made meanwhile (never the last owner's). A second capture on one bank
session cannot be told from a repeated callback.

## 7. Plan

Done, in this order: `OrderRules`, `OrderContract`, `OrderPayments`; `Checkout`;
`OtpLogin`; `RefreshTokens`; `StaffAccounts`; `BroadcastWorker`; the services; the
catalogue; `ShopCart`; the proofs of section 4.

Theorems to add: `FormGuardsStockAndOverrides` and `JournalTellsSave`, once `Save` writes its
rows by recursive functions as `importRows` does; then `AsWritten`'s counterpart for
the form is again a loop invariant over the rows.

Models to add: `created_at` of attempts as a value of its own; account deletion's
remaining tables; the order screens' bulk actions, once they do more than call the
per-order transactions.
