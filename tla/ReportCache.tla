---------------------------- MODULE ReportCache ----------------------------
(***************************************************************************)
(* The sales report page, the JSON and Excel exports, and the cache they   *)
(* share (internal/reports/cache.go): entries with a deadline, one flight  *)
(* per key for concurrent misses, a few load slots.  A reader's context    *)
(* may end at any moment; a flight outlives the reader that started it.    *)
(* Rows are abstracted to the moment the query read the database and the   *)
(* point names it was given.  Time is counted in ticks, DayTicks a day.    *)
(***************************************************************************)
EXTENDS Integers, Sequences, FiniteSets, FiniteSetsExt

CONSTANTS Readers,          \* requests for a report
          CacheQueries,     \* bound: the queries the instance keeps apart
          CacheTTL,         \* how long a closed range is kept
          OpenCacheTTL,     \* how long a range that reaches now is kept
          CacheLoadTimeout, \* longest a query runs
          CacheMaxEntries,
          CacheMaxLoads,    \* load slots
          DayTicks,
          CacheHorizon,     \* bound: the last tick
          Renames           \* bound: how often a point is renamed

ASSUME CacheAssumption ==
    /\ {CacheTTL, OpenCacheTTL, CacheLoadTimeout, CacheMaxEntries,
        CacheMaxLoads, DayTicks} \subseteq Nat \ {0}
    /\ OpenCacheTTL <= CacheTTL
    /\ CacheQueries \subseteq
          {"day", "product", "brand", "category", "names", "point"}

VARIABLES clock,       \* now
          pointNames,  \* version of points_of_sale.name
          entries,     \* CachedRepo.entries: key -> rows and deadline
          flights,     \* singleflight.Group: key -> the flight in progress
          reader,      \* each request: step, queries left, range, names read
          inbox,       \* what a flight sent to a waiting reader
          ctxDone,     \* readers whose context has ended
          failedKeys   \* ghost: keys whose query failed or panicked

cacheVars == <<clock, pointNames, entries, flights, reader, inbox, ctxDone,
               failedKeys>>

NoRows == [at |-> -1, names |-> -1, when |-> -1]
Idle == [pc |-> "idle", todo |-> <<>>, to |-> 0, names |-> 0, got |-> NoRows]

CacheInit ==
    /\ clock = 0 /\ pointNames = 0
    /\ entries = <<>> /\ flights = <<>>
    /\ reader = [r \in Readers |-> Idle]
    /\ inbox = <<>>
    /\ ctxDone = {} /\ failedKeys = {}

-----------------------------------------------------------------------------
(* Which queries a request makes, over which range.                        *)

EndOfDay == (clock \div DayTicks + 1) * DayTicks

(* The page's range ends today, unless it is last month or a custom range  *)
(* that ends earlier; a custom range that is refused falls back to a week. *)
reportRange(period, to) ==
    CASE period = "prev_month" -> 0
      [] period = "custom" /\ to <= EndOfDay -> to
      [] OTHER -> EndOfDay

(* The page asks for every grouping in turn, point names before the last.  *)
buildReportsData ==
    SelectSeq(<<"day", "product", "brand", "category", "names", "point">>,
              LAMBDA q : q \in CacheQueries)

(* An export asks for one grouping.                                        *)
loadSalesRows(by) == IF by = "point" THEN <<"names", by>> ELSE <<by>>

Begin(r, todo, to) ==
    /\ reader[r].pc = "idle"
    /\ reader' = [reader EXCEPT ![r].pc = "load", ![r].todo = todo, ![r].to = to]
    /\ UNCHANGED <<clock, pointNames, entries, flights, inbox, ctxDone, failedKeys>>

reportsPage(r) ==
    \E period \in {"week", "month", "prev_month", "custom"}, to \in {0, EndOfDay} :
        Begin(r, buildReportsData, reportRange(period, to))

salesReport(r) ==
    \E by \in {"day", "product", "point", "category"} \cap CacheQueries, to \in {0, EndOfDay} : Begin(r, loadSalesRows(by), to)

-----------------------------------------------------------------------------
(* Looking up, storing and evicting.                                       *)

(* A key is the query with every argument that shapes its rows.            *)
cacheKey(r) ==
    LET q == Head(reader[r].todo)
    IN  [q |-> q, to |-> reader[r].to,
         names |-> IF q = "point" THEN reader[r].names ELSE 0]

lookup(k) == k \in DOMAIN entries /\ clock < entries[k].expires

\* Mutant: a range keeps the long deadline while it still grows.
ttlMut(k) == CacheTTL

ttl(k) == IF k.to > clock THEN OpenCacheTTL ELSE CacheTTL

(* Expired entries go first, then the ones closest to their deadline.      *)
makeRoom ==
    LET live == {k \in DOMAIN entries : clock < entries[k].expires}
        over == Cardinality(live) - (CacheMaxEntries - 1)
        older(k) == {j \in live : entries[j].expires < entries[k].expires}
    IN  IF Cardinality(DOMAIN entries) < CacheMaxEntries THEN {DOMAIN entries}
        ELSE {S \in SUBSET live :
                 /\ Cardinality(live \ S) = Max({over, 0})
                 /\ \A k \in live \ S : older(k) \cap S = {}}

store(k, rows) ==
    \E kept \in IF k \in DOMAIN entries THEN {DOMAIN entries} ELSE makeRoom :
        entries' = [j \in kept \cup {k} |->
                      IF j = k THEN [rows |-> rows, expires |-> clock + ttl(k)]
                      ELSE entries[j]]

-----------------------------------------------------------------------------
(* load: one request's loop over its queries.                              *)

(* An error ends the request.                                              *)
Answer(r, outcome) ==
    reader' = [reader EXCEPT ![r].pc = outcome, ![r].todo = <<>>, ![r].got = NoRows]

(* The rows of the query at the head; the last query ends the request.     *)
Serve(r, rows) ==
    LET rest == Tail(reader[r].todo)
    IN  reader' = [reader EXCEPT ![r].todo = IF rest = <<>> THEN reader[r].todo ELSE rest,
                                 ![r].pc = IF rest = <<>> THEN "served" ELSE "load",
                                 ![r].got = rows]

(* PointNames is read from the database each time, uncached.               *)
PointNames(r) ==
    /\ reader[r].pc = "load" /\ Head(reader[r].todo) = "names"
    /\ \/ /\ r \notin ctxDone
          /\ reader' = [reader EXCEPT ![r].todo = Tail(@), ![r].names = pointNames]
       \/ r \in ctxDone /\ Answer(r, "error")
    /\ UNCHANGED <<clock, pointNames, entries, flights, inbox, ctxDone, failedKeys>>

(* A pass of the loop: an ended context, a hit, or a miss.                  *)
load(r) ==
    /\ reader[r].pc = "load" /\ Head(reader[r].todo) # "names"
    /\ LET k == cacheKey(r) IN
       \/ r \in ctxDone /\ Answer(r, "error")
       \/ r \notin ctxDone /\ lookup(k) /\ Serve(r, [entries[k].rows EXCEPT !.when = clock])
       \/ /\ r \notin ctxDone /\ ~lookup(k)
          /\ reader' = [reader EXCEPT ![r].pc = "miss"]
    /\ UNCHANGED <<clock, pointNames, entries, flights, inbox, ctxDone, failedKeys>>

(* DoChan: lead a new flight or join the one in progress.                  *)
DoChan(r) ==
    /\ reader[r].pc = "miss"
    /\ LET k == cacheKey(r)
           flight == IF k \in DOMAIN flights
                     THEN [flights[k] EXCEPT !.waiters = @ \cup {r}]
                     ELSE [leader |-> r, waiters |-> {r}, stage |-> "start",
                           since |-> clock, rows |-> NoRows]
       IN  flights' = [j \in DOMAIN flights \cup {k} |->
                         IF j = k THEN flight ELSE flights[j]]
    /\ reader' = [reader EXCEPT ![r].pc = "wait"]
    /\ UNCHANGED <<clock, pointNames, entries, inbox, ctxDone, failedKeys>>

\* Mutant: a waiter that gives up cancels the flight it shares.
giveUpMut(r) ==
    /\ reader[r].pc = "wait" /\ r \in ctxDone
    /\ Answer(r, "error")
    /\ inbox' = [w \in DOMAIN inbox \ {r} |-> inbox[w]]
    /\ flights' = [k \in {j \in DOMAIN flights : r \notin flights[j].waiters} |-> flights[k]]
    /\ UNCHANGED <<clock, pointNames, entries, ctxDone, failedKeys>>

(* A waiter whose own context ends stops waiting; the flight goes on.      *)
giveUp(r) ==
    /\ reader[r].pc = "wait" /\ r \in ctxDone
    /\ Answer(r, "error")
    /\ inbox' = [w \in DOMAIN inbox \ {r} |-> inbox[w]]
    /\ flights' = [k \in DOMAIN flights |-> [flights[k] EXCEPT !.waiters = @ \ {r}]]
    /\ UNCHANGED <<clock, pointNames, entries, ctxDone, failedKeys>>

(* The flight's result: rows, an error, or abandoned, which loops.         *)
receive(r) ==
    /\ reader[r].pc = "wait" /\ r \in DOMAIN inbox
    /\ \/ inbox[r].kind = "rows" /\ Serve(r, inbox[r].rows)
       \/ inbox[r].kind = "error" /\ Answer(r, "error")
       \/ inbox[r].kind = "abandoned" /\ reader' = [reader EXCEPT ![r].pc = "load"]
    /\ inbox' = [w \in DOMAIN inbox \ {r} |-> inbox[w]]
    /\ UNCHANGED <<clock, pointNames, entries, flights, ctxDone, failedKeys>>

-----------------------------------------------------------------------------
(* flight: the shared load, detached from its readers.                     *)

loading == {k \in DOMAIN flights : flights[k].stage \in {"query", "read"}}

Stage(k, stage) == flights' = [flights EXCEPT ![k].stage = stage]

(* singleflight forgets the key and sends the result to every waiter.      *)
Deliver(k, kind, rows) ==
    /\ flights' = [j \in DOMAIN flights \ {k} |-> flights[j]]
    /\ inbox' = [r \in DOMAIN inbox \cup flights[k].waiters |->
                   IF r \in flights[k].waiters THEN [kind |-> kind, rows |-> rows]
                   ELSE inbox[r]]

(* A flight may have landed between this one's miss and its start.         *)
flightLookup(k) ==
    /\ flights[k].stage = "start"
    /\ \/ lookup(k) /\ Deliver(k, "rows", [entries[k].rows EXCEPT !.when = clock])
       \/ ~lookup(k) /\ Stage(k, "queued") /\ UNCHANGED inbox
    /\ UNCHANGED <<clock, pointNames, entries, reader, ctxDone, failedKeys>>

(* It waits for a slot as long as its leader is there.                     *)
flightSlot(k) ==
    /\ flights[k].stage = "queued"
    /\ \/ /\ Cardinality(loading) < CacheMaxLoads
          /\ flights' = [flights EXCEPT ![k].stage = "query", ![k].since = clock]
          /\ UNCHANGED inbox
       \/ flights[k].leader \in ctxDone /\ Deliver(k, "abandoned", NoRows)
    /\ UNCHANGED <<clock, pointNames, entries, reader, ctxDone, failedKeys>>

(* The query reads its snapshot with the arguments of the leader.          *)
query(k) ==
    /\ flights[k].stage = "query"
    /\ flights' = [flights EXCEPT ![k].stage = "read",
                     ![k].rows = [at |-> clock, when |-> clock,
                                  names |-> IF k.q = "point"
                                            THEN reader[flights[k].leader].names ELSE 0]]
    /\ UNCHANGED <<clock, pointNames, entries, reader, inbox, ctxDone, failedKeys>>

(* Success is stored; an error, a panic or the timeout is only sent on.    *)
flightDone(k) ==
    /\ \/ /\ flights[k].stage = "read"
          /\ store(k, flights[k].rows)
          /\ Deliver(k, "rows", [flights[k].rows EXCEPT !.when = clock])
          /\ UNCHANGED failedKeys
       \/ /\ flights[k].stage \in {"query", "read"}
          /\ Deliver(k, "error", NoRows)
          /\ failedKeys' = failedKeys \cup {k}
          /\ UNCHANGED entries
    /\ UNCHANGED <<clock, pointNames, reader, ctxDone>>

-----------------------------------------------------------------------------
(* The environment: contexts end, time passes, points are renamed.         *)

ContextEnds(r) ==
    /\ r \notin ctxDone /\ reader[r].pc \in {"load", "miss", "wait"}
    /\ ctxDone' = ctxDone \cup {r}
    /\ UNCHANGED <<clock, pointNames, entries, flights, reader, inbox, failedKeys>>

(* cacheLoadTimeout: no query is still running when it has passed.         *)
CacheTick ==
    /\ clock < CacheHorizon
    /\ \A k \in loading : clock - flights[k].since < CacheLoadTimeout
    /\ clock' = clock + 1
    /\ UNCHANGED <<pointNames, entries, flights, reader, inbox, ctxDone, failedKeys>>

RenamePoint ==
    /\ pointNames < Renames
    /\ pointNames' = pointNames + 1
    /\ UNCHANGED <<clock, entries, flights, reader, inbox, ctxDone, failedKeys>>

ReaderStep(r) == PointNames(r) \/ load(r) \/ DoChan(r) \/ giveUp(r) \/ receive(r)
FlightStep(k) == flightLookup(k) \/ flightSlot(k) \/ query(k) \/ flightDone(k)

CacheNext ==
    \/ \E r \in Readers : reportsPage(r) \/ salesReport(r) \/ ReaderStep(r) \/ ContextEnds(r)
    \/ \E k \in DOMAIN flights : FlightStep(k)
    \/ CacheTick
    \/ RenamePoint

CacheSpec == CacheInit /\ [][CacheNext]_cacheVars

(* Goroutines are scheduled; a query ends, by its timeout at the latest.   *)
CacheFairness ==
    WF_cacheVars(\/ \E r \in Readers : ReaderStep(r)
                 \/ \E k \in DOMAIN flights : FlightStep(k))

-----------------------------------------------------------------------------
(* What a reader is served.                                                *)

ServedAnswer(r) == reader[r].got # NoRows

(* No caller is served rows older than the time to live of its range plus  *)
(* one query (a range that still grows has the shorter one), or rows that  *)
(* carry point names other than the ones it has read; the cache holds what *)
(* it may while at most CacheMaxLoads queries run; and a caller is refused *)
(* only for its own reasons: its context ended, or a query it shared       *)
(* failed.  A leader that goes away while it still waits for a slot takes  *)
(* nobody down with it (errLoadAbandoned).                                 *)
ServedFresh ==
    /\ Cardinality(DOMAIN entries) <= CacheMaxEntries
    /\ Cardinality(loading) <= CacheMaxLoads
    /\ \A r \in Readers : ServedAnswer(r) =>
          LET got == reader[r].got
              life == IF reader[r].to > got.when THEN OpenCacheTTL ELSE CacheTTL
          IN  /\ got.when - got.at < life + CacheLoadTimeout
              /\ reader[r].pc = "served" /\ Head(reader[r].todo) = "point"
                    => got.names = reader[r].names
    /\ \A r \in Readers : reader[r].pc = "error" /\ r \notin ctxDone =>
          \E k \in failedKeys : k.to = reader[r].to

(* Every request for a report is answered, whoever else gives up.          *)
ReadersAnswered ==
    (\E r \in Readers : reader[r].pc = "load")
        ~> (\A r \in Readers : reader[r].pc \in {"idle", "served", "error"})
=============================================================================
