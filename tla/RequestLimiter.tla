--------------------------- MODULE RequestLimiter ---------------------------
(***************************************************************************)
(* The global rate limit (internal/httpmw/ratelimit.go, keyed_limiter.go)  *)
(* and the address it is keyed by (clientip.go).  One bucket per client in *)
(* a map of bounded size; idle buckets are swept, at the cap a newcomer is *)
(* let through unmetered.  A request reads the clock before it waits for   *)
(* the mutex, so it may be charged at a moment that has already passed, by *)
(* at most LimiterLag ticks.  One tick earns one token.                    *)
(***************************************************************************)
EXTENDS Integers, Sequences, FiniteSets, FiniteSetsExt

CONSTANTS Clients,         \* subscribers, each with a network of addresses
          LimitBurst,      \* bucket size
          MaxClients,      \* cap on tracked clients
          SweepInterval, MinSweepGap,
          LimiterLag,      \* longest wait for the mutex
          LimitHorizon,    \* bound: the last tick
          LimitRequests    \* bound: how many requests are under way at once

ASSUME LimiterAssumption ==
    /\ {LimitBurst, MaxClients, SweepInterval, MinSweepGap} \subseteq Nat \ {0}
    /\ LimiterLag \in Nat /\ LimitHorizon \in Nat
    /\ {"proxy", "garbage"} \cap Clients = {}

VARIABLES tick,       \* now
          buckets,    \* limiter.buckets
          lastSweep,  \* limiter.lastSweep
          arrived,    \* requests between l.now() and the mutex
          metered,    \* ghost: admitted metered requests of a client per arrival tick
          forgiven    \* ghost: ticks of waiting that sweeps have forgiven a client

limiterVars == <<tick, buckets, lastSweep, arrived, metered, forgiven>>

LimiterInit ==
    /\ tick = 0 /\ buckets = <<>> /\ lastSweep = 0
    /\ arrived = {}
    /\ metered = [c \in Clients |-> [t \in 0..LimitHorizon |-> 0]]
    /\ forgiven = [c \in Clients |-> 0]

-----------------------------------------------------------------------------
(* Which requests are metered, and under which key.                        *)

(* Health probes, static files and the bank's webhook are never limited.   *)
rateLimitExempt(kind) == kind \in {"health", "static", "webhook"}

(* The request's address: the peer itself, unless the peer is a trusted    *)
(* proxy; then the rightmost untrusted hop, and no further left than an    *)
(* entry that does not parse.                                              *)
Garbage == <<"garbage", 0>>
resolveClientIP(peer, hops, trusted) ==
    LET stops == {i \in DOMAIN hops : hops[i] \notin trusted}
        last == IF stops = {} THEN 0 ELSE Max(stops)
    IN  IF peer \notin trusted THEN peer
        ELSE IF last > 0 /\ hops[last] # Garbage THEN hops[last]
        ELSE IF last < Len(hops) THEN hops[last + 1] ELSE peer

(* An IPv6 client is its network, whichever address of it is used.         *)
rateLimitKey(addr) == addr[1]

(* A request comes in through the proxy, which appends the address it saw  *)
(* to whatever the client has put in the header.                           *)
Proxy == <<"proxy", 0>>
ForgedHops == [host \in 0..1 |-> IF host = 0 THEN <<>> ELSE <<<<"forged", 0>>, Garbage>>]

RateLimit(c) ==
    \E kind \in {"page", "webhook"}, host \in 0..1 :
        /\ ~rateLimitExempt(kind)
        /\ Cardinality(arrived) < LimitRequests
        /\ arrived' = arrived \cup
             {[client |-> c, now |-> tick, n |-> Cardinality(arrived),
               key |-> rateLimitKey(resolveClientIP(Proxy, Append(ForgedHops[host], <<c, host>>), {Proxy}))]}
        /\ UNCHANGED <<tick, buckets, lastSweep, metered, forgiven>>

-----------------------------------------------------------------------------
(* allow, under the mutex.                                                 *)

\* Mutant: a bucket is dropped when it is idle for one tick.
sweepMut(bs, now) == {k \in DOMAIN bs : now - bs[k].last < 1}

(* sweep keeps the buckets that have not had time to fill up.              *)
sweep(bs, now) == {k \in DOMAIN bs : now - bs[k].last < LimitBurst}

(* Every SweepInterval; and for a newcomer at the cap, every MinSweepGap.  *)
swept(c, now) ==
    LET regular == now - lastSweep >= SweepInterval
        after == IF regular THEN sweep(buckets, now) ELSE DOMAIN buckets
        stamp == IF regular THEN now ELSE lastSweep
        forced == c \notin after /\ Cardinality(after) >= MaxClients
                                 /\ now - stamp >= MinSweepGap
    IN  [keys |-> IF forced THEN sweep([k \in after |-> buckets[k]], now) ELSE after,
         at |-> IF forced THEN now ELSE stamp]

allow(q) ==
    LET s == swept(q.key, q.now)
        old == IF q.key \in s.keys THEN buckets[q.key]
               ELSE [tokens |-> LimitBurst, last |-> q.now]
        tokens == Min({LimitBurst, old.tokens + (q.now - old.last)})
        full == q.key \notin s.keys /\ Cardinality(s.keys) >= MaxClients
    IN  /\ q \in arrived
        /\ arrived' = arrived \ {q}
        /\ lastSweep' = s.at
        /\ buckets' = [k \in s.keys \cup (IF full THEN {} ELSE {q.key}) |->
                         IF k # q.key THEN buckets[k]
                         ELSE [tokens |-> IF tokens >= 1 THEN tokens - 1 ELSE tokens,
                               last |-> q.now]]
        /\ metered' = IF ~full /\ tokens >= 1
                      THEN [metered EXCEPT ![q.client][q.now] = @ + 1] ELSE metered
        /\ forgiven' = [c \in Clients |-> IF c \in DOMAIN buckets \ s.keys
                                         THEN forgiven[c] + 2 * LimiterLag ELSE forgiven[c]]
        /\ UNCHANGED tick

(* Time passes; nobody waits longer than LimiterLag for the mutex.         *)
LimiterTick ==
    /\ tick < LimitHorizon
    /\ \A q \in arrived : tick - q.now < LimiterLag
    /\ tick' = tick + 1
    /\ UNCHANGED <<buckets, lastSweep, arrived, metered, forgiven>>

LimiterNext == (\E c \in Clients : RateLimit(c)) \/ (\E q \in arrived : allow(q)) \/ LimiterTick

LimiterSpec == LimiterInit /\ [][LimiterNext]_limiterVars

-----------------------------------------------------------------------------
(* Metered requests of client c that arrived from s to t.                  *)
admitted(c, s, t) == SumFunctionOnSet(metered[c], s..t)

(* Sweeping, late clocks, forged headers and changing addresses never      *)
(* refill a bucket early: however requests and sweeps interleave, a client *)
(* is admitted at most its burst plus one request per tick of any window   *)
(* of arrival times while it is tracked, plus twice the wait for the mutex *)
(* for each time a sweep dropped its bucket (a late request starts the new *)
(* one in the past); and the map never outgrows its cap.                   *)
NoEarlyRefill ==
    /\ Cardinality(DOMAIN buckets) <= MaxClients
    /\ \A c \in Clients : \A s \in 0..tick : \A t \in s..tick :
          admitted(c, s, t) <= LimitBurst + (t - s) + forgiven[c]
=============================================================================
