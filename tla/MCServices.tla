----------------------------- MODULE MCServices -----------------------------
(***************************************************************************)
(* One instance of the services of the process, each explored by itself:   *)
(* part says which of them moves in a behaviour.  A part may have a bound  *)
(* of its own, stated with it.                                             *)
(***************************************************************************)
EXTENDS ReportCache, SalesReport, RequestLimiter, ServerLife

VARIABLE part
servicesVars == <<part, cacheVars, reportVars, limiterVars, serverVars>>

MCBaskets == {<<[product |-> "p", qty |-> 1, price |-> 1]>>,
              <<[product |-> "p", qty |-> 2, price |-> 90], [product |-> "q", qty |-> 1, price |-> 5]>>}
MCBrand == [p |-> "b", q |-> ""]
MCTopCategory == [p |-> "c", q |-> "d"]

Reader3 == CHOOSE r \in Readers : TRUE
Reader2 == CHOOSE r \in Readers \ {Reader3} : TRUE

(* Three exports whose callers give up while the others wait; or a page    *)
(* and an export while time passes and a point is renamed.                 *)
CacheReaders ==
    /\ CacheNext /\ clock' = clock /\ pointNames' = pointNames
    /\ \A r \in Readers : Len(reader'[r].todo) <= 2 /\ reader'[r].to = 0
    /\ \A r \in Readers : "day" \in ToSet(reader'[r].todo) <=> r = Reader3 /\ reader'[r].todo # <<>>
CacheClock ==
    /\ CacheNext /\ ctxDone' = {} /\ failedKeys' = {}
    /\ reader'[Reader3] = Idle
    /\ \A r \in Readers : reader'[r].pc # "idle" => reader'[r].to > 0
    /\ \A r \in Readers : Len(reader'[r].todo) > 2 => r = Reader2

(* Pushes while the server stays up; or a stop while jobs are staff        *)
(* messages or pushes that nothing outside disturbs.                       *)
ServerPushes ==
    /\ ServerNext /\ <<phase', cleanup', batch', expiry'>> = <<phase, cleanup, batch, expiry>>
    /\ \A e \in Events : job'[e].kind # "staff"
ServerStop ==
    /\ ServerNext
    /\ <<installed', fcmToken', phoneKnown'>> = <<installed, fcmToken, phoneKnown>>
    /\ \A e \in Events : job'[e].kind = "status" => e \in ExpiryEvents

(* One busy client, and one that is admitted once or twice.                *)
LimiterPair ==
    LimiterNext /\ MapThenSumSet(LAMBDA t : metered'["c2"][t], 0..LimitHorizon) <= 2

ServicesInit ==
    /\ part \in {"readers", "clock", "sales", "limiter", "pushes", "stop"}
    /\ CacheInit /\ ReportInit /\ LimiterInit /\ ServerInit
    /\ labels["s2"] = "A" /\ (part # "sales" => labels["s1"] = "A")
    /\ part # "pushes" => installed = Devices

ServicesNext ==
    /\ UNCHANGED part
    /\ \/ part = "readers" /\ CacheReaders /\ UNCHANGED <<reportVars, limiterVars, serverVars>>
       \/ part = "clock" /\ CacheClock /\ UNCHANGED <<reportVars, limiterVars, serverVars>>
       \/ part = "sales" /\ ReportNext /\ UNCHANGED <<cacheVars, limiterVars, serverVars>>
       \/ part = "limiter" /\ LimiterPair /\ UNCHANGED <<cacheVars, reportVars, serverVars>>
       \/ part = "pushes" /\ ServerPushes /\ UNCHANGED <<cacheVars, reportVars, limiterVars>>
       \/ part = "stop" /\ ServerStop /\ UNCHANGED <<cacheVars, reportVars, limiterVars>>

ServicesSpec ==
    /\ ServicesInit /\ [][ServicesNext]_servicesVars
    /\ CacheFairness /\ ServerFairness
=============================================================================
