--------------------------- MODULE ServicesProofs ---------------------------
(***************************************************************************)
(* Proofs about the services of the process, for any number of events,     *)
(* devices, clients, readers, queries and orders and any limits.           *)
(***************************************************************************)
EXTENDS ReportCache, SalesReport, RequestLimiter, ServerLife, FiniteLemmas

-----------------------------------------------------------------------------
(* Notifications and the server's life.                                     *)

JobPlaces == {"none", "refused", "dropped", "start", "send", "call", "done"}

JobRow == [pc : JobPlaces, kind : {"none", "staff", "status"}, text : BOOLEAN, phone : BOOLEAN,
           tried : SUBSET Devices, left : SUBSET Devices, sent : Nat, failed : Nat,
           sms : BOOLEAN, told : BOOLEAN]

\* What a job knows: an SMS ends it, and a device it is through with and did
\* not reach has failed for now or no longer has the app.
Honest(j) ==
    /\ j.sms => j.pc = "done" /\ j.sent = 0 /\ j.tried \cap installed = {}
    /\ j.pc \in {"send", "call"} /\ j.sent = 0 /\ j.failed = 0 => (j.tried \ j.left) \cap installed = {}

DispatcherTypes ==
    /\ closed \in BOOLEAN /\ phoneKnown \in BOOLEAN
    /\ job \in [Events -> JobRow]
    /\ deviceTokens \in SUBSET Devices /\ installed \in SUBSET Devices

\* Slots: what runs holds one, and a job is refused only after the close.
Slots ==
    /\ IsFiniteSet(running) /\ Cardinality(running) <= MaxInFlight
    /\ \A e \in Events : job[e].pc = "refused" => closed

DispatcherInv ==
    /\ DispatcherTypes
    /\ Slots
    /\ installed \subseteq deviceTokens
    /\ \A e \in Events : Honest(job[e])

Running == {"start", "send", "call"}

\* A job that runs already, or stops, takes no slot.
LEMMA WorkKeepsSlots ==
    ASSUME DispatcherInv, NEW e \in Events, NEW j \in JobRow, job' = [job EXCEPT ![e] = j],
           j.pc \in Running => job[e].pc \in Running, j.pc # "refused", closed => closed'
    PROVE  Slots' /\ running' \subseteq running
<1>1. running' \subseteq running
  BY DEF running, Running, DispatcherInv, DispatcherTypes
<1>2. IsFiniteSet(running') /\ Cardinality(running') <= Cardinality(running)
  BY <1>1, FS_Subset, FS_CardinalityType DEF DispatcherInv, Slots
<1>3. Cardinality(running') \in Nat /\ Cardinality(running) \in Nat /\ MaxInFlight \in Nat
  BY <1>2, FS_CardinalityType, DispatcherAssumption DEF DispatcherInv, Slots
<1>4. Cardinality(running') <= MaxInFlight
  BY <1>2, <1>3 DEF DispatcherInv, Slots
<1>5. \A d \in Events : job'[d].pc = "refused" => closed'
  BY DEF DispatcherInv, DispatcherTypes, Slots
<1> QED BY <1>1, <1>2, <1>4, <1>5 DEF Slots

\* goJob: a new job takes a free slot and none after the close.
LEMMA GoKeeps ==
    ASSUME DispatcherInv, NEW e \in Events, NEW kind \in {"staff", "status"}, NEW text \in BOOLEAN,
           goJob(e, kind, text)
    PROVE  /\ DispatcherInv'
           /\ closed => running' = running
           /\ \A d \in Events : job'[d].pc = "refused" => job[d].pc = "refused" \/ (d = e /\ closed)
<1> DEFINE pc == CASE closed -> "refused"
                   [] ~closed /\ Cardinality(running) >= MaxInFlight -> "dropped"
                   [] OTHER -> "start"
<1>0. UNCHANGED <<closed, deviceTokens, installed, phoneKnown>> /\ job[e].pc = "none"
  BY DEF goJob
<1>1. PICK j : j = [NoJob EXCEPT !.kind = kind, !.text = text, !.pc = pc]
  OBVIOUS
<1>2. job' = [job EXCEPT ![e] = j]
  BY <1>1 DEF goJob
<1>3. /\ j.pc = pc /\ j.sms = FALSE /\ j.tried = {} /\ j.left = {} /\ j \in JobRow
  BY <1>1 DEF NoJob, JobRow, JobPlaces
<1>4. job' \in [Events -> JobRow] /\ job'[e] = j /\ \A d \in Events \ {e} : job'[d] = job[d]
  BY <1>2, <1>3 DEF DispatcherInv, DispatcherTypes
<1>5. DispatcherTypes'
  BY <1>0, <1>4 DEF DispatcherInv, DispatcherTypes
<1>6. Honest(j)'
  BY <1>3 DEF Honest
<1>7. \A d \in Events : Honest(job[d])'
  BY <1>0, <1>4, <1>6 DEF DispatcherInv, Honest
<1>8. CASE closed
  <2>1. j.pc = "refused"
    BY <1>3, <1>8
  <2>2. running' = running
    BY <2>1, <1>0, <1>4 DEF running
  <2> QED BY <2>1, <2>2, <1>0, <1>4, <1>5, <1>7, <1>8 DEF DispatcherInv, Slots
<1>9. CASE ~closed
  <2>1. j.pc # "refused"
    BY <1>3, <1>9
  <2>2. \A d \in Events : job'[d].pc = "refused" => job[d].pc = "refused"
    BY <2>1, <1>4
  <2>3. CASE Cardinality(running) >= MaxInFlight
    <3>1. j.pc = "dropped"
      BY <1>3, <1>9, <2>3
    <3>2. running' = running
      BY <3>1, <1>0, <1>4 DEF running
    <3> QED BY <2>2, <3>2, <1>0, <1>5, <1>7 DEF DispatcherInv, Slots
  <2>4. CASE ~(Cardinality(running) >= MaxInFlight)
    <3>1. running' \subseteq running \cup {e}
      BY <1>4 DEF running
    <3>2. IsFiniteSet(running \cup {e}) /\ Cardinality(running \cup {e}) <= Cardinality(running) + 1
          /\ Cardinality(running) \in Nat
      <4>1. IsFiniteSet(running) /\ e \notin running
        BY <1>0 DEF DispatcherInv, Slots, running
      <4>2. IsFiniteSet(running \cup {e}) /\ Cardinality(running \cup {e}) = Cardinality(running) + 1
        BY <4>1, FS_AddElement, Zenon
      <4>3. Cardinality(running) \in Nat
        BY <4>1, FS_CardinalityType
      <4> QED BY <4>2, <4>3
    <3>3. IsFiniteSet(running') /\ Cardinality(running') <= Cardinality(running \cup {e})
      BY <3>1, <3>2, FS_Subset
    <3>4. Cardinality(running') \in Nat /\ Cardinality(running \cup {e}) \in Nat
      BY <3>2, <3>3, FS_CardinalityType
    <3>5. Cardinality(running') <= MaxInFlight
      BY <3>2, <3>3, <3>4, <2>4, DispatcherAssumption
    <3> QED BY <2>2, <3>3, <3>5, <1>0, <1>5, <1>7, <1>9 DEF DispatcherInv, Slots
  <2> QED BY <2>3, <2>4
<1> QED BY <1>8, <1>9

\* A running job's step that changes no device row and no installation.
LEMMA JobKeeps ==
    ASSUME DispatcherInv, NEW e \in Events, NEW j \in JobRow, job' = [job EXCEPT ![e] = j],
           j.pc \in Running => job[e].pc \in Running, j.pc # "refused", Honest(j),
           UNCHANGED <<closed, installed, phoneKnown>>,
           deviceTokens' \in SUBSET Devices, installed \subseteq deviceTokens'
    PROVE  DispatcherInv' /\ running' \subseteq running /\ \A d \in Events : job'[d].pc = "refused" => job[d].pc = "refused"
<1>1. Slots' /\ running' \subseteq running
  BY WorkKeepsSlots
<1>2. job' \in [Events -> JobRow] /\ job'[e] = j /\ \A d \in Events \ {e} : job'[d] = job[d]
  BY DEF DispatcherInv, DispatcherTypes
<1>3. \A d \in Events : Honest(job[d])'
  BY <1>2 DEF DispatcherInv, Honest
<1>4. DispatcherTypes'
  BY <1>2 DEF DispatcherInv, DispatcherTypes
<1>5. \A d \in Events : job'[d].pc = "refused" => job[d].pc = "refused"
  BY <1>2
<1> QED BY <1>1, <1>3, <1>4, <1>5 DEF DispatcherInv

\* FCM's faults that condemn a token come only for a device without the app.
LEMMA OnlyGoneIsDead ==
    ASSUME NEW t, NEW fault \in Faults(t), isInvalidTokenError(fcmErrorResponse(fault))
    PROVE  t \notin installed
<1>1. fault \notin {"bad_payload", "unavailable", "unauthorized"}
  BY DEF isInvalidTokenError, fcmErrorResponse
<1> QED BY <1>1 DEF Faults

\* What a job's step leaves.
Works ==
    /\ DispatcherInv'
    /\ running' \subseteq running
    /\ \A d \in Events : job'[d].pc = "refused" => job[d].pc = "refused"
    /\ closed' = closed

LEMMA JobStepKeeps ==
    ASSUME DispatcherInv, NEW e \in Events, JobStep(e)
    PROVE  Works
<1>0. /\ DispatcherTypes /\ job[e] \in JobRow /\ Honest(job[e])
      /\ installed \subseteq deviceTokens /\ job \in [Events -> JobRow]
  BY DEF DispatcherInv, DispatcherTypes
<1>1. CASE sendStaffNewOrder(e)
  <2>1. PICK told \in BOOLEAN : job' = [job EXCEPT ![e] = [job[e] EXCEPT !.pc = "done", !.told = told]]
    BY <1>1, <1>0 DEF sendStaffNewOrder
  <2>2. [job[e] EXCEPT !.pc = "done", !.told = told] \in JobRow
    BY <1>0 DEF JobRow, JobPlaces
  <2>3. Honest([job[e] EXCEPT !.pc = "done", !.told = told])
    BY <1>0 DEF JobRow, Honest
  <2>4. UNCHANGED <<closed, deviceTokens, installed, phoneKnown>>
    BY <1>1 DEF sendStaffNewOrder
  <2>5. [job[e] EXCEPT !.pc = "done", !.told = told].pc = "done"
    BY <1>0 DEF JobRow
  <2> QED BY <1>0, <2>1, <2>2, <2>3, <2>4, <2>5, JobKeeps DEF Works, Running, DispatcherTypes
<1>2. CASE pushStatus(e)
  <2>4. UNCHANGED <<closed, deviceTokens, installed, phoneKnown>> /\ job[e].pc = "start"
    BY <1>2 DEF pushStatus
  <2>5. CASE job' = [job EXCEPT ![e].pc = "done"]
    <3>1. PICK j : j = [job[e] EXCEPT !.pc = "done"]
      OBVIOUS
    <3>2. j \in JobRow /\ Honest(j) /\ j.pc = "done" /\ job' = [job EXCEPT ![e] = j]
      BY <1>0, <2>5, <3>1 DEF JobRow, JobPlaces, Honest
    <3> QED BY <1>0, <2>4, <3>2, JobKeeps DEF Works, Running, DispatcherTypes
  <2>6. CASE job' # [job EXCEPT ![e].pc = "done"]
    <3>1. PICK phone \in customerContact :
             job' = [job EXCEPT ![e].pc = "send", ![e].phone = phone,
                                ![e].tried = deviceTokens, ![e].left = deviceTokens]
      BY <1>2, <2>6 DEF pushStatus
    <3>2. phone \in BOOLEAN
      BY <1>0 DEF customerContact, DispatcherTypes
    <3>3. PICK j : j = [job[e] EXCEPT !.pc = "send", !.phone = phone,
                                !.tried = deviceTokens, !.left = deviceTokens]
      OBVIOUS
    <3>4. job' = [job EXCEPT ![e] = j]
      BY <1>0, <3>1, <3>3
    <3>5. j \in JobRow /\ j.pc = "send" /\ j.tried = j.left /\ j.sms = job[e].sms
      BY <1>0, <3>2, <3>3 DEF JobRow, JobPlaces, DispatcherTypes
    <3>6. Honest(j)
      BY <1>0, <2>4, <3>5 DEF Honest
    <3> QED BY <1>0, <2>4, <3>4, <3>5, <3>6, JobKeeps DEF Works, Running, DispatcherTypes
  <2> QED BY <2>5, <2>6
<1>3. CASE getAccessToken(e)
  <2>4. UNCHANGED <<closed, deviceTokens, installed, phoneKnown>> /\ job[e].pc = "send"
    BY <1>3 DEF getAccessToken
  <2>5. CASE job' = [job EXCEPT ![e].pc = "call"]
    <3>1. PICK j : j = [job[e] EXCEPT !.pc = "call"]
      OBVIOUS
    <3>2. j \in JobRow /\ Honest(j) /\ j.pc = "call" /\ job' = [job EXCEPT ![e] = j]
      BY <1>0, <2>4, <2>5, <3>1 DEF JobRow, JobPlaces, Honest
    <3> QED BY <1>0, <2>4, <3>2, JobKeeps DEF Works, Running, DispatcherTypes
  <2>6. CASE job' # [job EXCEPT ![e].pc = "call"]
    <3>1. PICK t \in job[e].left : job' = [job EXCEPT ![e].left = @ \ {t}, ![e].failed = @ + 1]
      BY <1>3, <2>6 DEF getAccessToken
    <3>2. PICK n \in Nat : n = job[e].failed + 1 /\ n # 0
      BY <1>0 DEF JobRow
    <3>3. PICK j : j = [job[e] EXCEPT !.left = @ \ {t}, !.failed = n]
      OBVIOUS
    <3>4. job' = [job EXCEPT ![e] = j]
      BY <1>0, <3>1, <3>2, <3>3
    <3>5. j \in JobRow /\ j.pc = "send" /\ j.failed = n /\ j.sms = job[e].sms
      BY <1>0, <2>4, <3>2, <3>3 DEF JobRow, JobPlaces
    <3>6. Honest(j)
      BY <1>0, <2>4, <3>2, <3>5 DEF Honest
    <3> QED BY <1>0, <2>4, <3>4, <3>5, <3>6, JobKeeps DEF Works, Running, DispatcherTypes
  <2> QED BY <2>5, <2>6
<1>4. CASE Send(e)
  <2>4. UNCHANGED <<closed, installed, phoneKnown>> /\ job[e].pc = "call"
    BY <1>4 DEF Send
  <2>5. PICK t \in job[e].left :
       \/ /\ job' = [job EXCEPT ![e].pc = "send", ![e].left = @ \ {t}, ![e].sent = @ + 1]
          /\ deviceTokens' = deviceTokens
       \/ \E fault \in Faults(t) :
          LET dead == isInvalidTokenError(fcmErrorResponse(fault)) IN
          /\ deviceTokens' \in IF dead THEN {deviceTokens, deviceTokens \ {t}}
                               ELSE {deviceTokens}
          /\ job' = [job EXCEPT ![e].pc = "send", ![e].left = @ \ {t},
                                ![e].failed = IF dead THEN @ ELSE @ + 1]
    BY <1>4 DEF Send
  <2>6. CASE /\ job' = [job EXCEPT ![e].pc = "send", ![e].left = @ \ {t}, ![e].sent = @ + 1]
             /\ deviceTokens' = deviceTokens
    <3>2. PICK n \in Nat : n = job[e].sent + 1 /\ n # 0
      BY <1>0 DEF JobRow
    <3>3. PICK j : j = [job[e] EXCEPT !.pc = "send", !.left = @ \ {t}, !.sent = n]
      OBVIOUS
    <3>4. job' = [job EXCEPT ![e] = j]
      BY <1>0, <2>6, <3>2, <3>3
    <3>5. j \in JobRow /\ j.pc = "send" /\ j.sent = n /\ j.sms = job[e].sms
      BY <1>0, <2>4, <3>2, <3>3 DEF JobRow, JobPlaces
    <3>6. Honest(j)
      BY <1>0, <2>4, <3>2, <3>5 DEF Honest
    <3> QED BY <1>0, <2>4, <2>6, <3>4, <3>5, <3>6, JobKeeps DEF Works, Running, DispatcherTypes
  <2>7. ASSUME NEW fault \in Faults(t), NEW dead, dead = isInvalidTokenError(fcmErrorResponse(fault)),
               deviceTokens' \in IF dead THEN {deviceTokens, deviceTokens \ {t}} ELSE {deviceTokens},
               job' = [job EXCEPT ![e].pc = "send", ![e].left = @ \ {t},
                                ![e].failed = IF dead THEN @ ELSE @ + 1]
        PROVE  Works
    <3>1. dead => t \notin installed
      BY <2>7, OnlyGoneIsDead
    <3>2. deviceTokens' \in SUBSET Devices /\ installed \subseteq deviceTokens'
      BY <1>0, <2>7, <3>1 DEF DispatcherTypes
    <3>8. PICK n \in Nat : n = (IF dead THEN job[e].failed ELSE job[e].failed + 1)
                           /\ (n = 0 => dead /\ job[e].failed = 0)
      BY <1>0 DEF JobRow
    <3>3. PICK j : j = [job[e] EXCEPT !.pc = "send", !.left = @ \ {t}, !.failed = n]
      OBVIOUS
    <3>4. job' = [job EXCEPT ![e] = j]
      BY <1>0, <2>7, <3>3, <3>8
    <3>5. /\ j \in JobRow /\ j.pc = "send" /\ j.sms = job[e].sms
          /\ j.failed = n
          /\ j.left = job[e].left \ {t} /\ j.tried = job[e].tried /\ j.sent = job[e].sent
      BY <1>0, <2>4, <3>3, <3>8 DEF JobRow, JobPlaces
    <3>6. Honest(j)
      BY <1>0, <2>4, <3>1, <3>5, <3>8 DEF Honest
    <3> QED BY <1>0, <2>4, <3>2, <3>4, <3>5, <3>6, JobKeeps DEF Works, Running, DispatcherTypes
  <2> QED BY <2>5, <2>6, <2>7
<1>5. CASE smsStatus(e)
  <2>4. UNCHANGED <<closed, deviceTokens, installed, phoneKnown>> /\ job[e].pc = "send" /\ job[e].left = {}
    BY <1>5 DEF smsStatus
  <2>5. PICK sms \in {FALSE, SMSFallback /\ job[e].sent = 0 /\ job[e].failed = 0 /\ job[e].phone} :
           job' = [job EXCEPT ![e].pc = "done", ![e].sms = sms]
    BY <1>5 DEF smsStatus
  <2>6. sms \in BOOLEAN /\ (sms => job[e].sent = 0 /\ job[e].failed = 0)
    BY <1>0, <2>5, DispatcherAssumption DEF JobRow
  <2>7. PICK j : j = [job[e] EXCEPT !.pc = "done", !.sms = sms]
    OBVIOUS
  <2>8. job' = [job EXCEPT ![e] = j]
    BY <1>0, <2>5, <2>7
  <2>9. j \in JobRow /\ j.pc = "done" /\ j.sms = sms /\ j.sent = job[e].sent /\ j.tried = job[e].tried
    BY <1>0, <2>6, <2>7 DEF JobRow, JobPlaces
  <2>10. Honest(j)
    BY <1>0, <2>4, <2>6, <2>9 DEF Honest
  <2> QED BY <1>0, <2>4, <2>8, <2>9, <2>10, JobKeeps DEF Works, Running, DispatcherTypes
<1>6. CASE jobPanics(e)
  <2>4. UNCHANGED <<closed, deviceTokens, installed, phoneKnown>> /\ job' = [job EXCEPT ![e].pc = "done"]
    BY <1>6 DEF jobPanics
  <2>1. PICK j : j = [job[e] EXCEPT !.pc = "done"]
    OBVIOUS
  <2>2. j \in JobRow /\ Honest(j) /\ j.pc = "done" /\ job' = [job EXCEPT ![e] = j]
    BY <1>0, <2>4, <2>1 DEF JobRow, JobPlaces, Honest
  <2> QED BY <1>0, <2>4, <2>2, JobKeeps DEF Works, Running, DispatcherTypes
<1> QED BY <1>1, <1>2, <1>3, <1>4, <1>5, <1>6 DEF JobStep

\* The app can go, the access token can be revoked, the customer can leave.
LEMMA OutsideKeeps ==
    ASSUME DispatcherInv, Outside
    PROVE  Works
<1>1. UNCHANGED <<closed, job, deviceTokens>> /\ installed' \subseteq installed /\ phoneKnown' \in BOOLEAN
  BY DEF Outside, DispatcherInv, DispatcherTypes
<1>2. running' = running
  BY <1>1 DEF running
<1>3. DispatcherTypes' /\ installed' \subseteq deviceTokens'
  BY <1>1 DEF DispatcherInv, DispatcherTypes
<1>4. Slots'
  BY <1>1, <1>2 DEF DispatcherInv, Slots
<1>5. \A e \in Events : Honest(job[e])'
  BY <1>1 DEF DispatcherInv, Honest
<1> QED BY <1>1, <1>2, <1>3, <1>4, <1>5 DEF Works, DispatcherInv


LoopState == {"idle", "pass", "stopping", "stopped"}

LifeTypes ==
    /\ phase \in {"up", "draining", "notifying", "broadcasts", "deferred", "cleanup", "expiry", "exited"}
    /\ deadline \in BOOLEAN /\ poolOpen \in BOOLEAN
    /\ handler \in [Events \ ExpiryEvents -> {"none", "running", "done"}]
    /\ expiry \in LoopState /\ cleanup \in LoopState /\ batch \in LoopState

\* The waits of run() that are over, in the order it makes them.
Waited ==
    /\ closed => phase \notin {"up", "draining"}
    /\ poolOpen <=> phase # "exited"
    /\ phase \in {"expiry", "exited"} => cleanup = "stopped"
    /\ phase = "exited" => expiry = "stopped"

\* What a stop within its deadline has waited for.
InTime ==
    closed /\ ~deadline =>
        /\ phase \notin {"up", "draining", "notifying"} => running = {}
        /\ phase \notin {"up", "draining", "notifying", "broadcasts"} => batch = "stopped"
        /\ \A e \in Events \ ExpiryEvents : handler[e] # "running" /\ job[e].pc # "refused"

ServerInv == DispatcherInv /\ LifeTypes /\ Waited /\ InTime

\* A step of the jobs or of the world outside, which run() does not see.
LEMMA WorksKeeps ==
    ASSUME ServerInv, Works, UNCHANGED lifeVars
    PROVE  ServerInv'
<1>1. LifeTypes' /\ Waited'
  BY DEF ServerInv, LifeTypes, Waited, Works, lifeVars
<1>2. InTime'
  BY LifeAssumption DEF ServerInv, InTime, Works, lifeVars
<1> QED BY <1>1, <1>2 DEF ServerInv, Works

\* A step of run(), a handler or a loop that touches no job.
LEMMA LifeKeeps ==
    ASSUME DispatcherInv, UNCHANGED <<job, deviceTokens, installed, phoneKnown>>,
           closed' \in BOOLEAN, closed => closed'
    PROVE  DispatcherInv' /\ running' = running
<1>1. running' = running
  BY DEF running
<1>2. \A e \in Events : Honest(job[e])'
  BY DEF DispatcherInv, Honest
<1>3. Slots'
  BY <1>1 DEF DispatcherInv, Slots
<1>4. DispatcherTypes'
  BY DEF DispatcherInv, DispatcherTypes
<1> QED BY <1>1, <1>2, <1>3, <1>4 DEF DispatcherInv

\* A pass begins, ends, or ends for good; what has stopped stays so.
LEMMA LoopStays ==
    ASSUME NEW old \in LoopState, NEW new, Loop(old, new)
    PROVE  new \in LoopState /\ old # "stopped"
BY DEF Loop, LoopState

LEMMA StopStops ==
    ASSUME NEW state \in LoopState
    PROVE  Stop(state) \in LoopState /\ (state = "stopped" => Stop(state) = "stopped")
BY DEF Stop, LoopState

LEMMA ServerStep == ServerInv /\ [ServerNext]_serverVars => ServerInv'
<1> SUFFICES ASSUME ServerInv, [ServerNext]_serverVars PROVE ServerInv'
    OBVIOUS
<1>0. DispatcherInv /\ LifeTypes /\ Waited /\ InTime
      /\ expiry \in LoopState /\ cleanup \in LoopState /\ batch \in LoopState /\ closed \in BOOLEAN
      /\ handler \in [Events \ ExpiryEvents -> {"none", "running", "done"}]
  BY DEF ServerInv, LifeTypes, DispatcherInv, DispatcherTypes
<1>1. ASSUME NEW e \in DOMAIN handler, Request(e) PROVE ServerInv'
  <2>1. UNCHANGED <<job, deviceTokens, installed, phoneKnown, closed>> /\ phase = "up"
        /\ UNCHANGED <<phase, deadline, expiry, cleanup, batch, poolOpen>>
        /\ handler' = [handler EXCEPT ![e] = "running"]
    BY <1>1 DEF Request, dispatcherVars
  <2>2. DispatcherInv' /\ running' = running
    BY <1>0, <2>1, LifeKeeps
  <2>3. LifeTypes' /\ Waited' /\ ~closed'
    BY <1>0, <2>1 DEF LifeTypes, Waited
  <2> QED BY <2>2, <2>3 DEF ServerInv, InTime
<1>2. ASSUME NEW e \in DOMAIN handler, Notify(e) PROVE ServerInv'
  <2>1. e \in Events \ ExpiryEvents /\ handler[e] = "running"
        /\ handler' = [handler EXCEPT ![e] = "done"]
        /\ UNCHANGED <<phase, deadline, expiry, cleanup, batch, poolOpen>>
    BY <1>0, <1>2 DEF Notify
  <2>2. PICK kind \in {"staff", "status"}, text \in BOOLEAN : goJob(e, kind, text)
    <3>1. ASSUME NEW status PROVE statusPushText(status) \in BOOLEAN
      BY DEF statusPushText
    <3> QED BY <1>2, <3>1 DEF Notify, OrderCreated, OrderCancelledByCustomer, OrderStatusChanged
  <2>3. DispatcherInv' /\ closed' = closed
    BY <1>0, <2>1, <2>2, GoKeeps DEF goJob
  <2>4. LifeTypes' /\ Waited'
    BY <1>0, <2>1, <2>3 DEF LifeTypes, Waited
  <2>5. ~(closed' /\ ~deadline')
    BY <1>0, <2>1, <2>3 DEF InTime
  <2> QED BY <2>3, <2>4, <2>5 DEF ServerInv, InTime
<1>3. ASSUME NEW e \in Events, JobStep(e), UNCHANGED lifeVars PROVE ServerInv'
  BY <1>0, <1>3, JobStepKeeps, WorksKeeps
<1>4. ASSUME Outside, UNCHANGED lifeVars PROVE ServerInv'
  BY <1>0, <1>4, OutsideKeeps, WorksKeeps
<1>5. CASE RunPendingExpiry
  <2>1. UNCHANGED <<closed, deviceTokens, installed, phoneKnown, phase, deadline, handler, cleanup, batch, poolOpen>>
    BY <1>5 DEF RunPendingExpiry
  <2>2. CASE Loop(expiry, expiry') /\ UNCHANGED job
    <3>1. DispatcherInv' /\ running' = running
      BY <1>0, <2>1, <2>2, LifeKeeps
    <3>2. expiry' \in LoopState /\ expiry # "stopped"
      BY <1>0, <2>2, LoopStays
    <3>3. LifeTypes' /\ Waited'
      BY <1>0, <2>1, <3>2 DEF LifeTypes, Waited
    <3>4. InTime'
      BY <1>0, <2>1, <2>2, <3>1 DEF InTime
    <3> QED BY <3>1, <3>3, <3>4 DEF ServerInv
  <2>3. ASSUME NEW e \in ExpiryEvents, goJob(e, "status", TRUE), expiry' = expiry PROVE ServerInv'
    <3>0. e \in Events
      BY LifeAssumption
    <3>1. /\ DispatcherInv' /\ (closed => running' = running)
          /\ \A d \in Events : job'[d].pc = "refused" => job[d].pc = "refused" \/ (d = e /\ closed)
      BY <1>0, <2>3, <3>0, GoKeeps
    <3>2. LifeTypes' /\ Waited'
      BY <1>0, <2>1, <2>3 DEF LifeTypes, Waited
    <3>3. InTime'
      BY <1>0, <2>1, <3>1 DEF InTime
    <3> QED BY <3>1, <3>2, <3>3 DEF ServerInv
  <2> QED BY <1>5, <2>2, <2>3 DEF RunPendingExpiry
<1>6. CASE RunOTPCleanup \/ Broadcasts
  <2>1. UNCHANGED <<closed, job, deviceTokens, installed, phoneKnown, phase, deadline, handler, expiry, poolOpen>>
    BY <1>6 DEF RunOTPCleanup, Broadcasts, dispatcherVars
  <2>2. cleanup' \in LoopState /\ batch' \in LoopState
        /\ (cleanup = "stopped" => cleanup' = "stopped") /\ (batch = "stopped" => batch' = "stopped")
    BY <1>0, <1>6, LoopStays DEF RunOTPCleanup, Broadcasts
  <2>3. DispatcherInv' /\ running' = running
    BY <1>0, <2>1, LifeKeeps
  <2>4. LifeTypes' /\ Waited'
    BY <1>0, <2>1, <2>2 DEF LifeTypes, Waited
  <2>5. InTime'
    BY <1>0, <2>1, <2>2, <2>3 DEF InTime
  <2> QED BY <2>3, <2>4, <2>5 DEF ServerInv
<1>7. CASE Signal \/ ListenError \/ ShutdownTimeout
  <2>1. UNCHANGED <<closed, job, deviceTokens, installed, phoneKnown, handler, expiry, cleanup, poolOpen>>
    BY <1>7 DEF Signal, ListenError, ShutdownTimeout, dispatcherVars
  <2>2. DispatcherInv' /\ running' = running
    BY <1>0, <2>1, LifeKeeps
  <2>3. CASE phase = "up" /\ deadline' = deadline
    <3>1. batch' \in LoopState /\ phase' \in {"draining", "deferred"}
      BY <1>0, <1>7, <2>3, StopStops DEF Signal, ListenError, ShutdownTimeout
    <3>2. LifeTypes' /\ Waited' /\ ~closed'
      BY <1>0, <2>1, <2>3, <3>1 DEF LifeTypes, Waited
    <3> QED BY <2>2, <3>2 DEF ServerInv, InTime
  <2>4. CASE ShutdownTimeout
    BY <1>0, <2>1, <2>2, <2>4 DEF ServerInv, ShutdownTimeout, LifeTypes, Waited, InTime
  <2> QED BY <1>7, <2>3, <2>4 DEF Signal, ListenError
<1>8. CASE srvShutdown
  <2>1. /\ UNCHANGED <<job, deviceTokens, installed, phoneKnown, deadline, handler, expiry, cleanup, batch, poolOpen>>
        /\ phase = "draining" /\ phase' = "notifying" /\ closed' = TRUE
        /\ deadline \/ \A e \in Events \ ExpiryEvents : handler[e] # "running"
    BY <1>0, <1>8 DEF srvShutdown
  <2>2. DispatcherInv' /\ running' = running
    BY <1>0, <2>1, LifeKeeps
  <2>3. \A e \in Events : job[e].pc # "refused"
    BY <1>0, <2>1 DEF Waited, DispatcherInv, Slots
  <2>4. LifeTypes' /\ Waited'
    BY <1>0, <2>1 DEF LifeTypes, Waited
  <2>5. InTime'
    BY <2>1, <2>3 DEF InTime
  <2> QED BY <2>2, <2>4, <2>5 DEF ServerInv
<1>9. CASE notifierShutdown
  <2>1. /\ UNCHANGED <<closed, job, deviceTokens, installed, phoneKnown, deadline, handler, expiry, cleanup, poolOpen>>
        /\ phase = "notifying" /\ phase' = "broadcasts" /\ batch' = Stop(batch)
        /\ deadline \/ Jobs = {}
    BY <1>9 DEF notifierShutdown, dispatcherVars
  <2>2. DispatcherInv' /\ running' = running /\ Jobs = running
    BY <1>0, <2>1, LifeKeeps DEF Jobs, running
  <2>3. batch' \in LoopState
    BY <1>0, <2>1, StopStops
  <2>4. LifeTypes' /\ Waited'
    BY <1>0, <2>1, <2>3 DEF LifeTypes, Waited
  <2>5. InTime'
    BY <1>0, <2>1, <2>2 DEF InTime
  <2> QED BY <2>2, <2>4, <2>5 DEF ServerInv
<1>10. CASE stopBroadcasts
  <2>1. /\ UNCHANGED <<closed, job, deviceTokens, installed, phoneKnown, deadline, handler, expiry, cleanup, batch, poolOpen>>
        /\ phase = "broadcasts" /\ phase' = "deferred" /\ (deadline \/ batch = "stopped")
    BY <1>10 DEF stopBroadcasts, dispatcherVars
  <2>2. DispatcherInv' /\ running' = running
    BY <1>0, <2>1, LifeKeeps
  <2>3. LifeTypes' /\ Waited'
    BY <1>0, <2>1 DEF LifeTypes, Waited
  <2>4. InTime'
    BY <1>0, <2>1, <2>2 DEF InTime
  <2> QED BY <2>2, <2>3, <2>4 DEF ServerInv
<1>11. CASE defers
  <2>1. UNCHANGED <<closed, job, deviceTokens, installed, phoneKnown, deadline, handler, batch>>
    BY <1>11 DEF defers, dispatcherVars
  <2>2. DispatcherInv' /\ running' = running
    BY <1>0, <2>1, LifeKeeps
  <2>3. LifeTypes' /\ Waited'
    BY <1>0, <1>11, <2>1, StopStops DEF defers, LifeTypes, Waited
  <2>4. phase' \in {"cleanup", "expiry", "exited"} /\ phase \in {"deferred", "cleanup", "expiry"}
    BY <1>11 DEF defers
  <2>5. InTime'
    BY <1>0, <2>1, <2>2, <2>4 DEF InTime
  <2> QED BY <2>2, <2>3, <2>5 DEF ServerInv
<1>12. CASE UNCHANGED serverVars
  <2>1. Works /\ UNCHANGED lifeVars
    <3>1. UNCHANGED <<closed, job, deviceTokens, installed, phoneKnown>> /\ UNCHANGED lifeVars
      BY <1>12 DEF serverVars, dispatcherVars
    <3> QED BY <1>0, <3>1, LifeKeeps DEF Works
  <2> QED BY <2>1, WorksKeeps
<1> QED BY <1>1, <1>2, <1>3, <1>4, <1>5, <1>6, <1>7, <1>8, <1>9, <1>10, <1>11, <1>12 DEF ServerNext, Stopping

\* The state run() starts from.
LEMMA ServerStarts == ServerInit => ServerInv
<1> SUFFICES ASSUME ServerInit PROVE ServerInv
    OBVIOUS
<1>1. /\ closed = FALSE /\ job = [e \in Events |-> NoJob] /\ deviceTokens = Devices
      /\ installed \in SUBSET Devices /\ phoneKnown = TRUE
  BY DEF ServerInit, DispatcherInit
<1>2. NoJob \in JobRow
  BY DEF NoJob, JobRow, JobPlaces
<1>3. DispatcherTypes
  BY <1>1, <1>2 DEF DispatcherTypes
<1>4. running = {}
  BY <1>1 DEF running, NoJob
<1>5. Slots
  BY <1>1, <1>4, FS_EmptySet, DispatcherAssumption DEF Slots, NoJob
<1>6. \A e \in Events : Honest(job[e])
  BY <1>1 DEF Honest, NoJob
<1>7. LifeTypes /\ Waited /\ InTime
  BY <1>1 DEF ServerInit, LifeTypes, Waited, InTime, LoopState
<1> QED BY <1>1, <1>3, <1>5, <1>6, <1>7 DEF ServerInv, DispatcherInv

\* What run(), the handlers, the jobs and the loops know of each other holds
\* after every step of any of them (main.go run, Dispatcher.goJob).
THEOREM ServerInvariance == ServerSpec => []ServerInv
BY ServerStarts, ServerStep, PTL DEF ServerSpec

\* However many events, devices and slots there are: the pool outlives every
\* pass that uses it, jobs stay within their slots, and a stop within its
\* deadline refuses no notification and leaves no request, job or batch
\* unfinished (run, Dispatcher.Shutdown).
THEOREM StopsClean == ServerSpec => []CleanExit
<1>1. ServerInv => CleanExit
  <2> SUFFICES ASSUME ServerInv PROVE CleanExit
      OBVIOUS
  <2>0. LifeTypes /\ Waited /\ InTime /\ Slots /\ DOMAIN handler = Events \ ExpiryEvents
    BY DEF ServerInv, DispatcherInv, LifeTypes
  <2>1. Jobs = running
    BY DEF Jobs, running
  <2>2. ~poolOpen => expiry = "stopped" /\ cleanup = "stopped"
    BY <2>0 DEF Waited
  <2>3. Cardinality(Jobs) <= MaxInFlight
    BY <2>0, <2>1 DEF Slots
  <2>4. phase \in {"broadcasts", "deferred", "cleanup", "expiry", "exited"} /\ closed /\ ~deadline => Jobs = {}
    BY <2>0, <2>1 DEF InTime
  <2>5. phase = "exited" /\ closed /\ ~deadline =>
          /\ batch = "stopped"
          /\ \A e \in DOMAIN handler : handler[e] # "running" /\ job[e].pc # "refused"
    BY <2>0 DEF InTime
  <2> QED BY <2>2, <2>3, <2>4, <2>5 DEF CleanExit
<1> QED BY <1>1, ServerInvariance, PTL

\* Whatever FCM answers and however jobs interleave, a device that still has
\* the app keeps its row, and an SMS goes out only when no device of the job
\* can be reached (isInvalidTokenError, pushStatus).
THEOREM ReachableStay == ServerSpec => []ReachableNotGivenUp
<1>1. ServerInv => ReachableNotGivenUp
  BY DEF ServerInv, DispatcherInv, Honest, ReachableNotGivenUp
<1> QED BY <1>1, ServerInvariance, PTL


-----------------------------------------------------------------------------
(* The request limiter.  A bucket's debt is last - tokens: a charge never   *)
(* lowers it and an admission raises it by one, whatever moment the charged *)
(* request arrived at.  A sweep forgets it, which a request that waited for *)
(* the mutex can use for as long as it waited, and another as long before.  *)

LEMMA MaxIs ==
    ASSUME NEW S, S \subseteq Int, NEW m \in S, \A y \in S : m >= y
    PROVE  Max(S) = m
<1>1. \A x \in S : (\A y \in S : x >= y) => x = m
  OBVIOUS
<1> QED BY <1>1 DEF Max

LEMMA MinOfTwo ==
    ASSUME NEW a \in Int, NEW b \in Int
    PROVE  Min({a, b}) = IF a <= b THEN a ELSE b
<1>1. \A x \in {a, b} : (\A y \in {a, b} : x =< y) => x = IF a <= b THEN a ELSE b
  OBVIOUS
<1>2. \E x \in {a, b} : \A y \in {a, b} : x =< y
  <2>1. CASE a <= b
    BY <2>1
  <2>2. CASE ~(a <= b)
    BY <2>2
  <2> QED BY <2>1, <2>2
<1> QED BY <1>1, <1>2 DEF Min

\* Whatever a client puts into the header before the proxy appends its
\* address, it is metered under its own key.
LEMMA OwnKey ==
    ASSUME NEW c \in Clients, NEW host \in 0..1
    PROVE  rateLimitKey(resolveClientIP(Proxy, Append(ForgedHops[host], <<c, host>>), {Proxy})) = c
<1>0. c # "proxy" /\ c # "garbage"
  BY LimiterAssumption
<1>1. PICK F \in Seq({<<"forged", 0>>, <<"garbage", 0>>}) : F = ForgedHops[host]
  <2> DEFINE A == {<<"forged", 0>>, <<"garbage", 0>>}
  <2>1. ForgedHops[host] = IF host = 0 THEN <<>> ELSE <<<<"forged", 0>>, <<"garbage", 0>>>>
    BY DEF ForgedHops, Garbage
  <2>2. <<"forged", 0>> \in A /\ <<"garbage", 0>> \in A
    OBVIOUS
  <2>3. <<>> \in Seq(A)
    OBVIOUS
  <2>4. <<<<"forged", 0>>, <<"garbage", 0>>>> \in Seq(A)
    <3> HIDE DEF A
    <3> QED BY <2>2
  <2>5. ForgedHops[host] \in Seq(A)
    <3> HIDE DEF A
    <3> QED BY <2>1, <2>3, <2>4
  <2> QED BY <2>5
<1>2. PICK n \in Nat : n = Len(F) + 1 /\ n > 0
  BY <1>1
<1>3. PICK hops : hops = Append(F, <<c, host>>)
  OBVIOUS
<1>4. DOMAIN hops = 1..n /\ hops[n] = <<c, host>> /\ n \in 1..n
  BY <1>1, <1>2, <1>3
<1>5. <<c, host>> # <<"proxy", 0>> /\ <<c, host>> # <<"garbage", 0>>
  BY <1>0
<1>6. PICK stops : stops = {x \in DOMAIN hops : hops[x] \notin {Proxy}}
  OBVIOUS
<1>7. stops \subseteq 1..n /\ n \in stops
  BY <1>4, <1>5, <1>6 DEF Proxy
<1>8. Max(stops) = n /\ stops # {} /\ n > 0
  <2>1. stops \subseteq Int /\ \A y \in stops : n >= y
    BY <1>2, <1>7
  <2>2. Max(stops) = n
    BY <2>1, <1>7, MaxIs, Zenon
  <2> QED BY <2>2, <1>2, <1>7
<1>9. resolveClientIP(Proxy, hops, {Proxy}) = <<c, host>>
  BY <1>4, <1>5, <1>6, <1>8 DEF resolveClientIP, Garbage
<1> QED BY <1>1, <1>3, <1>9 DEF rateLimitKey

LimiterTypes ==
    /\ tick \in 0..LimitHorizon
    /\ lastSweep \in Int
    /\ metered \in [Clients -> [0..LimitHorizon -> Nat]]
    /\ forgiven \in [Clients -> Nat]
    /\ DOMAIN buckets \subseteq Clients
    /\ IsFiniteSet(DOMAIN buckets) /\ Cardinality(DOMAIN buckets) <= MaxClients

\* A request that waits for the mutex arrived at most LimiterLag ticks ago.
Waits(q) ==
    /\ q.client \in Clients /\ q.key = q.client
    /\ q.now \in 0..tick /\ tick - q.now <= LimiterLag

Debt(b) == b.last - b.tokens

Bucket(b, now) ==
    /\ b.tokens \in Int /\ b.last \in Int
    /\ b.tokens <= LimitBurst
    /\ Debt(b) <= now /\ Debt(b) <= b.last + LimiterLag

\* What the debt says about a window of arrivals: after a of them, it has
\* grown by that much since the first.
Owes(a, s, F, tracked, debt, now) ==
    \/ a = 0
    \/ tracked /\ a <= debt + LimitBurst - s + F
    \/ ~tracked /\ a <= now - s - LimiterLag + F

Window(c, s, t) ==
    /\ admitted(c, s, t) <= LimitBurst + (t - s) + forgiven[c]
    /\ Owes(admitted(c, s, t), s, forgiven[c], c \in DOMAIN buckets, Debt(buckets[c]), tick)

LimiterInv ==
    /\ LimiterTypes
    /\ \A q \in arrived : Waits(q)
    /\ \A c \in DOMAIN buckets : Bucket(buckets[c], tick)
    /\ \A c \in Clients, s, t \in 0..LimitHorizon : s <= t => Window(c, s, t)

LEMMA AdmittedNat ==
    ASSUME metered \in [Clients -> [0..LimitHorizon -> Nat]], NEW c \in Clients,
           NEW s \in 0..LimitHorizon, NEW t \in 0..LimitHorizon
    PROVE  admitted(c, s, t) \in Nat
<1>1. PICK f : f = metered[c]
  OBVIOUS
<1>2. \A x \in s..t : f[x] \in Nat
  BY <1>1, LimiterAssumption
<1>3. IsFiniteSet(s..t)
  BY FS_Interval, LimiterAssumption
<1>4. SumFunctionOnSet(f, s..t) \in Nat
  BY <1>2, <1>3, SumNat
<1> QED BY <1>1, <1>4 DEF admitted

Admits(c, x) == metered' = [metered EXCEPT ![c][x] = @ + 1]

\* An admission at one moment is counted in the windows around it.
LEMMA AdmittedMore ==
    ASSUME LimiterTypes, NEW c \in Clients, NEW x \in 0..LimitHorizon, Admits(c, x),
           NEW s \in 0..LimitHorizon, NEW t \in 0..LimitHorizon
    PROVE  admitted(c, s, t)' = IF x \in s..t THEN admitted(c, s, t) + 1 ELSE admitted(c, s, t)
<1>1. PICK f \in [0..LimitHorizon -> Nat] : f = metered[c]
  BY DEF LimiterTypes
<1>2. PICK n \in Nat : n = f[x] + 1
  OBVIOUS
<1>3. PICK g : g = [f EXCEPT ![x] = n]
  OBVIOUS
<1>4. metered'[c] = g
  BY <1>1, <1>2, <1>3 DEF Admits, LimiterTypes
<1>5. g[x] = n /\ \A y \in (0..LimitHorizon) \ {x} : g[y] = f[y]
  BY <1>1, <1>3
<1>6. IsFiniteSet(s..t) /\ s..t \subseteq 0..LimitHorizon
  <2>1. s \in Int /\ t \in Int
    BY LimiterAssumption
  <2>2. IsFiniteSet(s..t)
    BY <2>1, FS_Interval
  <2>3. s..t \subseteq 0..LimitHorizon
    BY LimiterAssumption
  <2> QED BY <2>2, <2>3
<1>7. \A y \in s..t : f[y] \in Int /\ g[y] \in Int
  <2> SUFFICES ASSUME NEW y \in s..t PROVE f[y] \in Int /\ g[y] \in Int
    OBVIOUS
  <2>1. y \in 0..LimitHorizon
    BY <1>6
  <2>2. f[y] \in Nat
    BY <1>1, <2>1
  <2>3. g[y] \in Nat
    <3>1. CASE y = x
      BY <3>1, <1>2, <1>5
    <3>2. CASE y # x
      BY <3>2, <1>5, <2>1, <2>2
    <3> QED BY <3>1, <3>2
  <2> QED BY <2>2, <2>3
<1>8. CASE x \in s..t
  <2>1. \A y \in (s..t) \ {x} : g[y] = f[y]
    BY <1>5, <1>6
  <2>2. SumFunctionOnSet(g, s..t) = SumFunctionOnSet(f, s..t) + g[x] - f[x]
    BY <1>6, <1>7, <1>8, <2>1, SumChange
  <2>3. SumFunctionOnSet(f, s..t) \in Int
    BY <1>6, <1>7, SumInt
  <2>4. f[x] \in Nat
    BY <1>1
  <2>5. SumFunctionOnSet(g, s..t) = SumFunctionOnSet(f, s..t) + 1
    BY <1>2, <1>5, <2>2, <2>3, <2>4
  <2> QED BY <1>1, <1>4, <1>8, <2>5 DEF admitted
<1>9. CASE x \notin s..t
  <2>1. \A y \in s..t : g[y] = f[y]
    BY <1>5, <1>6, <1>9
  <2>2. SumFunctionOnSet(g, s..t) = SumFunctionOnSet(f, s..t)
    BY <1>6, <2>1, SumSame
  <2> QED BY <1>1, <1>4, <1>9, <2>2 DEF admitted
<1> QED BY <1>8, <1>9

\* A sweep keeps some buckets and drops only what has been idle for as long
\* as it takes to fill.
LEMMA SweptIdle ==
    ASSUME NEW c, NEW now, NEW keys, keys = swept(c, now).keys
    PROVE  /\ keys \subseteq DOMAIN buckets
           /\ \A k \in DOMAIN buckets \ keys : ~(now - buckets[k].last < LimitBurst)
<1> DEFINE regular == now - lastSweep >= SweepInterval
           after == IF regular THEN sweep(buckets, now) ELSE DOMAIN buckets
           stamp == IF regular THEN now ELSE lastSweep
           forced == c \notin after /\ Cardinality(after) >= MaxClients /\ now - stamp >= MinSweepGap
<1>1. keys = IF forced THEN sweep([k \in after |-> buckets[k]], now) ELSE after
  BY DEF swept
<1>2. after \subseteq DOMAIN buckets /\ \A k \in DOMAIN buckets \ after : ~(now - buckets[k].last < LimitBurst)
  BY DEF sweep
<1>3. sweep([k \in after |-> buckets[k]], now) = {k \in after : now - buckets[k].last < LimitBurst}
  BY DEF sweep
<1> HIDE DEF after, forced
<1> QED BY <1>1, <1>2, <1>3

\* A dropped bucket leaves a debt that twice the wait has paid.
LEMMA SweepOwes ==
    ASSUME NEW A \in Nat, NEW s \in Nat, NEW F \in Nat, NEW tk \in Nat, NEW now \in 0..tk,
           NEW b, Bucket(b, tk), ~(now - b.last < LimitBurst),
           Owes(A, s, F, TRUE, Debt(b), tk), NEW d
    PROVE  Owes(A, s, F + 2 * LimiterLag, FALSE, d, tk)
<1>1. LimitBurst \in Nat /\ LimiterLag \in Nat
  BY LimiterAssumption
<1>2. PICK x \in Int : x = b.last
  BY DEF Bucket
<1>3. PICK e \in Int : e = Debt(b)
  BY DEF Bucket, Debt
<1>4. e <= x + LimiterLag /\ ~(now - x < LimitBurst)
  BY <1>2, <1>3 DEF Bucket
<1>5. A = 0 \/ A <= e + LimitBurst - s + F
  BY <1>3 DEF Owes
<1>6. A = 0 \/ A <= tk - s - LimiterLag + (F + 2 * LimiterLag)
  BY <1>1, <1>4, <1>5
<1> QED BY <1>6 DEF Owes

\* A bucket starts full at the moment its first request arrived.
LEMMA FreshOwes ==
    ASSUME NEW A \in Nat, NEW s \in Nat, NEW F \in Nat, NEW tk \in Nat, NEW now \in 0..tk,
           tk - now <= LimiterLag, NEW d, Owes(A, s, F, FALSE, d, tk),
           NEW b, b = [tokens |-> LimitBurst, last |-> now]
    PROVE  Owes(A, s, F, TRUE, Debt(b), tk) /\ Bucket(b, tk)
<1>1. LimitBurst \in Nat /\ LimiterLag \in Nat
  BY LimiterAssumption
<1>2. Debt(b) = now - LimitBurst /\ b.tokens = LimitBurst /\ b.last = now
  BY DEF Debt
<1>3. A = 0 \/ A <= tk - s - LimiterLag + F
  BY DEF Owes
<1>4. A = 0 \/ A <= (now - LimitBurst) + LimitBurst - s + F
  BY <1>1, <1>3
<1>5. Bucket(b, tk)
  BY <1>1, <1>2 DEF Bucket
<1> QED BY <1>2, <1>4, <1>5 DEF Owes

\* The charge: the debt never falls, an admission raises it by one and
\* leaves it no later than the request's own moment.
LEMMA ChargeDebt ==
    ASSUME NEW tk \in Nat, NEW now \in 0..tk, tk - now <= LimiterLag, NEW b, Bucket(b, tk),
           NEW tokens, tokens = Min({LimitBurst, b.tokens + (now - b.last)}),
           NEW nb, nb = [tokens |-> IF tokens >= 1 THEN tokens - 1 ELSE tokens, last |-> now]
    PROVE  /\ Bucket(nb, tk) /\ Debt(nb) \in Int /\ Debt(b) \in Int /\ tokens \in Int
           /\ Debt(nb) >= Debt(b)
           /\ tokens >= 1 => /\ Debt(nb) >= Debt(b) + 1
                             /\ Debt(nb) >= now - LimitBurst + 1
                             /\ Debt(nb) <= now
<1>1. LimitBurst \in Nat /\ LimitBurst >= 1 /\ LimiterLag \in Nat
  BY LimiterAssumption
<1>2. PICK x \in Int, y \in Int : x = b.last /\ y = b.tokens
  BY DEF Bucket
<1>3. Debt(b) = x - y /\ y <= LimitBurst /\ x - y <= tk /\ x - y <= x + LimiterLag
  BY <1>2 DEF Bucket, Debt
<1>4. tokens = IF LimitBurst <= y + (now - x) THEN LimitBurst ELSE y + (now - x)
  <2>1. LimitBurst \in Int /\ y + (now - x) \in Int
    BY <1>1
  <2> QED BY <2>1, <1>2, MinOfTwo
<1>5. tokens \in Int /\ tokens <= LimitBurst /\ tokens <= y + (now - x)
  BY <1>1, <1>4
<1>6. PICK z \in Int : z = IF tokens >= 1 THEN tokens - 1 ELSE tokens
  BY <1>5
<1>7. nb.tokens = z /\ nb.last = now /\ Debt(nb) = now - z
  BY <1>6 DEF Debt
<1>8. CASE tokens >= 1
  <2>1. z = tokens - 1
    BY <1>6, <1>8
  <2>2. z <= LimitBurst /\ now - z <= tk /\ now - z <= now + LimiterLag /\ now - z >= x - y + 1
        /\ now - z >= now - LimitBurst + 1 /\ now - z <= now
    BY <2>1, <1>1, <1>5, <1>8
  <2> QED BY <2>2, <1>3, <1>5, <1>7 DEF Bucket
<1>9. CASE ~(tokens >= 1)
  <2>1. z = y + (now - x)
    BY <1>1, <1>4, <1>6, <1>9
  <2>2. z <= LimitBurst /\ now - z <= tk /\ now - z <= now + LimiterLag /\ now - z >= x - y
    BY <2>1, <1>1, <1>3, <1>5, <1>6, <1>9
  <2> QED BY <2>2, <1>3, <1>5, <1>7, <1>9 DEF Bucket
<1> QED BY <1>8, <1>9

\* What the charge does to a window, in numbers.
LEMMA ChargeWindow ==
    ASSUME NEW A \in Nat, NEW s \in Nat, NEW t \in Nat, s <= t, NEW F \in Nat, NEW tk \in Nat, NEW now \in 0..tk,
           NEW d \in Int, NEW e \in Int, NEW admit \in BOOLEAN,
           A <= LimitBurst + (t - s) + F, Owes(A, s, F, TRUE, d, tk),
           e >= d, admit => e >= d + 1 /\ e >= now - LimitBurst + 1 /\ e <= now,
           NEW B, B = IF admit /\ now \in s..t THEN A + 1 ELSE A
    PROVE  B <= LimitBurst + (t - s) + F /\ Owes(B, s, F, TRUE, e, tk)
<1>1. LimitBurst \in Nat
  BY LimiterAssumption
<1>2. A = 0 \/ A <= d + LimitBurst - s + F
  BY DEF Owes
<1>3. CASE admit /\ now \in s..t
  <2>1. B = A + 1
    BY <1>3
  <2>2. B <= e + LimitBurst - s + F
    BY <2>1, <1>1, <1>2, <1>3
  <2>3. B <= LimitBurst + (t - s) + F
    BY <2>1, <2>2, <1>1, <1>3
  <2> QED BY <2>2, <2>3 DEF Owes
<1>4. CASE ~(admit /\ now \in s..t)
  <2>1. B = A
    BY <1>4
  <2>2. B = 0 \/ B <= e + LimitBurst - s + F
    BY <2>1, <1>1, <1>2
  <2> QED BY <2>1, <2>2 DEF Owes
<1> QED BY <1>3, <1>4

Horizon == 0..LimitHorizon

LEMMA LimiterStart == ASSUME LimiterInit PROVE LimiterInv
<1>1. LimitHorizon \in Nat /\ LimitBurst \in Nat /\ MaxClients \in Nat
  BY LimiterAssumption
<1>2. DOMAIN buckets = {}
  BY DEF LimiterInit
<1>3. IsFiniteSet(DOMAIN buckets) /\ Cardinality(DOMAIN buckets) = 0
  BY <1>2, FS_EmptySet
<1>4. LimiterTypes
  BY <1>1, <1>2, <1>3 DEF LimiterInit, LimiterTypes
<1>5. ASSUME NEW c \in Clients, NEW s \in Horizon, NEW t \in Horizon, s <= t PROVE Window(c, s, t)
  <2>1. PICK f : f = metered[c]
    OBVIOUS
  <2>2. s \in Int /\ t \in Int /\ s..t \subseteq Horizon
    BY <1>1, <1>5 DEF Horizon
  <2>3. \A x \in s..t : f[x] = 0
    BY <2>1, <2>2 DEF LimiterInit, Horizon
  <2>4. IsFiniteSet(s..t)
    BY <2>2, FS_Interval
  <2>5. SumFunctionOnSet(f, s..t) = 0
    BY <2>3, <2>4, SumZero
  <2>6. admitted(c, s, t) = 0
    BY <2>1, <2>5 DEF admitted
  <2>7. forgiven[c] = 0
    BY DEF LimiterInit
  <2>8. 0 <= LimitBurst + (t - s) + 0
    BY <1>1, <1>5 DEF Horizon
  <2> QED BY <2>6, <2>7, <2>8 DEF Window, Owes
<1> QED BY <1>2, <1>4, <1>5 DEF LimiterInv, LimiterInit, Horizon

LEMMA ArrivalKeeps ==
    ASSUME LimiterInv, NEW c \in Clients, RateLimit(c)
    PROVE  LimiterInv'
<1>1. PICK host \in 0..1 :
        arrived' = arrived \cup
             {[client |-> c, now |-> tick, n |-> Cardinality(arrived),
               key |-> rateLimitKey(resolveClientIP(Proxy, Append(ForgedHops[host], <<c, host>>), {Proxy}))]}
  BY DEF RateLimit
<1>2. UNCHANGED <<tick, buckets, lastSweep, metered, forgiven>>
  BY DEF RateLimit
<1>3. arrived' = arrived \cup {[client |-> c, now |-> tick, n |-> Cardinality(arrived), key |-> c]}
  BY <1>1, OwnKey
<1>4. tick \in 0..tick /\ tick - tick <= LimiterLag
  BY LimiterAssumption DEF LimiterInv, LimiterTypes
<1>5. \A q \in arrived' : Waits(q)
  BY <1>3, <1>4 DEF LimiterInv, Waits
<1>6. \A q \in arrived' : Waits(q)'
  BY <1>2, <1>5 DEF Waits
<1>7. LimiterTypes'
  BY <1>2 DEF LimiterInv, LimiterTypes
<1>8. \A d \in Clients, s, t \in 0..LimitHorizon : s <= t => Window(d, s, t)'
  BY <1>2 DEF LimiterInv, Window, admitted
<1> QED BY <1>2, <1>6, <1>7, <1>8 DEF LimiterInv

LEMMA TickKeeps ==
    ASSUME LimiterInv, LimiterTick
    PROVE  LimiterInv'
<1>1. tick \in Nat /\ tick' = tick + 1 /\ tick' \in 0..LimitHorizon /\ LimiterLag \in Nat /\ LimitBurst \in Nat
  BY LimiterAssumption DEF LimiterInv, LimiterTypes, LimiterTick
<1>2. UNCHANGED <<buckets, lastSweep, arrived, metered, forgiven>>
  BY DEF LimiterTick
<1>3. LimiterTypes'
  BY <1>1, <1>2 DEF LimiterInv, LimiterTypes
<1>4. \A q \in arrived : Waits(q)'
  <2> SUFFICES ASSUME NEW q \in arrived PROVE Waits(q)'
    OBVIOUS
  <2>1. Waits(q) /\ tick - q.now < LimiterLag
    BY DEF LimiterInv, LimiterTick
  <2>2. q.now \in 0..tick' /\ tick' - q.now <= LimiterLag
    BY <1>1, <2>1 DEF Waits
  <2> QED BY <2>1, <2>2 DEF Waits
<1>5. \A c \in DOMAIN buckets : Bucket(buckets[c], tick')
  <2> SUFFICES ASSUME NEW c \in DOMAIN buckets PROVE Bucket(buckets[c], tick')
    OBVIOUS
  <2>1. Bucket(buckets[c], tick)
    BY DEF LimiterInv
  <2>2. Debt(buckets[c]) \in Int
    BY <2>1 DEF Bucket, Debt
  <2> QED BY <1>1, <2>1, <2>2 DEF Bucket
<1>6. ASSUME NEW c \in Clients, NEW s \in 0..LimitHorizon, NEW t \in 0..LimitHorizon, s <= t
      PROVE  Window(c, s, t)'
  <2>1. Window(c, s, t)
    BY <1>6 DEF LimiterInv
  <2>2. PICK A \in Nat : A = admitted(c, s, t)
    BY AdmittedNat DEF LimiterInv, LimiterTypes
  <2>3. admitted(c, s, t)' = A
    BY <1>2, <2>2 DEF admitted
  <2>4. PICK F \in Nat : F = forgiven[c]
    BY DEF LimiterInv, LimiterTypes
  <2>5. PICK d : d = Debt(buckets[c])
    OBVIOUS
  <2>6. Owes(A, s, F, c \in DOMAIN buckets, d, tick)
    BY <2>1, <2>2, <2>4, <2>5 DEF Window
  <2>7. s \in Nat
    BY LimiterAssumption
  <2>8. Owes(A, s, F, c \in DOMAIN buckets, d, tick')
    BY <1>1, <2>6, <2>7 DEF Owes
  <2> QED BY <1>2, <2>1, <2>2, <2>3, <2>4, <2>5, <2>8 DEF Window
<1> QED BY <1>2, <1>3, <1>4, <1>5, <1>6 DEF LimiterInv

LEMMA AllowKeeps ==
    ASSUME LimiterInv, NEW q \in arrived, allow(q)
    PROVE  LimiterInv'
<1>0. LimitHorizon \in Nat /\ LimitBurst \in Nat /\ LimiterLag \in Nat /\ MaxClients \in Nat
  BY LimiterAssumption
<1>1. PICK c \in Clients : c = q.key /\ c = q.client
  BY DEF LimiterInv, Waits
<1>2. PICK now \in 0..tick : now = q.now /\ tick - now <= LimiterLag
  BY DEF LimiterInv, Waits
<1>3. tick \in Nat /\ tick \in 0..LimitHorizon /\ now \in 0..LimitHorizon /\ now \in Nat
  BY <1>0 DEF LimiterInv, LimiterTypes
<1>4. PICK keys : keys = swept(q.key, q.now).keys
  OBVIOUS
<1>5. PICK b : b = IF c \in keys THEN buckets[c] ELSE [tokens |-> LimitBurst, last |-> now]
  OBVIOUS
<1>6. PICK tokens : tokens = Min({LimitBurst, b.tokens + (now - b.last)})
  OBVIOUS
<1>7. PICK full \in BOOLEAN : full = (c \notin keys /\ Cardinality(keys) >= MaxClients)
  BY Zenon
<1>8. PICK nb : nb = [tokens |-> IF tokens >= 1 THEN tokens - 1 ELSE tokens, last |-> now]
  OBVIOUS
<1>9. PICK kept : kept = keys \cup (IF full THEN {} ELSE {c})
  OBVIOUS
<1>10. /\ arrived' = arrived \ {q} /\ tick' = tick
       /\ buckets' = [k \in kept |-> IF k # c THEN buckets[k] ELSE nb]
       /\ metered' = IF ~full /\ tokens >= 1 THEN [metered EXCEPT ![c][now] = @ + 1] ELSE metered
       /\ forgiven' = [k \in Clients |-> IF k \in DOMAIN buckets \ keys
                                         THEN forgiven[k] + 2 * LimiterLag ELSE forgiven[k]]
  BY <1>1, <1>2, <1>4, <1>5, <1>6, <1>7, <1>8, <1>9 DEF allow
<1>11. lastSweep' \in Int
  <2>1. lastSweep' = swept(q.key, q.now).at
    BY DEF allow
  <2>2. lastSweep \in Int /\ q.now \in Int
    BY <1>2, <1>3 DEF LimiterInv, LimiterTypes
  <2> QED BY <2>1, <2>2 DEF swept
<1>12. keys \subseteq DOMAIN buckets /\ \A k \in DOMAIN buckets \ keys : ~(now - buckets[k].last < LimitBurst)
  BY <1>2, <1>4, SweptIdle
<1>13. DOMAIN buckets \subseteq Clients /\ \A k \in DOMAIN buckets : Bucket(buckets[k], tick)
  BY DEF LimiterInv, LimiterTypes
<1>14. DOMAIN buckets' = kept /\ \A k \in kept : buckets'[k] = IF k # c THEN buckets[k] ELSE nb
  BY <1>10
<1>15. Cardinality(kept) <= MaxClients /\ IsFiniteSet(kept)
  <2>1. IsFiniteSet(keys) /\ Cardinality(keys) <= Cardinality(DOMAIN buckets)
    BY <1>12, FS_Subset DEF LimiterInv, LimiterTypes
  <2>2. Cardinality(keys) \in Nat /\ Cardinality(DOMAIN buckets) \in Nat
    BY <2>1, FS_CardinalityType DEF LimiterInv, LimiterTypes
  <2>3. Cardinality(keys) <= MaxClients
    BY <1>0, <2>1, <2>2 DEF LimiterInv, LimiterTypes
  <2>4. CASE full \/ c \in keys
    <3>1. kept = keys
      BY <1>9, <2>4
    <3> QED BY <3>1, <2>1, <2>3
  <2>5. CASE ~full /\ c \notin keys
    <3>1. kept = keys \cup {c}
      BY <1>9, <2>5
    <3>2. Cardinality(keys) < MaxClients
      <4>1. ~(Cardinality(keys) >= MaxClients)
        BY <1>7, <2>5, Zenon
      <4> QED BY <4>1, <1>0, <2>2
    <3>3. IsFiniteSet(kept) /\ Cardinality(kept) = Cardinality(keys) + 1
      BY <3>1, <2>1, <2>5, FS_AddElement, Zenon
    <3> QED BY <1>0, <2>2, <3>2, <3>3
  <2> QED BY <2>4, <2>5
<1>16. metered' \in [Clients -> [0..LimitHorizon -> Nat]]
  <2>1. metered \in [Clients -> [0..LimitHorizon -> Nat]]
    BY DEF LimiterInv, LimiterTypes
  <2>2. PICK f \in [0..LimitHorizon -> Nat] : f = metered[c]
    BY <2>1
  <2>3. PICK n \in Nat : n = f[now] + 1
    BY <1>3
  <2>4. PICK g \in [0..LimitHorizon -> Nat] : g = [f EXCEPT ![now] = n]
    BY <1>3, <2>3
  <2>5. [metered EXCEPT ![c][now] = @ + 1] = [metered EXCEPT ![c] = g]
    BY <2>1, <2>2, <2>3, <2>4
  <2> QED BY <1>10, <2>1, <2>4, <2>5
<1>17. forgiven' \in [Clients -> Nat]
  <2>1. \A k \in Clients : forgiven[k] \in Nat /\ forgiven[k] + 2 * LimiterLag \in Nat
    BY <1>0 DEF LimiterInv, LimiterTypes
  <2> QED BY <1>10, <2>1
<1>18. LimiterTypes'
  <2>1. kept \subseteq Clients
    BY <1>9, <1>12, <1>13
  <2> QED BY <1>3, <1>10, <1>11, <1>14, <1>15, <1>16, <1>17, <2>1 DEF LimiterTypes
<1>19. \A r \in arrived' : Waits(r)'
  BY <1>10 DEF LimiterInv, Waits
<1>20. ASSUME NEW k \in Clients, NEW s \in 0..LimitHorizon, NEW t \in 0..LimitHorizon, s <= t, NEW A, A = admitted(k, s, t)
       PROVE  /\ A \in Nat /\ forgiven'[k] \in Nat /\ s \in Nat /\ t \in Nat
              /\ A <= LimitBurst + (t - s) + forgiven'[k]
              /\ Owes(A, s, forgiven'[k], k \in keys, Debt(buckets[k]), tick)
  <2>1. Window(k, s, t)
    BY <1>20 DEF LimiterInv
  <2>2. PICK F \in Nat : F = forgiven[k]
    BY DEF LimiterInv, LimiterTypes
  <2>3. A \in Nat /\ s \in Nat /\ t \in Nat
    BY <1>0, <1>20, AdmittedNat, SMTT(20) DEF LimiterInv, LimiterTypes
  <2>4. A <= LimitBurst + (t - s) + F /\ Owes(A, s, F, k \in DOMAIN buckets, Debt(buckets[k]), tick)
    BY <1>20, <2>1, <2>2 DEF Window
  <2>5. CASE k \in DOMAIN buckets \ keys
    <3>1. forgiven'[k] = F + 2 * LimiterLag
      BY <1>10, <2>2, <2>5
    <3>2. A <= LimitBurst + (t - s) + (F + 2 * LimiterLag) /\ F + 2 * LimiterLag \in Nat
      BY <1>0, <2>3, <2>4
    <3>3. Bucket(buckets[k], tick) /\ ~(now - buckets[k].last < LimitBurst)
      BY <1>12, <1>13, <2>5
    <3>4. Owes(A, s, F, TRUE, Debt(buckets[k]), tick)
      BY <2>4, <2>5 DEF Owes
    <3>5. Owes(A, s, F + 2 * LimiterLag, FALSE, Debt(buckets[k]), tick)
      BY <1>3, <2>3, <3>3, <3>4, SweepOwes
    <3>6. (k \in keys) = FALSE
      BY <2>5
    <3> QED BY <2>3, <3>1, <3>2, <3>5, <3>6
  <2>6. CASE k \notin DOMAIN buckets \ keys
    <3>1. forgiven'[k] = F
      BY <1>10, <2>2, <2>6
    <3>2. (k \in keys) = (k \in DOMAIN buckets)
      BY <1>12, <2>6
    <3> QED BY <2>3, <2>4, <3>1, <3>2
  <2> QED BY <2>5, <2>6
<1>21. Bucket(b, tick)
  <2>1. CASE c \in keys
    BY <2>1, <1>5, <1>12, <1>13
  <2>2. CASE c \notin keys
    <3>1. Owes(0, 0, 0, FALSE, 0, tick)
      BY DEF Owes
    <3> QED BY <2>2, <3>1, <1>2, <1>3, <1>5, FreshOwes
  <2> QED BY <2>1, <2>2
<1>22. /\ Bucket(nb, tick) /\ Debt(nb) \in Int /\ Debt(b) \in Int /\ tokens \in Int
       /\ Debt(nb) >= Debt(b)
       /\ tokens >= 1 => /\ Debt(nb) >= Debt(b) + 1
                         /\ Debt(nb) >= now - LimitBurst + 1
                         /\ Debt(nb) <= now
  BY <1>2, <1>3, <1>6, <1>8, <1>21, ChargeDebt
<1>23. \A k \in kept : Bucket(buckets'[k], tick)
  BY <1>9, <1>12, <1>13, <1>14, <1>22
<1>24. ASSUME NEW k \in Clients, NEW s \in 0..LimitHorizon, NEW t \in 0..LimitHorizon, s <= t
       PROVE  Window(k, s, t)'
  <2>1. PICK A : A = admitted(k, s, t)
    OBVIOUS
  <2>2. PICK F : F = forgiven'[k]
    OBVIOUS
  <2>3. /\ A \in Nat /\ F \in Nat /\ s \in Nat /\ t \in Nat
        /\ A <= LimitBurst + (t - s) + F
        /\ Owes(A, s, F, k \in keys, Debt(buckets[k]), tick)
    BY <1>20, <1>24, <2>1, <2>2
  <2>4. CASE k # c
    <3>1. metered'[k] = metered[k]
      BY <1>10, <2>4 DEF LimiterInv, LimiterTypes
    <3>2. admitted(k, s, t)' = A
      BY <2>1, <3>1 DEF admitted
    <3>3. (k \in kept) = (k \in keys)
      BY <1>9, <2>4
    <3>4. k \in kept => buckets'[k] = buckets[k]
      BY <1>14, <2>4
    <3>5. Owes(A, s, F, k \in kept, Debt(buckets'[k]), tick)
      BY <2>3, <3>3, <3>4 DEF Owes
    <3>6. A <= LimitBurst + (t - s) + forgiven'[k] /\ Owes(A, s, forgiven'[k], k \in DOMAIN buckets', Debt(buckets'[k]), tick')
      BY <1>10, <1>14, <2>2, <2>3, <3>5
    <3> QED BY <3>2, <3>6 DEF Window, Debt
  <2>5. CASE k = c /\ full
    <3>1. metered'[k] = metered[k]
      BY <1>10, <2>5
    <3>2. admitted(k, s, t)' = A
      BY <2>1, <3>1 DEF admitted
    <3>3. k \notin keys /\ k \notin kept
      BY <1>7, <1>9, <2>5
    <3>4. Owes(A, s, F, k \in kept, Debt(buckets'[k]), tick)
      BY <2>3, <3>3 DEF Owes
    <3>6. A <= LimitBurst + (t - s) + forgiven'[k] /\ Owes(A, s, forgiven'[k], k \in DOMAIN buckets', Debt(buckets'[k]), tick')
      BY <1>10, <1>14, <2>2, <2>3, <3>4
    <3> QED BY <3>2, <3>6 DEF Window, Debt
  <2>6. CASE k = c /\ ~full
    <3>1. k \in kept /\ buckets'[k] = nb
      BY <1>9, <1>14, <2>6
    <3>2. Owes(A, s, F, TRUE, Debt(b), tick)
      <4>1. CASE k \in keys
        <5>1. b = buckets[k]
          BY <4>1, <1>5, <2>6
        <5> QED BY <5>1, <4>1, <2>3 DEF Owes
      <4>2. CASE k \notin keys
        <5>1. b = [tokens |-> LimitBurst, last |-> now]
          BY <4>2, <1>5, <2>6
        <5>2. Owes(A, s, F, FALSE, Debt(buckets[k]), tick)
          BY <4>2, <2>3 DEF Owes
        <5> QED BY <5>1, <5>2, <1>2, <1>3, <2>3, FreshOwes
      <4> QED BY <4>1, <4>2
    <3>3. PICK admit \in BOOLEAN : admit <=> tokens >= 1
      <4>1. CASE tokens >= 1
        BY <4>1, Zenon
      <4>2. CASE ~(tokens >= 1)
        BY <4>2, Zenon
      <4> QED BY <4>1, <4>2, Zenon
    <3>4. PICK B : B = IF admit /\ now \in s..t THEN A + 1 ELSE A
      OBVIOUS
    <3>5. B <= LimitBurst + (t - s) + F /\ Owes(B, s, F, TRUE, Debt(nb), tick)
      <4>1. PICK d \in Int, e \in Int : d = Debt(b) /\ e = Debt(nb)
        BY <1>22
      <4>2. e >= d /\ (admit => e >= d + 1 /\ e >= now - LimitBurst + 1 /\ e <= now)
        BY <4>1, <1>22, <3>3
      <4>3. Owes(A, s, F, TRUE, d, tick)
        BY <4>1, <3>2
      <4>4. B <= LimitBurst + (t - s) + F /\ Owes(B, s, F, TRUE, e, tick)
        BY <1>3, <1>24, <2>3, <3>4, <4>2, <4>3, ChargeWindow
      <4> QED BY <4>1, <4>4
    <3>6. admitted(k, s, t)' = B
      <4>1. CASE admit
        <5>1. Admits(k, now)
          BY <4>1, <1>10, <2>6, <3>3 DEF Admits
        <5>2. LimiterTypes
          BY DEF LimiterInv
        <5>3. admitted(k, s, t)' = IF now \in s..t THEN admitted(k, s, t) + 1 ELSE admitted(k, s, t)
          BY <5>1, <5>2, <1>3, AdmittedMore
        <5> QED BY <5>3, <4>1, <2>1, <3>4
      <4>2. CASE ~admit
        <5>1. metered' = metered
          BY <4>2, <1>10, <3>3
        <5> QED BY <5>1, <4>2, <2>1, <3>4 DEF admitted
      <4> QED BY <4>1, <4>2
    <3>7. Owes(B, s, F, k \in kept, Debt(buckets'[k]), tick)
      BY <3>1, <3>5 DEF Owes
    <3>8. B <= LimitBurst + (t - s) + forgiven'[k] /\ Owes(B, s, forgiven'[k], k \in DOMAIN buckets', Debt(buckets'[k]), tick')
      BY <1>10, <1>14, <2>2, <3>5, <3>7
    <3> QED BY <3>6, <3>8 DEF Window, Debt
  <2> QED BY <2>4, <2>5, <2>6
<1> QED BY <1>10, <1>14, <1>18, <1>19, <1>23, <1>24 DEF LimiterInv

\* LimiterInv holds of every behaviour of RateLimit: Debt says how much each
\* window of arrivals has cost, and a sweep turns it into forgiveness.
THEOREM LimiterInvariance == LimiterSpec => []LimiterInv
<1>1. LimiterInit => LimiterInv
  BY LimiterStart
<1>2. LimiterInv /\ [LimiterNext]_limiterVars => LimiterInv'
  <2> SUFFICES ASSUME LimiterInv, [LimiterNext]_limiterVars PROVE LimiterInv'
    OBVIOUS
  <2>1. CASE \E c \in Clients : RateLimit(c)
    BY <2>1, ArrivalKeeps
  <2>2. CASE \E q \in arrived : allow(q)
    BY <2>2, AllowKeeps
  <2>3. CASE LimiterTick
    BY <2>3, TickKeeps
  <2>4. CASE UNCHANGED limiterVars
    BY <2>4 DEF limiterVars, LimiterInv, LimiterTypes, Waits, Window, admitted
  <2> QED BY <2>1, <2>2, <2>3, <2>4 DEF LimiterNext
<1> QED BY <1>1, <1>2, PTL DEF LimiterSpec

\* However arrivals, late charges and sweeps interleave, a client is admitted
\* at most its burst plus one request a tick in any window of arrivals, plus
\* twice the wait for the mutex for each sweep that dropped its bucket, and
\* the map never outgrows its cap (rateLimiter.allow, sweep).
THEOREM NothingRefillsEarly == LimiterSpec => []NoEarlyRefill
<1>1. LimiterInv => NoEarlyRefill
  <2> SUFFICES ASSUME LimiterInv PROVE NoEarlyRefill
    OBVIOUS
  <2>1. ASSUME NEW c \in Clients, NEW s \in 0..tick, NEW t \in s..tick
        PROVE  admitted(c, s, t) <= LimitBurst + (t - s) + forgiven[c]
    <3>1. s \in 0..LimitHorizon /\ t \in 0..LimitHorizon /\ s <= t
      BY LimiterAssumption DEF LimiterInv, LimiterTypes
    <3> QED BY <3>1 DEF LimiterInv, Window
  <2> QED BY <2>1 DEF NoEarlyRefill, LimiterInv, LimiterTypes
<1> QED BY <1>1, LimiterInvariance, PTL

-----------------------------------------------------------------------------
(* The report cache.  Rows are as old as their query, a query is as old as  *)
(* its slot, an entry expires a time to live after it was stored, and       *)
(* whoever waits for a flight still wants the flight's key.                 *)

Rows == [at : Int, names : Int, when : Int]

\* A request's row keeps its five fields, whatever they hold.
Shape(x) == x = [pc |-> x.pc, todo |-> x.todo, to |-> x.to, names |-> x.names, got |-> x.got]

life(to, when) == IF to > when THEN OpenCacheTTL ELSE CacheTTL

Fresh(rows, to) == rows.when - rows.at < life(to, rows.when) + CacheLoadTimeout

Stamped(rows, now) == [rows EXCEPT !.when = now]

KeyOf(x) == [q |-> Head(x.todo), to |-> x.to, names |-> IF Head(x.todo) = "point" THEN x.names ELSE 0]

Entry(k, e, now) ==
    /\ k.to \in Int /\ e.rows \in Rows
    /\ \E s \in {e.expires - OpenCacheTTL, e.expires - CacheTTL} :
          /\ s \in Int /\ s <= now /\ s - e.rows.at <= CacheLoadTimeout
          /\ e.expires = s + life(k.to, s)
    /\ k.q = "point" => e.rows.names = k.names

\* A flight's query has not run out of time, and its rows are the query's.
Flight(k, f, now) ==
    /\ k.to \in Int
    /\ f \in [leader : Readers, waiters : SUBSET Readers, rows : Rows, since : Int,
              stage : {"start", "queued", "query", "read"}]
    /\ f.stage \in {"query", "read"} => f.since <= now /\ now - f.since <= CacheLoadTimeout
    /\ f.stage = "read" => /\ f.since <= f.rows.at /\ f.rows.at <= now
                           /\ k.q = "point" => f.rows.names = k.names

\* Who waits for a flight wants its key, and its leader is there or gave up.
Crew(k, f, rd, box) ==
    /\ \A w \in f.waiters : rd[w].pc = "wait" /\ KeyOf(rd[w]) = k /\ w \notin box
    /\ f.leader \in f.waiters \/ rd[f.leader].pc = "error"
    /\ k.q = "point" => rd[f.leader].names = k.names

\* A result that waits to be received answers what its reader asked.
Mail(m, x, failed) ==
    /\ x.pc = "wait"
    /\ m.kind = "rows" => /\ m.rows \in Rows /\ Fresh(m.rows, x.to)
                          /\ Head(x.todo) = "point" => m.rows.names = x.names
    /\ m.kind = "error" => \E k \in failed : k.to = x.to

Told(x, gone, failed) ==
    /\ Shape(x) /\ x.to \in Int /\ x.names \in Int
    /\ x.pc = "idle" => x.got = NoRows
    /\ x.got # NoRows => /\ Fresh(x.got, x.to)
                         /\ x.pc = "served" /\ Head(x.todo) = "point" => x.got.names = x.names
    /\ x.pc = "error" /\ ~gone => \E k \in failed : k.to = x.to

CacheSizes ==
    /\ IsFiniteSet(DOMAIN entries) /\ Cardinality(DOMAIN entries) <= CacheMaxEntries
    /\ IsFiniteSet(loading) /\ Cardinality(loading) <= CacheMaxLoads

CacheInv ==
    /\ clock \in Int /\ pointNames \in Int
    /\ DOMAIN reader = Readers /\ DOMAIN inbox \subseteq Readers
    /\ CacheSizes
    /\ \A k \in DOMAIN entries : Entry(k, entries[k], clock)
    /\ \A k \in DOMAIN flights : Flight(k, flights[k], clock) /\ Crew(k, flights[k], reader, DOMAIN inbox)
    /\ \A r \in DOMAIN inbox : Mail(inbox[r], reader[r], failedKeys)
    /\ \A r \in Readers : Told(reader[r], r \in ctxDone, failedKeys)

LEMMA CacheNumbers ==
    /\ CacheTTL \in Nat /\ OpenCacheTTL \in Nat /\ CacheTTL >= 1 /\ OpenCacheTTL >= 1 /\ OpenCacheTTL <= CacheTTL
    /\ CacheLoadTimeout \in Nat /\ CacheMaxEntries \in Nat /\ CacheMaxEntries >= 1
    /\ CacheMaxLoads \in Nat /\ DayTicks \in Nat /\ DayTicks >= 1
BY CacheAssumption

\* An entry that has not expired is fresh enough for its key.
LEMMA HitFresh ==
    ASSUME NEW k, NEW e, NEW now \in Int, Entry(k, e, now), now < e.expires,
           NEW rows, rows = [e.rows EXCEPT !.when = now]
    PROVE  rows \in Rows /\ Fresh(rows, k.to) /\ (k.q = "point" => rows.names = k.names)
<1>1. PICK a \in Int, n \in Int, w \in Int : e.rows = [at |-> a, names |-> n, when |-> w]
  BY DEF Entry, Rows
<1>2. rows = [at |-> a, names |-> n, when |-> now] /\ rows.at = a /\ rows.when = now /\ rows.names = n
  BY <1>1
<1>3. PICK s \in Int : s <= now /\ s - a <= CacheLoadTimeout /\ e.expires = s + life(k.to, s)
  BY <1>1 DEF Entry
<1>4. now - a < life(k.to, now) + CacheLoadTimeout
  <2>1. PICK to \in Int : to = k.to
    BY DEF Entry
  <2> QED BY <2>1, <1>3, CacheNumbers DEF life
<1> QED BY <1>1, <1>2, <1>4 DEF Entry, Rows, Fresh

\* Rows that a flight has just read, as sent and as stored.
LEMMA ReadFresh ==
    ASSUME NEW k, NEW f, NEW now \in Int, Flight(k, f, now), f.stage = "read",
           NEW rows, rows = Stamped(f.rows, now)
    PROVE  rows \in Rows /\ Fresh(rows, k.to) /\ (k.q = "point" => rows.names = k.names)
<1>1. PICK a \in Int, n \in Int, w \in Int : f.rows = [at |-> a, names |-> n, when |-> w]
  BY DEF Flight, Rows
<1>2. rows = [at |-> a, names |-> n, when |-> now] /\ rows.at = a /\ rows.when = now /\ rows.names = n
  BY <1>1 DEF Stamped
<1>3. f.since \in Int /\ f.since <= now /\ now - f.since <= CacheLoadTimeout /\ f.since <= a
  BY <1>1 DEF Flight
<1>4. life(k.to, now) \in Nat /\ life(k.to, now) >= 1
  BY CacheNumbers DEF life
<1>5. now - a < life(k.to, now) + CacheLoadTimeout
  BY <1>3, <1>4, CacheNumbers
<1> QED BY <1>1, <1>2, <1>5 DEF Fresh, Rows, Flight

LEMMA StoredFresh ==
    ASSUME NEW k, NEW f, NEW now \in Int, Flight(k, f, now), f.stage = "read",
           NEW e, e = [rows |-> f.rows, expires |-> now + life(k.to, now)]
    PROVE  Entry(k, e, now)
<1>1. PICK a \in Int, n \in Int, w \in Int : f.rows = [at |-> a, names |-> n, when |-> w]
  BY DEF Flight, Rows
<1>2. f.since \in Int /\ f.since <= now /\ now - f.since <= CacheLoadTimeout /\ f.since <= a
  BY <1>1 DEF Flight
<1>3. now - a <= CacheLoadTimeout
  BY <1>2, CacheNumbers
<1>4. PICK l \in {OpenCacheTTL, CacheTTL} : l = life(k.to, now)
  BY DEF life
<1>5. l \in Nat
  BY <1>4, CacheNumbers
<1>6. e.expires = now + l /\ e.rows = f.rows /\ now = e.expires - l
  BY <1>4, <1>5
<1>7. now \in {e.expires - OpenCacheTTL, e.expires - CacheTTL}
  BY <1>4, <1>6
<1> QED BY <1>1, <1>3, <1>4, <1>6, <1>7 DEF Entry, Flight

\* Only a queued flight that gets its slot adds to what is loading.
LEMMA LoadsShrink ==
    ASSUME CacheInv, loading' \subseteq loading,
           IsFiniteSet(DOMAIN entries)', Cardinality(DOMAIN entries)' <= CacheMaxEntries
    PROVE  CacheSizes'
<1>1. IsFiniteSet(loading') /\ Cardinality(loading') <= Cardinality(loading)
  BY FS_Subset DEF CacheInv, CacheSizes
<1>2. Cardinality(loading') \in Nat /\ Cardinality(loading) \in Nat
  BY <1>1, FS_CardinalityType DEF CacheInv, CacheSizes
<1>3. Cardinality(loading') <= CacheMaxLoads
  BY <1>1, <1>2, CacheNumbers DEF CacheInv, CacheSizes
<1> QED BY <1>1, <1>3 DEF CacheSizes

\* A reader that no flight counts on moves alone.
LEMMA ReaderMoves ==
    ASSUME CacheInv, NEW r \in Readers, NEW x, reader' = [reader EXCEPT ![r] = x],
           Told(x, r \in ctxDone, failedKeys), reader[r].pc # "error",
           \A k \in DOMAIN flights : r \notin flights[k].waiters,
           DOMAIN inbox' = DOMAIN inbox \ {r}, \A w \in DOMAIN inbox \ {r} : inbox'[w] = inbox[w],
           UNCHANGED <<clock, pointNames, entries, flights, ctxDone, failedKeys>>
    PROVE  CacheInv'
<1>1. DOMAIN reader' = Readers /\ reader'[r] = x /\ \A w \in Readers \ {r} : reader'[w] = reader[w]
  BY DEF CacheInv
<1>2. CacheSizes'
  BY DEF CacheInv, CacheSizes, loading
<1>3. ASSUME NEW k \in DOMAIN flights PROVE Crew(k, flights[k], reader', DOMAIN inbox')
  <2>1. Crew(k, flights[k], reader, DOMAIN inbox) /\ flights[k].leader \in Readers /\ flights[k].waiters \subseteq Readers
    BY DEF CacheInv, Flight
  <2>2. flights[k].leader # r /\ r \notin flights[k].waiters
    BY <2>1 DEF Crew
  <2>3. reader'[flights[k].leader] = reader[flights[k].leader]
        /\ \A w \in flights[k].waiters : reader'[w] = reader[w]
    BY <1>1, <2>1, <2>2
  <2> QED BY <2>1, <2>3 DEF Crew
<1>4. \A w \in DOMAIN inbox' : Mail(inbox'[w], reader'[w], failedKeys')
  BY <1>1 DEF CacheInv
<1>5. \A w \in Readers : Told(reader'[w], w \in ctxDone', failedKeys')
  BY <1>1 DEF CacheInv
<1> QED BY <1>1, <1>2, <1>3, <1>4, <1>5 DEF CacheInv

\* A flight changes its stage and keeps its crew.
LEMMA FlightStages ==
    ASSUME CacheInv, NEW k \in DOMAIN flights, NEW f, flights' = [flights EXCEPT ![k] = f],
           Flight(k, f, clock), f.leader = flights[k].leader, f.waiters = flights[k].waiters,
           CacheSizes', UNCHANGED <<clock, pointNames, entries, reader, inbox, ctxDone, failedKeys>>
    PROVE  CacheInv'
<1>1. DOMAIN flights' = DOMAIN flights /\ flights'[k] = f /\ \A j \in DOMAIN flights \ {k} : flights'[j] = flights[j]
  OBVIOUS
<1>2. Crew(k, f, reader, DOMAIN inbox)
  BY DEF CacheInv, Crew
<1>3. \A j \in DOMAIN flights' : Flight(j, flights'[j], clock') /\ Crew(j, flights'[j], reader', DOMAIN inbox')
  BY <1>1, <1>2 DEF CacheInv
<1> QED BY <1>3 DEF CacheInv

\* A flight ends, and everyone who waits for it gets the same result.
LEMMA FlightDelivers ==
    ASSUME CacheInv, NEW k \in DOMAIN flights, NEW kind, NEW rows, Deliver(k, kind, rows),
           kind = "rows" => rows \in Rows /\ Fresh(rows, k.to) /\ (k.q = "point" => rows.names = k.names),
           kind = "error" => k \in failedKeys',
           failedKeys \subseteq failedKeys', UNCHANGED <<clock, pointNames, reader, ctxDone>>,
           \A j \in DOMAIN entries' : Entry(j, entries'[j], clock),
           IsFiniteSet(DOMAIN entries)', Cardinality(DOMAIN entries)' <= CacheMaxEntries
    PROVE  CacheInv'
<1>1. PICK W \in SUBSET Readers : W = flights[k].waiters
  BY DEF CacheInv, Flight
<1>2. DOMAIN flights' = DOMAIN flights \ {k} /\ \A j \in DOMAIN flights' : flights'[j] = flights[j]
  BY DEF Deliver
<1>3. /\ DOMAIN inbox' = DOMAIN inbox \cup W
      /\ \A w \in W : inbox'[w] = [kind |-> kind, rows |-> rows]
      /\ \A w \in DOMAIN inbox \ W : inbox'[w] = inbox[w]
  BY <1>1 DEF Deliver
<1>4. \A w \in W : reader[w].pc = "wait" /\ KeyOf(reader[w]) = k
  BY <1>1 DEF CacheInv, Crew
<1>5. loading' \subseteq loading
  BY <1>2 DEF loading
<1>6. CacheSizes'
  BY <1>5, LoadsShrink
<1>7. ASSUME NEW j \in DOMAIN flights' PROVE Flight(j, flights'[j], clock') /\ Crew(j, flights'[j], reader', DOMAIN inbox')
  <2>1. j \in DOMAIN flights /\ j # k /\ flights'[j] = flights[j]
    BY <1>2
  <2>2. Flight(j, flights[j], clock) /\ Crew(j, flights[j], reader, DOMAIN inbox)
    BY <2>1 DEF CacheInv
  <2>3. \A w \in flights[j].waiters : w \notin W
    BY <1>4, <2>1, <2>2 DEF Crew
  <2>4. Crew(j, flights[j], reader, DOMAIN inbox')
    BY <1>3, <2>2, <2>3 DEF Crew
  <2> QED BY <2>1, <2>2, <2>4
<1>8. ASSUME NEW w \in W PROVE Mail(inbox'[w], reader[w], failedKeys')
  <2>1. PICK x : x = reader[w]
    OBVIOUS
  <2>2. x.pc = "wait" /\ k.q = Head(x.todo) /\ k.to = x.to /\ (k.q = "point" => k.names = x.names)
    BY <1>4, <2>1 DEF KeyOf
  <2>3. PICK m : m = [kind |-> kind, rows |-> rows]
    OBVIOUS
  <2>4. m.kind = kind /\ m.rows = rows
    BY <2>3
  <2>5. Mail(m, x, failedKeys')
    BY <2>2, <2>4 DEF Mail
  <2> QED BY <1>3, <2>1, <2>3, <2>5
<1>9. ASSUME NEW w \in DOMAIN inbox \ W PROVE Mail(inbox'[w], reader[w], failedKeys')
  <2>1. Mail(inbox[w], reader[w], failedKeys) /\ inbox'[w] = inbox[w]
    BY <1>3 DEF CacheInv
  <2> QED BY <2>1 DEF Mail
<1>10. \A w \in DOMAIN inbox' : Mail(inbox'[w], reader'[w], failedKeys')
  BY <1>3, <1>8, <1>9
<1>11. \A w \in Readers : Told(reader[w], w \in ctxDone, failedKeys')
  BY DEF CacheInv, Told
<1>12. DOMAIN inbox' \subseteq Readers
  BY <1>1, <1>3 DEF CacheInv
<1> QED BY <1>6, <1>7, <1>10, <1>11, <1>12 DEF CacheInv

\* A row of a request.
ReaderRow(pc, todo, to, names, got) == [pc |-> pc, todo |-> todo, to |-> to, names |-> names, got |-> got]

LEMMA ReaderFields ==
    ASSUME NEW pc, NEW todo, NEW to, NEW names, NEW got, NEW x, x = ReaderRow(pc, todo, to, names, got)
    PROVE  Shape(x) /\ x.pc = pc /\ x.todo = todo /\ x.to = to /\ x.names = names /\ x.got = got
BY DEF ReaderRow, Shape

\* The fields that a request's row has.
LEMMA FieldsOf ==
    ASSUME NEW x, Shape(x)
    PROVE  \E a, b, c, d, e : x = ReaderRow(a, b, c, d, e) /\ x.pc = a /\ x.todo = b /\ x.to = c /\ x.names = d /\ x.got = e
BY DEF Shape, ReaderRow

\* Answer and Serve, as the row they write.
LEMMA AnswerRow ==
    ASSUME CacheInv, NEW r \in Readers, NEW outcome, Answer(r, outcome)
    PROVE  reader' = [reader EXCEPT ![r] = ReaderRow(outcome, <<>>, reader[r].to, reader[r].names, NoRows)]
<1>1. Shape(reader[r]) /\ r \in DOMAIN reader
  BY DEF CacheInv, Told
<1>2. PICK x : x = reader[r]
  OBVIOUS
<1>3. PICK a, b, c, d, e : x = ReaderRow(a, b, c, d, e) /\ x.pc = a /\ x.todo = b /\ x.to = c /\ x.names = d /\ x.got = e
  BY <1>1, <1>2, FieldsOf
<1>4. [[[x EXCEPT !.pc = outcome] EXCEPT !.todo = <<>>] EXCEPT !.got = NoRows] = ReaderRow(outcome, <<>>, x.to, x.names, NoRows)
  <2>1. [ReaderRow(a, b, c, d, e) EXCEPT !.pc = outcome] = ReaderRow(outcome, b, c, d, e)
    BY DEF ReaderRow
  <2>2. [ReaderRow(outcome, b, c, d, e) EXCEPT !.todo = <<>>] = ReaderRow(outcome, <<>>, c, d, e)
    BY DEF ReaderRow
  <2>3. [ReaderRow(outcome, <<>>, c, d, e) EXCEPT !.got = NoRows] = ReaderRow(outcome, <<>>, c, d, NoRows)
    BY DEF ReaderRow
  <2> QED BY <1>3, <2>1, <2>2, <2>3, Zenon
<1>5. reader' = [reader EXCEPT ![r] = [[[x EXCEPT !.pc = outcome] EXCEPT !.todo = <<>>] EXCEPT !.got = NoRows]]
  BY <1>1, <1>2 DEF Answer
<1> QED BY <1>2, <1>4, <1>5

ServesAs(r, rows, pc, todo) ==
    /\ pc \in {"served", "load"}
    /\ reader' = [reader EXCEPT ![r] = ReaderRow(pc, todo, reader[r].to, reader[r].names, rows)]
    /\ pc = "served" => todo = reader[r].todo

LEMMA ServeRow ==
    ASSUME CacheInv, NEW r \in Readers, NEW rows, Serve(r, rows)
    PROVE  \E pc, todo : ServesAs(r, rows, pc, todo)
<1>1. Shape(reader[r]) /\ r \in DOMAIN reader
  BY DEF CacheInv, Told
<1>2. PICK x : x = reader[r]
  OBVIOUS
<1>3. PICK rest : rest = Tail(x.todo)
  OBVIOUS
<1>4. PICK todo : todo = IF rest = <<>> THEN x.todo ELSE rest
  OBVIOUS
<1>5. PICK pc : pc = IF rest = <<>> THEN "served" ELSE "load"
  OBVIOUS
<1>6. reader' = [reader EXCEPT ![r].todo = todo, ![r].pc = pc, ![r].got = rows]
  BY <1>2, <1>3, <1>4, <1>5 DEF Serve
<1>7. PICK a, b, c, d, e : x = ReaderRow(a, b, c, d, e) /\ x.pc = a /\ x.todo = b /\ x.to = c /\ x.names = d /\ x.got = e
  BY <1>1, <1>2, FieldsOf
<1>8. [[[x EXCEPT !.todo = todo] EXCEPT !.pc = pc] EXCEPT !.got = rows] = ReaderRow(pc, todo, x.to, x.names, rows)
  <2>1. [ReaderRow(a, b, c, d, e) EXCEPT !.todo = todo] = ReaderRow(a, todo, c, d, e)
    BY DEF ReaderRow
  <2>2. [ReaderRow(a, todo, c, d, e) EXCEPT !.pc = pc] = ReaderRow(pc, todo, c, d, e)
    BY DEF ReaderRow
  <2>3. [ReaderRow(pc, todo, c, d, e) EXCEPT !.got = rows] = ReaderRow(pc, todo, c, d, rows)
    BY DEF ReaderRow
  <2> QED BY <1>7, <2>1, <2>2, <2>3, Zenon
<1>9. reader' = [reader EXCEPT ![r] = [[[x EXCEPT !.todo = todo] EXCEPT !.pc = pc] EXCEPT !.got = rows]]
  BY <1>1, <1>2, <1>6
<1>10. pc \in {"served", "load"} /\ (pc = "served" => todo = x.todo)
  BY <1>4, <1>5
<1>11. reader' = [reader EXCEPT ![r] = ReaderRow(pc, todo, reader[r].to, reader[r].names, rows)]
  BY <1>2, <1>8, <1>9, Zenon
<1>12. pc = "served" => todo = reader[r].todo
  BY <1>2, <1>10
<1>13. pc \in {"served", "load"}
  BY <1>10
<1>14. ServesAs(r, rows, pc, todo)
  BY <1>11, <1>12, <1>13 DEF ServesAs
<1> QED BY <1>14

\* An error, and rows that fit the request.
LEMMA AnswerTold ==
    ASSUME CacheInv, NEW r \in Readers, NEW x, x = ReaderRow("error", <<>>, reader[r].to, reader[r].names, NoRows),
           r \in ctxDone \/ \E k \in failedKeys : k.to = reader[r].to
    PROVE  Told(x, r \in ctxDone, failedKeys)
<1>1. Shape(x) /\ x.pc = "error" /\ x.to = reader[r].to /\ x.names = reader[r].names /\ x.got = NoRows
  BY ReaderFields
<1>2. reader[r].to \in Int /\ reader[r].names \in Int
  BY DEF CacheInv, Told
<1> QED BY <1>1, <1>2 DEF Told

LEMMA ServeTold ==
    ASSUME CacheInv, NEW r \in Readers, NEW rows, NEW pc \in {"served", "load"}, NEW todo,
           NEW x, x = ReaderRow(pc, todo, reader[r].to, reader[r].names, rows),
           pc = "served" => todo = reader[r].todo, Fresh(rows, reader[r].to),
           Head(reader[r].todo) = "point" => rows.names = reader[r].names
    PROVE  Told(x, r \in ctxDone, failedKeys)
<1>1. Shape(x) /\ x.pc = pc /\ x.todo = todo /\ x.to = reader[r].to /\ x.names = reader[r].names /\ x.got = rows
  BY ReaderFields
<1>2. reader[r].to \in Int /\ reader[r].names \in Int
  BY DEF CacheInv, Told
<1> QED BY <1>1, <1>2 DEF Told

\* A reader that does not wait is counted on by no flight and has no mail.
LEMMA Unattached ==
    ASSUME CacheInv, NEW r \in Readers, reader[r].pc # "wait"
    PROVE  r \notin DOMAIN inbox /\ \A k \in DOMAIN flights : r \notin flights[k].waiters
BY DEF CacheInv, Crew, Mail

LEMMA EndOfDayInt == ASSUME clock \in Int PROVE EndOfDay \in Int
<1>1. PICK n \in Int : n = clock \div DayTicks + 1
  BY CacheNumbers
<1>2. n * DayTicks \in Int
  BY <1>1, CacheNumbers
<1> QED BY <1>1, <1>2 DEF EndOfDay

LEMMA BeginKeeps ==
    ASSUME CacheInv, NEW r \in Readers, NEW todo, NEW to \in Int, Begin(r, todo, to)
    PROVE  CacheInv'
<1>1. Told(reader[r], r \in ctxDone, failedKeys) /\ r \in DOMAIN reader /\ reader[r].pc = "idle"
  BY DEF CacheInv, Begin
<1>2. PICK x : x = reader[r]
  OBVIOUS
<1>3. x.got = NoRows /\ x.names \in Int /\ Shape(x)
  BY <1>1, <1>2 DEF Told
<1>4. PICK y : y = ReaderRow("load", todo, to, x.names, NoRows)
  OBVIOUS
<1>5. [[[x EXCEPT !.pc = "load"] EXCEPT !.todo = todo] EXCEPT !.to = to] = y
  <2>1. PICK a, b, c, d, e : x = ReaderRow(a, b, c, d, e) /\ x.pc = a /\ x.todo = b /\ x.to = c /\ x.names = d /\ x.got = e
    BY <1>3, FieldsOf
  <2>2. [ReaderRow(a, b, c, d, e) EXCEPT !.pc = "load"] = ReaderRow("load", b, c, d, e)
    BY DEF ReaderRow
  <2>3. [ReaderRow("load", b, c, d, e) EXCEPT !.todo = todo] = ReaderRow("load", todo, c, d, e)
    BY DEF ReaderRow
  <2>4. [ReaderRow("load", todo, c, d, e) EXCEPT !.to = to] = ReaderRow("load", todo, to, d, e)
    BY DEF ReaderRow
  <2> QED BY <1>3, <1>4, <2>1, <2>2, <2>3, <2>4, Zenon
<1>6. reader' = [reader EXCEPT ![r] = y]
  BY <1>1, <1>2, <1>5 DEF Begin
<1>7. Shape(y) /\ y.pc = "load" /\ y.to = to /\ y.names = x.names /\ y.got = NoRows
  BY <1>4, ReaderFields
<1>8. Told(y, r \in ctxDone, failedKeys)
  BY <1>3, <1>7 DEF Told
<1>9. r \notin DOMAIN inbox /\ \A k \in DOMAIN flights : r \notin flights[k].waiters
  BY <1>1, Unattached
<1>10. UNCHANGED <<clock, pointNames, entries, flights, inbox, ctxDone, failedKeys>>
  BY DEF Begin
<1>11. DOMAIN inbox' = DOMAIN inbox \ {r} /\ \A w \in DOMAIN inbox \ {r} : inbox'[w] = inbox[w]
  BY <1>9, <1>10
<1> QED BY <1>1, <1>6, <1>8, <1>9, <1>10, <1>11, ReaderMoves

LEMMA StartsKeep ==
    ASSUME CacheInv, NEW r \in Readers, reportsPage(r) \/ salesReport(r)
    PROVE  CacheInv'
<1>1. EndOfDay \in Int
  BY EndOfDayInt DEF CacheInv
<1>2. CASE reportsPage(r)
  <2>1. PICK period \in {"week", "month", "prev_month", "custom"}, to \in {0, EndOfDay} :
           Begin(r, buildReportsData, reportRange(period, to))
    BY <1>2 DEF reportsPage
  <2>2. reportRange(period, to) \in Int
    BY <1>1, <2>1 DEF reportRange
  <2> QED BY <2>1, <2>2, BeginKeeps
<1>3. CASE salesReport(r)
  BY <1>1, <1>3, BeginKeeps DEF salesReport
<1> QED BY <1>2, <1>3

LEMMA NamesKeep ==
    ASSUME CacheInv, NEW r \in Readers, PointNames(r)
    PROVE  CacheInv'
<1>1. Told(reader[r], r \in ctxDone, failedKeys) /\ r \in DOMAIN reader /\ reader[r].pc = "load"
  BY DEF CacheInv, PointNames
<1>2. r \notin DOMAIN inbox /\ \A k \in DOMAIN flights : r \notin flights[k].waiters
  BY <1>1, Unattached
<1>3. UNCHANGED <<clock, pointNames, entries, flights, inbox, ctxDone, failedKeys>>
  BY DEF PointNames
<1>4. CASE reader' = [reader EXCEPT ![r].todo = Tail(@), ![r].names = pointNames]
  <2>1. PICK x : x = reader[r]
    OBVIOUS
  <2>2. Shape(x) /\ x.pc = "load"
        /\ x.to \in Int /\ (x.got # NoRows => Fresh(x.got, x.to))
    BY <1>1, <2>1 DEF Told
  <2>3. PICK y : y = ReaderRow("load", Tail(x.todo), x.to, pointNames, x.got)
    OBVIOUS
  <2>4. [[x EXCEPT !.todo = Tail(x.todo)] EXCEPT !.names = pointNames] = y
    <3>1. PICK a, b, c, d, e : x = ReaderRow(a, b, c, d, e) /\ x.pc = a /\ x.todo = b /\ x.to = c /\ x.names = d /\ x.got = e
      BY <2>2, FieldsOf
    <3>2. PICK t, n : t = Tail(b) /\ n = pointNames
      OBVIOUS
    <3>3. [ReaderRow(a, b, c, d, e) EXCEPT !.todo = t] = ReaderRow(a, t, c, d, e)
      BY DEF ReaderRow
    <3>4. [ReaderRow(a, t, c, d, e) EXCEPT !.names = n] = ReaderRow(a, t, c, n, e)
      BY DEF ReaderRow
    <3> QED BY <2>2, <2>3, <3>1, <3>2, <3>3, <3>4, Zenon
  <2>5. reader' = [reader EXCEPT ![r] = y]
    BY <1>1, <1>4, <2>1, <2>4
  <2>6. Shape(y) /\ y.pc = "load" /\ y.to = x.to /\ y.names = pointNames /\ y.got = x.got
    BY <2>3, ReaderFields
  <2>7. Told(y, r \in ctxDone, failedKeys)
    BY <2>2, <2>6 DEF Told, CacheInv
  <2> QED BY <1>1, <1>2, <1>3, <2>5, <2>7, ReaderMoves
<1>5. CASE r \in ctxDone /\ Answer(r, "error")
  <2>1. PICK y : y = ReaderRow("error", <<>>, reader[r].to, reader[r].names, NoRows)
    OBVIOUS
  <2>2. reader' = [reader EXCEPT ![r] = y]
    BY <1>5, <2>1, AnswerRow
  <2>3. Told(y, r \in ctxDone, failedKeys)
    BY <1>5, <2>1, AnswerTold
  <2> QED BY <1>1, <1>2, <1>3, <2>2, <2>3, ReaderMoves
<1> QED BY <1>4, <1>5 DEF PointNames

SetsPc(r, pc) == reader' = [reader EXCEPT ![r].pc = pc]

PcSet(x, y, pc) ==
    Shape(x) /\ x.pc = pc /\ x.todo = y.todo /\ x.to = y.to /\ x.names = y.names /\ x.got = y.got

\* Only pc changes: the row keeps what it was told.
LEMMA PcRow ==
    ASSUME CacheInv, NEW r \in Readers, NEW pc, SetsPc(r, pc)
    PROVE  \E x : reader' = [reader EXCEPT ![r] = x] /\ PcSet(x, reader[r], pc)
<1>1. Shape(reader[r]) /\ r \in DOMAIN reader
  BY DEF CacheInv, Told
<1>2. PICK x : x = reader[r]
  OBVIOUS
<1>3. PICK a, b, c, d, e : x = ReaderRow(a, b, c, d, e) /\ x.pc = a /\ x.todo = b /\ x.to = c /\ x.names = d /\ x.got = e
  BY <1>1, <1>2, FieldsOf
<1>4. PICK y : y = ReaderRow(pc, b, c, d, e)
  OBVIOUS
<1>5. [ReaderRow(a, b, c, d, e) EXCEPT !.pc = pc] = ReaderRow(pc, b, c, d, e)
  BY DEF ReaderRow
<1>6. reader' = [reader EXCEPT ![r] = [x EXCEPT !.pc = pc]]
  BY <1>1, <1>2 DEF SetsPc
<1>7. reader' = [reader EXCEPT ![r] = y]
  BY <1>3, <1>4, <1>5, <1>6, Zenon
<1>8. Shape(y) /\ y.pc = pc /\ y.todo = b /\ y.to = c /\ y.names = d /\ y.got = e
  BY <1>4, ReaderFields
<1>9. PcSet(y, reader[r], pc)
  BY <1>2, <1>3, <1>8 DEF PcSet
<1> QED BY <1>7, <1>9

LEMMA LoadKeeps ==
    ASSUME CacheInv, NEW r \in Readers, load(r)
    PROVE  CacheInv'
<1>1. Told(reader[r], r \in ctxDone, failedKeys) /\ r \in DOMAIN reader /\ reader[r].pc = "load"
  BY DEF CacheInv, load
<1>2. r \notin DOMAIN inbox /\ \A k \in DOMAIN flights : r \notin flights[k].waiters
  BY <1>1, Unattached
<1>3. UNCHANGED <<clock, pointNames, entries, flights, inbox, ctxDone, failedKeys>>
  BY DEF load
<1>4. PICK k : k = cacheKey(r)
  OBVIOUS
<1>5. k.q = Head(reader[r].todo) /\ k.to = reader[r].to /\ (k.q = "point" => k.names = reader[r].names)
  BY <1>4 DEF cacheKey
<1>6. CASE r \in ctxDone /\ Answer(r, "error")
  <2>1. PICK y : y = ReaderRow("error", <<>>, reader[r].to, reader[r].names, NoRows)
    OBVIOUS
  <2>2. reader' = [reader EXCEPT ![r] = y]
    BY <1>6, <2>1, AnswerRow
  <2>3. Told(y, r \in ctxDone, failedKeys)
    BY <1>6, <2>1, AnswerTold
  <2> QED BY <1>1, <1>2, <1>3, <2>2, <2>3, ReaderMoves
<1>7. CASE lookup(k) /\ Serve(r, [entries[k].rows EXCEPT !.when = clock])
  <2>1. PICK rows : rows = [entries[k].rows EXCEPT !.when = clock]
    OBVIOUS
  <2>2. Entry(k, entries[k], clock) /\ clock \in Int /\ clock < entries[k].expires
    BY <1>7 DEF CacheInv, lookup
  <2>3. Fresh(rows, k.to) /\ (k.q = "point" => rows.names = k.names)
    BY <2>1, <2>2, HitFresh, ZenonT(30)
  <2>4. Fresh(rows, reader[r].to) /\ (Head(reader[r].todo) = "point" => rows.names = reader[r].names)
    BY <1>5, <2>3
  <2>5. Serve(r, rows)
    BY <1>7, <2>1
  <2>6. PICK pc, todo : ServesAs(r, rows, pc, todo)
    BY <2>5, ServeRow
  <2>7. PICK y : y = ReaderRow(pc, todo, reader[r].to, reader[r].names, rows)
    OBVIOUS
  <2>8. reader' = [reader EXCEPT ![r] = y]
    BY <2>6, <2>7 DEF ServesAs
  <2>9. Told(y, r \in ctxDone, failedKeys)
    BY <2>4, <2>6, <2>7, ServeTold DEF ServesAs
  <2> QED BY <1>1, <1>2, <1>3, <2>8, <2>9, ReaderMoves
<1>8. CASE reader' = [reader EXCEPT ![r].pc = "miss"]
  <2>0. SetsPc(r, "miss")
    BY <1>8 DEF SetsPc
  <2>1. PICK x : reader' = [reader EXCEPT ![r] = x] /\ PcSet(x, reader[r], "miss")
    BY <2>0, PcRow
  <2>2. Told(x, r \in ctxDone, failedKeys)
    BY <1>1, <2>1 DEF Told, PcSet
  <2> QED BY <1>1, <1>2, <1>3, <2>1, <2>2, ReaderMoves
<1> QED BY <1>4, <1>6, <1>7, <1>8 DEF load

LEMMA ReceiveKeeps ==
    ASSUME CacheInv, NEW r \in Readers, receive(r)
    PROVE  CacheInv'
<1>1. Told(reader[r], r \in ctxDone, failedKeys) /\ reader[r].pc = "wait"
      /\ r \in DOMAIN inbox /\ Mail(inbox[r], reader[r], failedKeys)
  BY DEF CacheInv, receive
<1>2. \A k \in DOMAIN flights : r \notin flights[k].waiters
  BY <1>1 DEF CacheInv, Crew
<1>3. UNCHANGED <<clock, pointNames, entries, flights, ctxDone, failedKeys>>
      /\ DOMAIN inbox' = DOMAIN inbox \ {r} /\ \A w \in DOMAIN inbox \ {r} : inbox'[w] = inbox[w]
  BY DEF receive
<1>4. CASE inbox[r].kind = "rows" /\ Serve(r, inbox[r].rows)
  <2>1. PICK rows : rows = inbox[r].rows
    OBVIOUS
  <2>2. Fresh(rows, reader[r].to) /\ (Head(reader[r].todo) = "point" => rows.names = reader[r].names)
    BY <1>1, <1>4, <2>1 DEF Mail
  <2>3. PICK pc, todo : ServesAs(r, rows, pc, todo)
    BY <1>4, <2>1, ServeRow
  <2>4. PICK y : y = ReaderRow(pc, todo, reader[r].to, reader[r].names, rows)
    OBVIOUS
  <2>5. reader' = [reader EXCEPT ![r] = y]
    BY <2>3, <2>4 DEF ServesAs
  <2>6. Told(y, r \in ctxDone, failedKeys)
    BY <2>2, <2>3, <2>4, ServeTold DEF ServesAs
  <2> QED BY <1>1, <1>2, <1>3, <2>5, <2>6, ReaderMoves
<1>5. CASE inbox[r].kind = "error" /\ Answer(r, "error")
  <2>1. PICK y : y = ReaderRow("error", <<>>, reader[r].to, reader[r].names, NoRows)
    OBVIOUS
  <2>2. reader' = [reader EXCEPT ![r] = y]
    BY <1>5, <2>1, AnswerRow
  <2>3. \E k \in failedKeys : k.to = reader[r].to
    BY <1>1, <1>5 DEF Mail
  <2>4. Told(y, r \in ctxDone, failedKeys)
    BY <2>1, <2>3, AnswerTold
  <2> QED BY <1>1, <1>2, <1>3, <2>2, <2>4, ReaderMoves
<1>6. CASE reader' = [reader EXCEPT ![r].pc = "load"]
  <2>0. SetsPc(r, "load")
    BY <1>6 DEF SetsPc
  <2>1. PICK x : reader' = [reader EXCEPT ![r] = x] /\ PcSet(x, reader[r], "load")
    BY <2>0, PcRow
  <2>2. Told(x, r \in ctxDone, failedKeys)
    BY <1>1, <2>1 DEF Told, PcSet
  <2> QED BY <1>1, <1>2, <1>3, <2>1, <2>2, ReaderMoves
<1> QED BY <1>4, <1>5, <1>6 DEF receive

LEMMA GiveUpKeeps ==
    ASSUME CacheInv, NEW r \in Readers, giveUp(r)
    PROVE  CacheInv'
<1>1. r \in ctxDone /\ reader[r].pc = "wait" /\ UNCHANGED <<clock, pointNames, entries, ctxDone, failedKeys>>
  BY DEF giveUp
<1>2. DOMAIN inbox' = DOMAIN inbox \ {r} /\ \A w \in DOMAIN inbox \ {r} : inbox'[w] = inbox[w]
  BY DEF giveUp
<1>3. PICK y : y = ReaderRow("error", <<>>, reader[r].to, reader[r].names, NoRows)
  OBVIOUS
<1>4. reader' = [reader EXCEPT ![r] = y]
  BY <1>3, AnswerRow DEF giveUp
<1>5. Told(y, r \in ctxDone, failedKeys) /\ y.pc = "error" /\ y.names = reader[r].names
  BY <1>1, <1>3, AnswerTold, ReaderFields
<1>6. DOMAIN reader' = Readers /\ reader'[r] = y /\ \A w \in Readers \ {r} : reader'[w] = reader[w]
  BY <1>4 DEF CacheInv
<1>7. DOMAIN flights' = DOMAIN flights
  BY DEF giveUp
<1>8. ASSUME NEW k \in DOMAIN flights
      PROVE  /\ flights'[k].stage = flights[k].stage
             /\ Flight(k, flights'[k], clock) /\ Crew(k, flights'[k], reader', DOMAIN inbox')
  <2>1. Flight(k, flights[k], clock) /\ Crew(k, flights[k], reader, DOMAIN inbox)
    BY DEF CacheInv
  <2>2. PICK f : f = flights[k]
    OBVIOUS
  <2>3. PICK g : g = [f EXCEPT !.waiters = f.waiters \ {r}]
    OBVIOUS
  <2>4. flights'[k] = g
    BY <2>2, <2>3 DEF giveUp
  <2>5. f \in [leader : Readers, waiters : SUBSET Readers, rows : Rows, since : Int,
               stage : {"start", "queued", "query", "read"}]
    BY <2>1, <2>2 DEF Flight
  <2>6. /\ g \in [leader : Readers, waiters : SUBSET Readers, rows : Rows, since : Int,
                  stage : {"start", "queued", "query", "read"}]
        /\ g.leader = f.leader /\ g.waiters = f.waiters \ {r} /\ g.rows = f.rows /\ g.since = f.since /\ g.stage = f.stage
    BY <2>3, <2>5
  <2>7. Flight(k, g, clock)
    BY <2>1, <2>2, <2>6 DEF Flight
  <2>8. \A w \in g.waiters : w \in Readers \ {r} /\ reader'[w] = reader[w]
    BY <1>6, <2>5, <2>6
  <2>9. \A w \in g.waiters : reader'[w].pc = "wait" /\ KeyOf(reader'[w]) = k /\ w \notin DOMAIN inbox'
    BY <1>2, <2>1, <2>2, <2>6, <2>8 DEF Crew
  <2>10. g.leader \in g.waiters \/ reader'[g.leader].pc = "error"
    BY <1>5, <1>6, <2>1, <2>2, <2>5, <2>6 DEF Crew
  <2>11. k.q = "point" => reader'[g.leader].names = k.names
    BY <1>5, <1>6, <2>1, <2>2, <2>5, <2>6 DEF Crew
  <2>12. Crew(k, g, reader', DOMAIN inbox')
    BY <2>9, <2>10, <2>11 DEF Crew
  <2> QED BY <2>2, <2>4, <2>6, <2>7, <2>12
<1>9. loading' = loading
  BY <1>7, <1>8 DEF loading
<1>10. CacheSizes'
  BY <1>1, <1>9 DEF CacheInv, CacheSizes
<1>11. \A w \in DOMAIN inbox' : Mail(inbox'[w], reader'[w], failedKeys')
  BY <1>1, <1>2, <1>6 DEF CacheInv
<1>12. \A w \in Readers : Told(reader'[w], w \in ctxDone', failedKeys')
  BY <1>1, <1>5, <1>6 DEF CacheInv
<1> QED BY <1>1, <1>2, <1>6, <1>7, <1>8, <1>10, <1>11, <1>12 DEF CacheInv

LEMMA DoChanKeeps ==
    ASSUME CacheInv, NEW r \in Readers, DoChan(r)
    PROVE  CacheInv'
<1>1. reader[r].pc = "miss" /\ UNCHANGED <<clock, pointNames, entries, inbox, ctxDone, failedKeys>>
  BY DEF DoChan
<1>2. SetsPc(r, "wait")
  BY DEF DoChan, SetsPc
<1>3. PICK x : reader' = [reader EXCEPT ![r] = x] /\ PcSet(x, reader[r], "wait")
  BY <1>2, PcRow
<1>4. Told(reader[r], r \in ctxDone, failedKeys)
  BY DEF CacheInv
<1>5. Told(x, r \in ctxDone, failedKeys)
  BY <1>1, <1>3, <1>4 DEF Told, PcSet
<1>6. DOMAIN reader' = Readers /\ reader'[r] = x /\ \A w \in Readers \ {r} : reader'[w] = reader[w]
  BY <1>3 DEF CacheInv
<1>7. r \notin DOMAIN inbox /\ \A k \in DOMAIN flights : r \notin flights[k].waiters
  BY <1>1, Unattached
<1>8. PICK k : k = cacheKey(r)
  OBVIOUS
<1>9. k = KeyOf(x) /\ k.to \in Int /\ (k.q = "point" => x.names = k.names) /\ x.pc = "wait"
  BY <1>3, <1>4, <1>8 DEF cacheKey, KeyOf, PcSet, Told
<1>10. PICK f : f = IF k \in DOMAIN flights THEN [flights[k] EXCEPT !.waiters = flights[k].waiters \cup {r}]
                    ELSE [leader |-> r, waiters |-> {r}, stage |-> "start", since |-> clock, rows |-> NoRows]
  OBVIOUS
<1>11. DOMAIN flights' = DOMAIN flights \cup {k} /\ flights'[k] = f
       /\ \A j \in DOMAIN flights \ {k} : flights'[j] = flights[j]
  BY <1>8, <1>10 DEF DoChan
<1>12. ASSUME NEW j \in DOMAIN flights
       PROVE  Crew(j, flights[j], reader', DOMAIN inbox)
  <2>1. Crew(j, flights[j], reader, DOMAIN inbox) /\ flights[j].leader \in Readers /\ flights[j].waiters \subseteq Readers
    BY DEF CacheInv, Flight
  <2>2. flights[j].leader # r /\ r \notin flights[j].waiters
    BY <1>1, <1>7, <2>1 DEF Crew
  <2>3. reader'[flights[j].leader] = reader[flights[j].leader]
        /\ \A w \in flights[j].waiters : reader'[w] = reader[w]
    BY <1>6, <2>1, <2>2
  <2> QED BY <2>1, <2>3 DEF Crew
<1>13. CASE k \in DOMAIN flights
  <2>1. PICK g : g = flights[k]
    OBVIOUS
  <2>2. Flight(k, g, clock) /\ Crew(k, g, reader', DOMAIN inbox)
    BY <1>12, <1>13, <2>1 DEF CacheInv
  <2>3. g \in [leader : Readers, waiters : SUBSET Readers, rows : Rows, since : Int,
               stage : {"start", "queued", "query", "read"}]
    BY <2>2 DEF Flight
  <2>4. f = [g EXCEPT !.waiters = g.waiters \cup {r}]
    BY <1>10, <1>13, <2>1
  <2>5. /\ f \in [leader : Readers, waiters : SUBSET Readers, rows : Rows, since : Int,
                  stage : {"start", "queued", "query", "read"}]
        /\ f.leader = g.leader /\ f.waiters = g.waiters \cup {r} /\ f.rows = g.rows /\ f.since = g.since /\ f.stage = g.stage
    BY <2>3, <2>4
  <2>6. Flight(k, f, clock)
    BY <2>2, <2>5 DEF Flight
  <2>7. Crew(k, f, reader', DOMAIN inbox)
    BY <1>6, <1>7, <1>9, <2>2, <2>5 DEF Crew
  <2>8. \A j \in DOMAIN flights' : Flight(j, flights'[j], clock) /\ Crew(j, flights'[j], reader', DOMAIN inbox)
    BY <1>11, <1>12, <2>6, <2>7 DEF CacheInv
  <2>9. loading' \subseteq loading
    BY <1>11, <1>13, <2>1, <2>5 DEF loading
  <2>10. CacheSizes'
    BY <1>1, <2>9, LoadsShrink DEF CacheInv, CacheSizes
  <2> QED BY <1>1, <1>5, <1>6, <1>7, <2>8, <2>10 DEF CacheInv
<1>14. CASE k \notin DOMAIN flights
  <2>1. f = [leader |-> r, waiters |-> {r}, stage |-> "start", since |-> clock, rows |-> NoRows]
    BY <1>10, <1>14
  <2>2. NoRows \in Rows /\ clock \in Int
    BY DEF NoRows, Rows, CacheInv
  <2>3. Flight(k, f, clock)
    BY <1>9, <2>1, <2>2 DEF Flight
  <2>4. Crew(k, f, reader', DOMAIN inbox)
    BY <1>6, <1>7, <1>9, <2>1 DEF Crew
  <2>5. \A j \in DOMAIN flights' : Flight(j, flights'[j], clock) /\ Crew(j, flights'[j], reader', DOMAIN inbox)
    BY <1>11, <1>12, <2>3, <2>4 DEF CacheInv
  <2>6. loading' \subseteq loading
    BY <1>11, <1>14, <2>1 DEF loading
  <2>7. CacheSizes'
    BY <1>1, <2>6, LoadsShrink DEF CacheInv, CacheSizes
  <2> QED BY <1>1, <1>5, <1>6, <1>7, <2>5, <2>7 DEF CacheInv
<1> QED BY <1>13, <1>14

\* Eviction leaves room for one more entry.
LEMMA RoomMade ==
    ASSUME IsFiniteSet(DOMAIN entries), NEW S \in makeRoom
    PROVE  S \subseteq DOMAIN entries /\ IsFiniteSet(S) /\ Cardinality(S) \in Nat /\ Cardinality(S) <= CacheMaxEntries - 1
<1>1. CASE Cardinality(DOMAIN entries) < CacheMaxEntries
  <2>1. S = DOMAIN entries
    BY <1>1 DEF makeRoom
  <2>2. Cardinality(DOMAIN entries) \in Nat
    BY FS_CardinalityType
  <2> QED BY <1>1, <2>1, <2>2, CacheNumbers
<1>2. CASE ~(Cardinality(DOMAIN entries) < CacheMaxEntries)
  <2>1. PICK live : live = {k \in DOMAIN entries : clock < entries[k].expires}
    OBVIOUS
  <2>2. S \subseteq live /\ Cardinality(live \ S) = Max({Cardinality(live) - (CacheMaxEntries - 1), 0})
    BY <1>2, <2>1 DEF makeRoom
  <2>3. IsFiniteSet(live) /\ IsFiniteSet(S) /\ IsFiniteSet(live \ S)
    BY <2>1, <2>2, FS_Subset
  <2>4. PICK a \in Nat, b \in Nat, c \in Nat : a = Cardinality(live) /\ b = Cardinality(S) /\ c = Cardinality(live \ S)
    BY <2>3, FS_CardinalityType
  <2>5. a = b + c
    <3>1. Cardinality(live \ S) = Cardinality(live) - Cardinality(live \cap S)
      BY <2>3, FS_Difference
    <3>2. live \cap S = S
      BY <2>2
    <3>3. Cardinality(live \cap S) = b
      BY <2>4, <3>2, Zenon
    <3>4. c = a - b
      BY <2>4, <3>1, <3>3
    <3> QED BY <2>4, <3>4
  <2>6. PICK o \in Int : o = a - (CacheMaxEntries - 1)
    BY CacheNumbers
  <2>7. c = Max({o, 0})
    BY <2>2, <2>4, <2>6
  <2>8. c >= o
    <3>1. CASE o >= 0
      <4>1. {o, 0} \subseteq Int /\ o \in {o, 0} /\ \A y \in {o, 0} : o >= y
        BY <3>1
      <4>2. Max({o, 0}) = o
        BY <4>1, MaxIs, Zenon
      <4> QED BY <2>6, <2>7, <4>2
    <3>2. CASE ~(o >= 0)
      BY <2>4, <2>6, <3>2
    <3> QED BY <3>1, <3>2
  <2>9. b <= CacheMaxEntries - 1
    BY <2>5, <2>6, <2>8, CacheNumbers
  <2> QED BY <2>1, <2>2, <2>3, <2>4, <2>9
<1> QED BY <1>1, <1>2

LEMMA StoreKeeps ==
    ASSUME CacheInv, NEW k \in DOMAIN flights, flights[k].stage = "read", store(k, flights[k].rows)
    PROVE  /\ \A j \in DOMAIN entries' : Entry(j, entries'[j], clock)
           /\ IsFiniteSet(DOMAIN entries)' /\ Cardinality(DOMAIN entries)' <= CacheMaxEntries
<1>1. PICK kept \in IF k \in DOMAIN entries THEN {DOMAIN entries} ELSE makeRoom :
        entries' = [j \in kept \cup {k} |->
                      IF j = k THEN [rows |-> flights[k].rows, expires |-> clock + ttl(k)] ELSE entries[j]]
  BY DEF store
<1>2. PICK e : e = [rows |-> flights[k].rows, expires |-> clock + life(k.to, clock)]
  OBVIOUS
<1>3. DOMAIN entries' = kept \cup {k} /\ entries'[k] = e /\ \A j \in kept \ {k} : entries'[j] = entries[j]
  BY <1>1, <1>2 DEF ttl, life
<1>4. Entry(k, e, clock)
  <2>1. Flight(k, flights[k], clock) /\ clock \in Int
    BY DEF CacheInv
  <2> QED BY <1>2, <2>1, StoredFresh
<1>5. IsFiniteSet(DOMAIN entries) /\ Cardinality(DOMAIN entries) <= CacheMaxEntries
  BY DEF CacheInv, CacheSizes
<1>6. CASE k \in DOMAIN entries
  <2>1. kept = DOMAIN entries /\ DOMAIN entries' = DOMAIN entries
    BY <1>1, <1>3, <1>6
  <2> QED BY <1>3, <1>4, <1>5, <2>1 DEF CacheInv
<1>7. CASE k \notin DOMAIN entries
  <2>1. kept \in makeRoom
    BY <1>1, <1>7
  <2>2. kept \subseteq DOMAIN entries /\ IsFiniteSet(kept) /\ Cardinality(kept) \in Nat /\ Cardinality(kept) <= CacheMaxEntries - 1
    BY <1>5, <2>1, RoomMade
  <2>3. IsFiniteSet(kept \cup {k}) /\ Cardinality(kept \cup {k}) = Cardinality(kept) + 1
    <3>1. k \notin kept
      BY <1>7, <2>2
    <3> QED BY <2>2, <3>1, FS_AddElement, Zenon
  <2>4. Cardinality(kept \cup {k}) <= CacheMaxEntries
    BY <2>2, <2>3, CacheNumbers
  <2>5. \A j \in DOMAIN entries' : Entry(j, entries'[j], clock)
    BY <1>3, <1>4, <2>2 DEF CacheInv
  <2> QED BY <1>3, <2>3, <2>4, <2>5
<1> QED BY <1>6, <1>7

\* The fields that a flight has.
LEMMA FlightFields ==
    ASSUME NEW k, NEW f, NEW now, Flight(k, f, now)
    PROVE  \E a \in Readers, b \in SUBSET Readers, c \in Rows, d \in Int, e \in {"start", "queued", "query", "read"} :
              f = [leader |-> a, waiters |-> b, rows |-> c, since |-> d, stage |-> e]
BY DEF Flight

LEMMA LookupKeeps ==
    ASSUME CacheInv, NEW k \in DOMAIN flights, flightLookup(k)
    PROVE  CacheInv'
<1>1. flights[k].stage = "start" /\ UNCHANGED <<clock, pointNames, entries, reader, ctxDone, failedKeys>>
  BY DEF flightLookup
<1>2. Flight(k, flights[k], clock) /\ clock \in Int
  BY DEF CacheInv
<1>3. CASE lookup(k) /\ Deliver(k, "rows", [entries[k].rows EXCEPT !.when = clock])
  <2>1. PICK rows : rows = [entries[k].rows EXCEPT !.when = clock]
    OBVIOUS
  <2>2. Entry(k, entries[k], clock) /\ clock < entries[k].expires
    BY <1>3 DEF CacheInv, lookup
  <2>3. rows \in Rows /\ Fresh(rows, k.to) /\ (k.q = "point" => rows.names = k.names)
    BY <1>2, <2>1, <2>2, HitFresh, ZenonT(30)
  <2>4. Deliver(k, "rows", rows)
    BY <1>3, <2>1
  <2>5. /\ \A j \in DOMAIN entries' : Entry(j, entries'[j], clock)
        /\ IsFiniteSet(DOMAIN entries)' /\ Cardinality(DOMAIN entries)' <= CacheMaxEntries
    BY <1>1 DEF CacheInv, CacheSizes
  <2> QED BY <1>1, <2>3, <2>4, <2>5, FlightDelivers
<1>4. CASE Stage(k, "queued") /\ UNCHANGED inbox
  <2>1. PICK f : f = flights[k]
    OBVIOUS
  <2>2. PICK g : g = [f EXCEPT !.stage = "queued"]
    OBVIOUS
  <2>3. flights' = [flights EXCEPT ![k] = g]
    BY <1>4, <2>1, <2>2 DEF Stage
  <2>4. /\ g \in [leader : Readers, waiters : SUBSET Readers, rows : Rows, since : Int,
                  stage : {"start", "queued", "query", "read"}]
        /\ g.leader = f.leader /\ g.waiters = f.waiters /\ g.stage = "queued"
    BY <1>2, <2>1, <2>2 DEF Flight
  <2>5. Flight(k, g, clock)
    BY <1>2, <2>4 DEF Flight
  <2>6. loading' \subseteq loading
    BY <2>3, <2>4 DEF loading
  <2>7. CacheSizes'
    BY <1>1, <2>6, LoadsShrink DEF CacheInv, CacheSizes
  <2> QED BY <1>1, <1>4, <2>1, <2>3, <2>4, <2>5, <2>7, FlightStages
<1> QED BY <1>3, <1>4 DEF flightLookup

LEMMA SlotKeeps ==
    ASSUME CacheInv, NEW k \in DOMAIN flights, flightSlot(k)
    PROVE  CacheInv'
<1>1. flights[k].stage = "queued" /\ UNCHANGED <<clock, pointNames, entries, reader, ctxDone, failedKeys>>
  BY DEF flightSlot
<1>2. Flight(k, flights[k], clock) /\ clock \in Int
  BY DEF CacheInv
<1>3. CASE Deliver(k, "abandoned", NoRows)
  <2>1. /\ \A j \in DOMAIN entries' : Entry(j, entries'[j], clock)
        /\ IsFiniteSet(DOMAIN entries)' /\ Cardinality(DOMAIN entries)' <= CacheMaxEntries
    BY <1>1 DEF CacheInv, CacheSizes
  <2> QED BY <1>1, <1>3, <2>1, FlightDelivers
<1>4. CASE /\ Cardinality(loading) < CacheMaxLoads
           /\ flights' = [flights EXCEPT ![k].stage = "query", ![k].since = clock]
           /\ UNCHANGED inbox
  <2>1. PICK f : f = flights[k]
    OBVIOUS
  <2>2. PICK a \in Readers, b \in SUBSET Readers, c \in Rows, d \in Int, e \in {"start", "queued", "query", "read"} :
           f = [leader |-> a, waiters |-> b, rows |-> c, since |-> d, stage |-> e]
    BY <1>2, <2>1, FlightFields
  <2>3. PICK g : g = [leader |-> a, waiters |-> b, rows |-> c, since |-> clock, stage |-> "query"]
    OBVIOUS
  <2>4. [f EXCEPT !.stage = "query"] = [leader |-> a, waiters |-> b, rows |-> c, since |-> d, stage |-> "query"]
    BY <2>2
  <2>5. PICK h : h = [leader |-> a, waiters |-> b, rows |-> c, since |-> d, stage |-> "query"]
    OBVIOUS
  <2>6. [h EXCEPT !.since = clock] = g
    BY <2>3, <2>5
  <2>7. flights' = [flights EXCEPT ![k] = [[f EXCEPT !.stage = "query"] EXCEPT !.since = clock]]
    BY <1>4, <2>1
  <2>8. flights' = [flights EXCEPT ![k] = g]
    BY <2>4, <2>5, <2>6, <2>7, Zenon
  <2>9. /\ g \in [leader : Readers, waiters : SUBSET Readers, rows : Rows, since : Int,
                  stage : {"start", "queued", "query", "read"}]
        /\ g.leader = f.leader /\ g.waiters = f.waiters /\ g.stage = "query" /\ g.since = clock
    BY <1>2, <2>2, <2>3
  <2>10. Flight(k, g, clock)
    BY <1>2, <2>9, CacheNumbers DEF Flight
  <2>11. loading' = loading \cup {k} /\ k \notin loading
    BY <1>1, <2>8, <2>9 DEF loading
  <2>12. IsFiniteSet(loading') /\ Cardinality(loading') = Cardinality(loading) + 1
    <3>1. IsFiniteSet(loading)
      BY DEF CacheInv, CacheSizes
    <3>2. IsFiniteSet(loading \cup {k}) /\ Cardinality(loading \cup {k}) = Cardinality(loading) + 1
      BY <2>11, <3>1, FS_AddElement, Zenon
    <3> QED BY <2>11, <3>2
  <2>13. Cardinality(loading) \in Nat
    BY FS_CardinalityType DEF CacheInv, CacheSizes
  <2>14. Cardinality(loading') <= CacheMaxLoads
    BY <1>4, <2>12, <2>13, CacheNumbers
  <2>15. CacheSizes'
    BY <1>1, <2>12, <2>14 DEF CacheInv, CacheSizes
  <2> QED BY <1>1, <1>4, <2>1, <2>8, <2>9, <2>10, <2>15, FlightStages
<1> QED BY <1>3, <1>4 DEF flightSlot

LEMMA QueryKeeps ==
    ASSUME CacheInv, NEW k \in DOMAIN flights, query(k)
    PROVE  CacheInv'
<1>1. flights[k].stage = "query" /\ UNCHANGED <<clock, pointNames, entries, reader, inbox, ctxDone, failedKeys>>
  BY DEF query
<1>2. Flight(k, flights[k], clock) /\ clock \in Int /\ Crew(k, flights[k], reader, DOMAIN inbox)
  BY DEF CacheInv
<1>3. PICK f : f = flights[k]
  OBVIOUS
<1>4. PICK a \in Readers, b \in SUBSET Readers, c \in Rows, d \in Int, e \in {"start", "queued", "query", "read"} :
         f = [leader |-> a, waiters |-> b, rows |-> c, since |-> d, stage |-> e]
  BY <1>2, <1>3, FlightFields
<1>5. PICK n : n = IF k.q = "point" THEN reader[f.leader].names ELSE 0
  OBVIOUS
<1>6. n \in Int /\ (k.q = "point" => n = k.names)
  <2>1. f.leader \in Readers /\ reader[f.leader].names \in Int
    BY <1>3, <1>4 DEF CacheInv, Told
  <2> QED BY <1>2, <1>3, <1>5, <2>1 DEF Crew
<1>7. PICK rows : rows = [at |-> clock, when |-> clock, names |-> n]
  OBVIOUS
<1>8. rows \in Rows /\ rows.at = clock /\ rows.names = n
  BY <1>2, <1>6, <1>7 DEF Rows
<1>9. PICK g : g = [leader |-> a, waiters |-> b, rows |-> rows, since |-> d, stage |-> "read"]
  OBVIOUS
<1>10. PICK h : h = [leader |-> a, waiters |-> b, rows |-> c, since |-> d, stage |-> "read"]
  OBVIOUS
<1>11. [f EXCEPT !.stage = "read"] = h
  BY <1>4, <1>10
<1>12. [h EXCEPT !.rows = rows] = g
  BY <1>9, <1>10
<1>13. flights' = [flights EXCEPT ![k] = [[f EXCEPT !.stage = "read"] EXCEPT !.rows = rows]]
  BY <1>3, <1>5, <1>7 DEF query
<1>14. flights' = [flights EXCEPT ![k] = g]
  BY <1>11, <1>12, <1>13, Zenon
<1>15. /\ g \in [leader : Readers, waiters : SUBSET Readers, rows : Rows, since : Int,
                 stage : {"start", "queued", "query", "read"}]
       /\ g.leader = f.leader /\ g.waiters = f.waiters /\ g.stage = "read" /\ g.since = f.since /\ g.rows = rows
  BY <1>4, <1>8, <1>9
<1>16. Flight(k, g, clock)
  BY <1>1, <1>2, <1>3, <1>6, <1>8, <1>15 DEF Flight
<1>17. loading' \subseteq loading
  BY <1>1, <1>14 DEF loading
<1>18. CacheSizes'
  BY <1>1, <1>17, LoadsShrink DEF CacheInv, CacheSizes
<1> QED BY <1>1, <1>3, <1>14, <1>15, <1>16, <1>18, FlightStages

LEMMA DoneKeeps ==
    ASSUME CacheInv, NEW k \in DOMAIN flights, flightDone(k)
    PROVE  CacheInv'
<1>1. UNCHANGED <<clock, pointNames, reader, ctxDone>>
  BY DEF flightDone
<1>2. CASE /\ flights[k].stage = "read" /\ store(k, flights[k].rows)
           /\ Deliver(k, "rows", [flights[k].rows EXCEPT !.when = clock]) /\ UNCHANGED failedKeys
  <2>1. PICK rows : rows = [flights[k].rows EXCEPT !.when = clock]
    OBVIOUS
  <2>2. Flight(k, flights[k], clock) /\ clock \in Int
    BY DEF CacheInv
  <2>3. rows \in Rows /\ Fresh(rows, k.to) /\ (k.q = "point" => rows.names = k.names)
    <3>1. flights[k].stage = "read" /\ rows = Stamped(flights[k].rows, clock)
      BY <1>2, <2>1 DEF Stamped
    <3> QED BY <2>2, <3>1, ReadFresh
  <2>4. /\ \A j \in DOMAIN entries' : Entry(j, entries'[j], clock)
        /\ IsFiniteSet(DOMAIN entries)' /\ Cardinality(DOMAIN entries)' <= CacheMaxEntries
    BY <1>2, StoreKeeps
  <2>5. Deliver(k, "rows", rows)
    BY <1>2, <2>1
  <2> QED BY <1>1, <1>2, <2>3, <2>4, <2>5, FlightDelivers
<1>3. CASE /\ Deliver(k, "error", NoRows) /\ failedKeys' = failedKeys \cup {k} /\ UNCHANGED entries
  <2>1. /\ \A j \in DOMAIN entries' : Entry(j, entries'[j], clock)
        /\ IsFiniteSet(DOMAIN entries)' /\ Cardinality(DOMAIN entries)' <= CacheMaxEntries
    BY <1>3 DEF CacheInv, CacheSizes
  <2> QED BY <1>1, <1>3, <2>1, FlightDelivers
<1> QED BY <1>2, <1>3 DEF flightDone

LEMMA ContextKeeps ==
    ASSUME CacheInv, NEW r \in Readers, ContextEnds(r)
    PROVE  CacheInv'
<1>1. CacheSizes'
  BY DEF ContextEnds, CacheInv, CacheSizes, loading
<1>2. \A w \in Readers : Told(reader[w], w \in ctxDone', failedKeys)
  BY DEF ContextEnds, CacheInv, Told
<1> QED BY <1>1, <1>2 DEF ContextEnds, CacheInv

LEMMA TimeKeeps ==
    ASSUME CacheInv, CacheTick
    PROVE  CacheInv'
<1>1. clock \in Int /\ clock' \in Int /\ clock' = clock + 1
      /\ UNCHANGED <<pointNames, entries, flights, reader, inbox, ctxDone, failedKeys>>
  BY DEF CacheTick, CacheInv
<1>2. CacheSizes'
  BY <1>1 DEF CacheInv, CacheSizes, loading
<1>3. ASSUME NEW k \in DOMAIN entries PROVE Entry(k, entries[k], clock')
  <2>1. Entry(k, entries[k], clock)
    BY DEF CacheInv
  <2> QED BY <1>1, <2>1 DEF Entry
<1>4. ASSUME NEW k \in DOMAIN flights PROVE Flight(k, flights[k], clock')
  <2>1. Flight(k, flights[k], clock)
    BY DEF CacheInv
  <2>2. flights[k].stage \in {"query", "read"} => clock - flights[k].since < CacheLoadTimeout
    BY DEF CacheTick, loading
  <2>3. flights[k].since \in Int /\ flights[k].rows.at \in Int
    BY <2>1 DEF Flight, Rows
  <2>4. flights[k].stage \in {"query", "read"} => flights[k].since <= clock' /\ clock' - flights[k].since <= CacheLoadTimeout
    BY <1>1, <2>1, <2>2, <2>3, CacheNumbers DEF Flight
  <2>5. flights[k].stage = "read" => flights[k].rows.at <= clock'
    BY <1>1, <2>1, <2>3 DEF Flight
  <2> QED BY <2>1, <2>4, <2>5 DEF Flight
<1> QED BY <1>1, <1>2, <1>3, <1>4 DEF CacheInv

\* CacheInv holds of every behaviour of the cache: whoever waits still wants
\* its flight's key, and no rows are older than their deadline allows.
THEOREM CacheInvariance == CacheSpec => []CacheInv
<1>1. ASSUME CacheInit PROVE CacheInv
  <2>1. DOMAIN entries = {} /\ loading = {} /\ DOMAIN flights = {} /\ DOMAIN inbox = {}
    BY <1>1 DEF CacheInit, loading
  <2>2. IsFiniteSet({}) /\ Cardinality({}) = 0
    BY FS_EmptySet
  <2>3. CacheSizes
    BY <2>1, <2>2, CacheNumbers DEF CacheSizes
  <2>4. Shape(Idle) /\ Idle.to \in Int /\ Idle.names \in Int /\ Idle.pc = "idle" /\ Idle.got = NoRows
    BY DEF Idle, Shape
  <2>5. \A r \in Readers : reader[r] = Idle
    BY <1>1 DEF CacheInit
  <2>6. \A r \in Readers : Told(reader[r], r \in ctxDone, failedKeys)
    BY <2>4, <2>5 DEF Told
  <2> QED BY <1>1, <2>1, <2>3, <2>6 DEF CacheInit, CacheInv
<1>2. CacheInv /\ [CacheNext]_cacheVars => CacheInv'
  <2> SUFFICES ASSUME CacheInv, [CacheNext]_cacheVars PROVE CacheInv'
    OBVIOUS
  <2>1. ASSUME NEW r \in Readers, reportsPage(r) \/ salesReport(r) \/ ReaderStep(r) \/ ContextEnds(r) PROVE CacheInv'
    BY <2>1, StartsKeep, NamesKeep, LoadKeeps, DoChanKeeps, GiveUpKeeps, ReceiveKeeps, ContextKeeps DEF ReaderStep
  <2>2. ASSUME NEW k \in DOMAIN flights, FlightStep(k) PROVE CacheInv'
    BY <2>2, LookupKeeps, SlotKeeps, QueryKeeps, DoneKeeps DEF FlightStep
  <2>3. CASE CacheTick
    BY <2>3, TimeKeeps
  <2>4. CASE RenamePoint
    <3>1. pointNames' \in Int /\ UNCHANGED <<clock, entries, flights, reader, inbox, ctxDone, failedKeys>>
      BY <2>4 DEF RenamePoint, CacheInv
    <3>2. CacheSizes'
      BY <3>1 DEF CacheInv, CacheSizes, loading
    <3> QED BY <3>1, <3>2 DEF CacheInv
  <2>5. CASE UNCHANGED cacheVars
    BY <2>5 DEF cacheVars, CacheInv, CacheSizes, loading
  <2> QED BY <2>1, <2>2, <2>3, <2>4, <2>5 DEF CacheNext
<1> QED BY <1>1, <1>2, PTL DEF CacheSpec

\* However flights, give-ups, renames and time interleave, a report's rows are
\* no older than the time to live of its range plus one query and carry the
\* names its reader read; the cache and the load slots keep their limits; and
\* only its own context or a failed query refuses a reader (CachedRepo.load).
THEOREM ReportsFresh == CacheSpec => []ServedFresh
<1>1. CacheInv => ServedFresh
  BY DEF CacheInv, CacheSizes, ServedFresh, ServedAnswer, Told, Fresh, life
<1> QED BY <1>1, CacheInvariance, PTL

-----------------------------------------------------------------------------
(* The sales report.  Its sums are SumFunction's, and FiniteLemmas says    *)
(* how they are cut, merged and renamed; BookShape is all that the orders  *)
(* need to be.                                                             *)

OrderRow ==
    [day : ReportDays, items : Baskets, point : SalePoints \cup {NoPoint}, fee : {0, 1},
     status : {"placed", "cancelled"}, online : BOOLEAN, paid : BOOLEAN]
BookShape == book \in Seq(OrderRow)

LEMMA BookInductive == BookShape /\ [ReportNext]_reportVars => BookShape'
<1> SUFFICES ASSUME BookShape, [ReportNext]_reportVars PROVE BookShape'
  OBVIOUS
<1>1. CASE book' = book
  BY <1>1 DEF BookShape
<1>2. ASSUME NEW d \in ReportDays, NEW b \in Baskets, NEW p \in SalePoints \cup {NoPoint},
             NEW online \in BOOLEAN, NEW fee \in {0, 1},
             book' = Append(book, [day |-> d, items |-> b, point |-> p, fee |-> fee,
                                   status |-> "placed", online |-> online, paid |-> FALSE])
      PROVE  BookShape'
  <2>1. [day |-> d, items |-> b, point |-> p, fee |-> fee,
         status |-> "placed", online |-> online, paid |-> FALSE] \in OrderRow
    BY DEF OrderRow
  <2> QED
    BY <1>2, <2>1 DEF BookShape
<1>3. ASSUME NEW o \in DOMAIN book,
             book' = [book EXCEPT ![o].status = "cancelled"] \/ book' = [book EXCEPT ![o].paid = TRUE]
      PROVE  BookShape'
  <2>1. book[o] \in OrderRow
    BY DEF BookShape
  <2>2. /\ [book[o] EXCEPT !.status = "cancelled"] \in OrderRow
        /\ [book[o] EXCEPT !.paid = TRUE] \in OrderRow
    BY <2>1 DEF OrderRow
  <2>3. PICK row \in OrderRow : book' = [book EXCEPT ![o] = row]
    BY <1>3, <2>2
  <2> QED
    BY <2>3 DEF BookShape
<1> QED
  BY <1>1, <1>2, <1>3 DEF ReportNext, OrderChanges, reportVars

-----------------------------------------------------------------------------
\* What the report adds up, as functions.
goodsOf == [o \in DOMAIN book |-> SumFunction([i \in Lines(o) |-> LineRevenue(o, i)])]
countOf == [o \in DOMAIN book |-> ItemCount(o)]
amountOf == [o \in DOMAIN book |-> TotalAmount(o)]
feeOf == [o \in DOMAIN book |-> book[o].fee]
unit == [x \in saleLines \cup sales |-> 1]
lineQty == [l \in saleLines |-> book[l[1]].items[l[2]].qty]
lineRevenue == [l \in saleLines |-> LineRevenue(l[1], l[2])]

LEMMA LineFacts ==
    ASSUME BookShape, NEW o \in DOMAIN book
    PROVE  /\ IsFiniteSet(Lines(o))
           /\ \A i \in Lines(o) : /\ book[o].items[i].qty \in Nat /\ LineRevenue(o, i) \in Nat
                                  /\ book[o].items[i].product \in DOMAIN Brand
<1>1. book[o] \in OrderRow
  BY DEF BookShape
<1>2. PICK b \in Baskets : b = book[o].items
  BY <1>1 DEF OrderRow
<1>3. PICK n \in Nat : DOMAIN b = 1..n
  BY ReportAssumption
<1>4. IsFiniteSet(Lines(o))
  BY <1>2, <1>3, FS_Interval DEF Lines
<1>5. ASSUME NEW i \in Lines(o)
      PROVE  /\ book[o].items[i].qty \in Nat /\ LineRevenue(o, i) \in Nat
             /\ book[o].items[i].product \in DOMAIN Brand
  <2>1. b[i].qty \in Nat /\ b[i].price \in Nat /\ b[i].product \in DOMAIN Brand
    BY <1>2, <1>5, ReportAssumption DEF Lines
  <2>2. PICK q \in Nat, p \in Nat : b[i].qty = q /\ b[i].price = p
    BY <2>1
  <2>3. p * q \in Nat
    OBVIOUS
  <2> QED
    BY <1>2, <2>1, <2>2, <2>3 DEF LineRevenue
<1> QED
  BY <1>4, <1>5

LEMMA SumOfFunction == ASSUME NEW f PROVE SumFunction(f) = SumFunctionOnSet(f, DOMAIN f)
BY DEF SumFunction

LEMMA OrderFacts ==
    ASSUME BookShape
    PROVE  /\ IsFiniteSet(DOMAIN book) /\ IsFiniteSet(sales) /\ sales \subseteq DOMAIN book
           /\ \A o \in DOMAIN book :
                 /\ countOf[o] \in Nat /\ goodsOf[o] \in Nat /\ feeOf[o] \in Nat
                 /\ amountOf[o] \in Nat /\ amountOf[o] = feeOf[o] + goodsOf[o]
                 /\ book[o].day \in ReportDays /\ book[o].point \in SalePoints \cup {NoPoint}
<1>1. PICK n \in Nat : DOMAIN book = 1..n
  BY DEF BookShape
<1>2. IsFiniteSet(DOMAIN book) /\ sales \subseteq DOMAIN book
  BY <1>1, FS_Interval DEF sales
<1>3. IsFiniteSet(sales)
  BY <1>2, FS_Subset
<1>4. ASSUME NEW o \in DOMAIN book
      PROVE  /\ countOf[o] \in Nat /\ goodsOf[o] \in Nat /\ feeOf[o] \in Nat
             /\ amountOf[o] \in Nat /\ amountOf[o] = feeOf[o] + goodsOf[o]
             /\ book[o].day \in ReportDays /\ book[o].point \in SalePoints \cup {NoPoint}
  <2>1. book[o] \in OrderRow
    BY DEF BookShape
  <2>2. feeOf[o] \in Nat /\ book[o].day \in ReportDays /\ book[o].point \in SalePoints \cup {NoPoint}
    BY <2>1 DEF OrderRow, feeOf
  <2> DEFINE qty == [i \in Lines(o) |-> book[o].items[i].qty]
             rev == [i \in Lines(o) |-> LineRevenue(o, i)]
  <2>3. /\ IsFiniteSet(Lines(o)) /\ DOMAIN qty = Lines(o) /\ DOMAIN rev = Lines(o)
        /\ \A i \in Lines(o) : qty[i] \in Nat /\ rev[i] \in Nat
    BY LineFacts
  <2>4. countOf[o] = SumFunction(qty) /\ goodsOf[o] = SumFunction(rev)
        /\ amountOf[o] = book[o].fee + SumFunction(rev) /\ feeOf[o] = book[o].fee
    BY DEF countOf, ItemCount, goodsOf, amountOf, TotalAmount, feeOf
  <2> HIDE DEF qty, rev
  <2>5. SumFunctionOnSet(qty, Lines(o)) \in Nat /\ SumFunctionOnSet(rev, Lines(o)) \in Nat
    BY <2>3, SumNat
  <2>6. SumFunction(qty) \in Nat /\ SumFunction(rev) \in Nat
    BY <2>3, <2>5, SumOfFunction
  <2> QED
    BY <2>2, <2>4, <2>6
<1> QED
  BY <1>2, <1>3, <1>4

\* A sum over some of the elements is the sum of the function that is cut to them.
LEMMA SumCut ==
    ASSUME NEW S, IsFiniteSet(S), NEW f, NEW g, DOMAIN g = S, \A x \in S : g[x] = f[x]
    PROVE  SumFunction(g) = SumFunctionOnSet(f, S)
BY SumSame, SumOfFunction

LEMMA OrderTotals ==
    ASSUME BookShape, NEW S \in SUBSET sales
    PROVE  /\ IsFiniteSet(S)
           /\ orderTotals(S) = Row(SumFunctionOnSet(unit, S), SumFunctionOnSet(countOf, S), SumFunctionOnSet(amountOf, S))
           /\ SumFunctionOnSet(unit, S) \in Nat /\ SumFunctionOnSet(countOf, S) \in Nat
           /\ SumFunctionOnSet(amountOf, S) \in Nat
<1>1. IsFiniteSet(S) /\ S \subseteq DOMAIN book
  BY OrderFacts, FS_Subset
<1>2. /\ SumFunctionOnSet(unit, S) = Cardinality(S) /\ Cardinality(S) \in Nat
  BY <1>1, SumCount, FS_CardinalityType DEF unit
<1> DEFINE count == [o \in S |-> ItemCount(o)]
           amount == [o \in S |-> TotalAmount(o)]
<1>3. /\ DOMAIN count = S /\ DOMAIN amount = S
      /\ \A o \in S : count[o] = countOf[o] /\ amount[o] = amountOf[o]
  BY <1>1 DEF countOf, amountOf
<1>4. orderTotals(S) = Row(Cardinality(S), SumFunction(count), SumFunction(amount))
  BY DEF orderTotals
<1> HIDE DEF count, amount
<1>5. SumFunction(count) = SumFunctionOnSet(countOf, S) /\ SumFunction(amount) = SumFunctionOnSet(amountOf, S)
  BY <1>1, <1>3, SumCut
<1>6. SumFunctionOnSet(countOf, S) \in Nat /\ SumFunctionOnSet(amountOf, S) \in Nat
  <2>1. \A o \in S : countOf[o] \in Nat /\ amountOf[o] \in Nat
    BY <1>1, OrderFacts
  <2> QED
    BY <1>1, <2>1, SumNat
<1> QED
  BY <1>1, <1>2, <1>4, <1>5, <1>6

LEMMA SaleLineFacts ==
    ASSUME BookShape
    PROVE  /\ IsFiniteSet(saleLines)
           /\ \A l \in saleLines : /\ l = <<l[1], l[2]>> /\ l[1] \in sales /\ l[2] \in Lines(l[1])
                                   /\ lineQty[l] \in Nat /\ lineRevenue[l] \in Nat
                                   /\ book[l[1]].items[l[2]].product \in DOMAIN Brand
<1> DEFINE of == [o \in sales |-> {o} \X Lines(o)]
<1>1. IsFiniteSet(sales) /\ sales \subseteq DOMAIN book
  BY OrderFacts
<1>2. \A o \in sales : IsFiniteSet(of[o])
  BY <1>1, LineFacts, FS_Singleton, FS_Product
<1>3. IsFiniteSet({of[o] : o \in sales})
  <2> HIDE DEF of
  <2> QED
    BY <1>1, ImageFinite
<1>4. saleLines = UNION {of[o] : o \in sales}
  BY DEF saleLines
<1>5. IsFiniteSet(saleLines)
  <2> HIDE DEF of
  <2> QED
    BY <1>2, <1>3, <1>4, FS_UNION
<1>6. ASSUME NEW l \in saleLines
      PROVE  l = <<l[1], l[2]>> /\ l[1] \in sales /\ l[2] \in Lines(l[1])
  BY DEF saleLines
<1>7. ASSUME NEW l \in saleLines
      PROVE  /\ lineQty[l] \in Nat /\ lineRevenue[l] \in Nat
             /\ book[l[1]].items[l[2]].product \in DOMAIN Brand
  <2>1. /\ book[l[1]].items[l[2]].qty \in Nat /\ LineRevenue(l[1], l[2]) \in Nat
        /\ book[l[1]].items[l[2]].product \in DOMAIN Brand
    BY <1>1, <1>6, LineFacts
  <2> QED
    BY <2>1 DEF lineQty, lineRevenue
<1> QED
  BY <1>5, <1>6, <1>7

LEMMA RowFields ==
    ASSUME NEW a, NEW b, NEW c
    PROVE  Row(a, b, c).orders = a /\ Row(a, b, c).items = b /\ Row(a, b, c).revenue = c
           /\ Row(a, b, c)["orders"] = a /\ Row(a, b, c)["items"] = b /\ Row(a, b, c)["revenue"] = c
BY DEF Row

\* A row of the query is what the orders of its group add up to.
LEMMA GroupedRows ==
    ASSUME BookShape, NEW column
    PROVE  salesByOrder(column) =
              [g \in {column[o] : o \in sales} |-> orderTotals({o \in sales : column[o] = g})]
<1>1. \A o \in DOMAIN book : book[o].status # "cancelled" /\ (~book[o].online \/ book[o].paid)
                               <=> CountsAsSale(o)
  <2> SUFFICES ASSUME NEW o \in DOMAIN book
               PROVE  book[o].status # "cancelled" /\ (~book[o].online \/ book[o].paid) <=> CountsAsSale(o)
    OBVIOUS
  <2>1. book[o] \in OrderRow
    BY DEF BookShape
  <2>2. book[o].online \in BOOLEAN /\ book[o].paid \in BOOLEAN
    BY <2>1 DEF OrderRow
  <2> QED
    BY <2>2 DEF CountsAsSale
<1>2. {o \in DOMAIN book : book[o].status # "cancelled" /\ (~book[o].online \/ book[o].paid)} = sales
  BY <1>1 DEF sales
<1> QED
  BY <1>2 DEF salesByOrder

\* Merging groups: the sums of the parts make the sum of the whole.
LEMMA MergedSums ==
    ASSUME NEW S, IsFiniteSet(S), NEW f, \A x \in S : f[x] \in Int,
           NEW G, IsFiniteSet(G), NEW k, \A x \in S : k[x] \in G,
           NEW fibre, \A y \in G : fibre[y] = {x \in S : k[x] = y},
           NEW g, DOMAIN g = G, \A y \in G : g[y] = SumFunctionOnSet(f, fibre[y])
    PROVE  SumFunction(g) = SumFunctionOnSet(f, S)
<1>1. SumFunctionOnSet(g, G) = SumFunctionOnSet(f, S)
  BY SumFibres
<1> QED
  BY <1>1, SumOfFunction

LEMMA ByOrder ==
    ASSUME BookShape, NEW column, NEW mapKey, NEW key, \A o \in sales : key[o] = mapKey[column[o]]
    PROVE  querySalesRows(salesByOrder(column), mapKey) = aggregateByOrder(key)
<1> DEFINE R == salesByOrder(column)
           Q == querySalesRows(R, mapKey)
           Keys == {key[o] : o \in sales}
           of(c) == {o \in sales : column[o] = c}
<1>1. R = [c \in {column[o] : o \in sales} |-> orderTotals(of(c))]
  BY GroupedRows
<1> HIDE DEF R
<1>2. {mapKey[c] : c \in DOMAIN R} = Keys
  BY <1>1
<1>3. ASSUME NEW x \in Keys
      PROVE  LET S == {c \in DOMAIN R : mapKey[c] = x}
             IN  Row(SumFunction([c \in S |-> R[c].orders]), SumFunction([c \in S |-> R[c].items]),
                     SumFunction([c \in S |-> R[c].revenue]))
                   = orderTotals({o \in sales : key[o] = x})
  <2> DEFINE S == {c \in DOMAIN R : mapKey[c] = x}
             H == {o \in sales : key[o] = x}
             orders == [c \in S |-> R[c].orders]
             items == [c \in S |-> R[c].items]
             revenue == [c \in S |-> R[c].revenue]
             fibre == [c \in S |-> {o \in H : column[o] = c}]
  <2>1. S = {column[o] : o \in H} /\ H \in SUBSET sales
    BY <1>1
  <2>2. ASSUME NEW c \in S
        PROVE  /\ orders[c] = SumFunctionOnSet(unit, fibre[c])
               /\ items[c] = SumFunctionOnSet(countOf, fibre[c])
               /\ revenue[c] = SumFunctionOnSet(amountOf, fibre[c])
    <3>1. of(c) = fibre[c] /\ of(c) \in SUBSET sales
      BY <2>2
    <3>2. R[c] = orderTotals(of(c))
      BY <1>1, <2>2
    <3> HIDE DEF of, H, fibre
    <3>3. R[c] = Row(SumFunctionOnSet(unit, of(c)), SumFunctionOnSet(countOf, of(c)), SumFunctionOnSet(amountOf, of(c)))
      BY <3>1, <3>2, OrderTotals
    <3> QED
      BY <3>1, <3>3, RowFields
  <2>3. DOMAIN orders = S /\ DOMAIN items = S /\ DOMAIN revenue = S
    OBVIOUS
  <2>4. \A o \in sales : unit[o] \in Int /\ countOf[o] \in Int /\ amountOf[o] \in Int
    BY OrderFacts DEF unit
  <2>5. orderTotals(H) = Row(SumFunctionOnSet(unit, H), SumFunctionOnSet(countOf, H), SumFunctionOnSet(amountOf, H))
    BY <2>1, OrderTotals
  <2>6. \A c \in S : fibre[c] = {o \in H : column[o] = c}
    OBVIOUS
  <2>7. IsFiniteSet(H) /\ \A o \in H : unit[o] \in Int /\ countOf[o] \in Int /\ amountOf[o] \in Int
    BY <2>1, <2>4, OrderTotals
  <2> HIDE DEF S, H, orders, items, revenue, fibre
  <2>8. IsFiniteSet(S) /\ \A o \in H : column[o] \in S
    BY <2>1, <2>7, ImageFinite
  <2>9. SumFunction(orders) = SumFunctionOnSet(unit, H)
    BY <2>2, <2>3, <2>6, <2>7, <2>8, MergedSums
  <2>10. SumFunction(items) = SumFunctionOnSet(countOf, H)
    BY <2>2, <2>3, <2>6, <2>7, <2>8, MergedSums
  <2>11. SumFunction(revenue) = SumFunctionOnSet(amountOf, H)
    BY <2>2, <2>3, <2>6, <2>7, <2>8, MergedSums
  <2> QED
    BY <2>5, <2>9, <2>10, <2>11 DEF S, H, orders, items, revenue
<1>4. Q = [x \in Keys |->
            LET S == {c \in DOMAIN R : mapKey[c] = x}
             IN  Row(SumFunction([c \in S |-> R[c].orders]), SumFunction([c \in S |-> R[c].items]),
                     SumFunction([c \in S |-> R[c].revenue]))]
  BY <1>2 DEF querySalesRows
<1>5. aggregateByOrder(key) = [x \in Keys |-> orderTotals({o \in sales : key[o] = x})]
  BY DEF aggregateByOrder
<1> QED
  BY <1>3, <1>4, <1>5 DEF R

\* The rows of a report, and what they are the report of.
ReportRows(rows) ==
    /\ IsFiniteSet(DOMAIN rows)
    /\ rows = [x \in DOMAIN rows |-> Row(rows[x].orders, rows[x].items, rows[x].revenue)]
    /\ \A x \in DOMAIN rows : rows[x].orders \in Nat /\ rows[x].items \in Nat /\ rows[x].revenue \in Nat

LEMMA ByItem ==
    ASSUME BookShape, NEW key
    PROVE  /\ ReportRows(aggregateByItem(key))
           /\ Total(aggregateByItem(key), "revenue") = SumFunctionOnSet(lineRevenue, saleLines)
           /\ Total(aggregateByItem(key), "items") = SumFunctionOnSet(lineQty, saleLines)
           /\ \A x \in DOMAIN aggregateByItem(key) : \E p \in DOMAIN Brand : x = key[p]
<1> DEFINE rows == aggregateByItem(key)
           of == [l \in saleLines |-> key[book[l[1]].items[l[2]].product]]
           K == {of[l] : l \in saleLines}
           fibre == [x \in K |-> {l \in saleLines : of[l] = x}]
           items(x) == [l \in fibre[x] |-> book[l[1]].items[l[2]].qty]
           revenue(x) == [l \in fibre[x] |-> LineRevenue(l[1], l[2])]
           orders(x) == Cardinality({l[1] : l \in fibre[x]})
<1>1. IsFiniteSet(saleLines) /\ \A l \in saleLines : lineQty[l] \in Nat /\ lineRevenue[l] \in Nat
                                                    /\ book[l[1]].items[l[2]].product \in DOMAIN Brand
  BY SaleLineFacts
<1>2. IsFiniteSet(K) /\ \A l \in saleLines : of[l] \in K
  <2>1. \A l \in saleLines : of[l] \in K
    OBVIOUS
  <2> HIDE DEF of
  <2> QED
    BY <1>1, <2>1, ImageFinite
<1>3. /\ \A x \in K : fibre[x] = {l \in saleLines : of[l] = x}
      /\ \A x \in K : fibre[x] \in SUBSET saleLines
  OBVIOUS
<1>4. rows = [x \in K |-> Row(orders(x), SumFunction(items(x)), SumFunction(revenue(x)))]
  <2>1. {key[book[l[1]].items[l[2]].product] : l \in saleLines} = K
    OBVIOUS
  <2>2. \A x \in K : {l \in saleLines : key[book[l[1]].items[l[2]].product] = x} = fibre[x]
    OBVIOUS
  <2> HIDE DEF K, fibre, of
  <2> QED
    BY <2>1, <2>2 DEF aggregateByItem
<1>5. \A x \in DOMAIN rows : \E p \in DOMAIN Brand : x = key[p]
  <2>1. DOMAIN rows = K
    BY <1>4
  <2> HIDE DEF rows
  <2> QED
    BY <1>1, <2>1
<1>6. ASSUME NEW x \in K
      PROVE  /\ SumFunction(items(x)) = SumFunctionOnSet(lineQty, fibre[x])
             /\ SumFunction(revenue(x)) = SumFunctionOnSet(lineRevenue, fibre[x])
             /\ IsFiniteSet(fibre[x]) /\ \A l \in fibre[x] : lineQty[l] \in Nat /\ lineRevenue[l] \in Nat
  <2>1. IsFiniteSet(fibre[x]) /\ fibre[x] \subseteq saleLines
    BY <1>1, <1>3, FS_Subset
  <2>2. /\ DOMAIN items(x) = fibre[x] /\ DOMAIN revenue(x) = fibre[x]
        /\ \A l \in fibre[x] : items(x)[l] = lineQty[l] /\ revenue(x)[l] = lineRevenue[l]
    BY <2>1 DEF lineQty, lineRevenue
  <2> HIDE DEF items, revenue, fibre
  <2> QED
    BY <1>1, <2>1, <2>2, SumCut
<1>7. ASSUME NEW x \in K
      PROVE  /\ rows[x] = Row(orders(x), SumFunctionOnSet(lineQty, fibre[x]), SumFunctionOnSet(lineRevenue, fibre[x]))
             /\ orders(x) \in Nat /\ SumFunctionOnSet(lineQty, fibre[x]) \in Nat
             /\ SumFunctionOnSet(lineRevenue, fibre[x]) \in Nat
  <2>1. IsFiniteSet({l[1] : l \in fibre[x]})
    <3> DEFINE first == [l \in fibre[x] |-> l[1]]
               F == fibre[x]
    <3>1. IsFiniteSet(F)
      BY <1>6
    <3> HIDE DEF first, F
    <3>2. IsFiniteSet({first[l] : l \in F})
      BY <3>1, ImageFinite
    <3>3. {first[l] : l \in F} = {l[1] : l \in fibre[x]}
      BY DEF first, F
    <3> QED
      BY <3>2, <3>3
  <2>2. orders(x) \in Nat
    BY <2>1, FS_CardinalityType
  <2>3. SumFunctionOnSet(lineQty, fibre[x]) \in Nat /\ SumFunctionOnSet(lineRevenue, fibre[x]) \in Nat
    <3> HIDE DEF fibre
    <3> QED
      BY <1>6, SumNat
  <2>4. rows[x] = Row(orders(x), SumFunction(items(x)), SumFunction(revenue(x)))
    <3> HIDE DEF items, revenue, orders
    <3> QED
      BY <1>4
  <2> HIDE DEF items, revenue, orders, fibre, rows
  <2> QED
    BY <1>6, <2>2, <2>3, <2>4
<1>8. DOMAIN rows = K /\ rows = [x \in K |-> rows[x]]
  BY <1>4
<1> HIDE DEF rows, K, fibre, items, revenue, orders
<1>9. ASSUME NEW x \in K
      PROVE  /\ rows[x].orders \in Nat /\ rows[x].items \in Nat /\ rows[x].revenue \in Nat
             /\ rows[x] = Row(rows[x].orders, rows[x].items, rows[x].revenue)
             /\ rows[x]["items"] = SumFunctionOnSet(lineQty, fibre[x])
             /\ rows[x]["revenue"] = SumFunctionOnSet(lineRevenue, fibre[x])
  BY <1>7, RowFields
<1>10. ReportRows(rows)
  BY <1>2, <1>8, <1>9 DEF ReportRows
<1> HIDE DEF of
<1>11. /\ Total(rows, "items") = SumFunctionOnSet(lineQty, saleLines)
       /\ Total(rows, "revenue") = SumFunctionOnSet(lineRevenue, saleLines)
  <2> DEFINE q == [x \in DOMAIN rows |-> rows[x]["items"]]
             r == [x \in DOMAIN rows |-> rows[x]["revenue"]]
  <2>1. /\ Total(rows, "items") = SumFunction(q) /\ Total(rows, "revenue") = SumFunction(r)
        /\ DOMAIN q = K /\ DOMAIN r = K
        /\ \A x \in K : q[x] = SumFunctionOnSet(lineQty, fibre[x])
        /\ \A x \in K : r[x] = SumFunctionOnSet(lineRevenue, fibre[x])
    BY <1>8, <1>9 DEF Total
  <2> HIDE DEF q, r
  <2>2. IsFiniteSet(saleLines) /\ \A l \in saleLines : lineQty[l] \in Int /\ lineRevenue[l] \in Int
    BY <1>1
  <2>3. \A y \in K : fibre[y] = {l \in saleLines : of[l] = y}
    BY <1>3
  <2>4. IsFiniteSet(K) /\ \A l \in saleLines : of[l] \in K
    BY <1>2
  <2>5. SumFunction(q) = SumFunctionOnSet(lineQty, saleLines)
    BY <2>1, <2>2, <2>3, <2>4, MergedSums
  <2>6. SumFunction(r) = SumFunctionOnSet(lineRevenue, saleLines)
    BY <2>1, <2>2, <2>3, <2>4, MergedSums
  <2> QED
    BY <2>1, <2>5, <2>6
<1> QED
  BY <1>5, <1>10, <1>11 DEF rows

\* The same for whole orders.
LEMMA OrderRows ==
    ASSUME BookShape, NEW key
    PROVE  /\ ReportRows(aggregateByOrder(key))
           /\ Total(aggregateByOrder(key), "revenue") = SumFunctionOnSet(amountOf, sales)
           /\ Total(aggregateByOrder(key), "items") = SumFunctionOnSet(countOf, sales)
           /\ Total(aggregateByOrder(key), "orders") = Cardinality(sales)
<1> DEFINE rows == aggregateByOrder(key)
           K == {key[o] : o \in sales}
           fibre == [x \in K |-> {o \in sales : key[o] = x}]
<1>1. /\ IsFiniteSet(sales)
      /\ \A o \in sales : unit[o] \in Int /\ countOf[o] \in Int /\ amountOf[o] \in Int
  BY OrderFacts DEF unit
<1>2. IsFiniteSet(K) /\ \A o \in sales : key[o] \in K
  BY <1>1, ImageFinite
<1>3. /\ \A x \in K : fibre[x] = {o \in sales : key[o] = x}
      /\ \A x \in K : fibre[x] \in SUBSET sales
  OBVIOUS
<1>4. rows = [x \in K |-> orderTotals(fibre[x])]
  BY DEF aggregateByOrder
<1> HIDE DEF rows, K, fibre
<1>5. ASSUME NEW x \in K
      PROVE  /\ rows[x].orders \in Nat /\ rows[x].items \in Nat /\ rows[x].revenue \in Nat
             /\ rows[x] = Row(rows[x].orders, rows[x].items, rows[x].revenue)
             /\ rows[x]["orders"] = SumFunctionOnSet(unit, fibre[x])
             /\ rows[x]["items"] = SumFunctionOnSet(countOf, fibre[x])
             /\ rows[x]["revenue"] = SumFunctionOnSet(amountOf, fibre[x])
  <2>1. rows[x] = orderTotals(fibre[x])
    BY <1>4
  <2>2. /\ orderTotals(fibre[x]) = Row(SumFunctionOnSet(unit, fibre[x]), SumFunctionOnSet(countOf, fibre[x]),
                                       SumFunctionOnSet(amountOf, fibre[x]))
        /\ SumFunctionOnSet(unit, fibre[x]) \in Nat /\ SumFunctionOnSet(countOf, fibre[x]) \in Nat
        /\ SumFunctionOnSet(amountOf, fibre[x]) \in Nat
    BY <1>3, OrderTotals
  <2> QED
    BY <2>1, <2>2, RowFields
<1>6. ReportRows(rows)
  BY <1>2, <1>4, <1>5 DEF ReportRows
<1>7. /\ Total(rows, "orders") = SumFunctionOnSet(unit, sales)
      /\ Total(rows, "items") = SumFunctionOnSet(countOf, sales)
      /\ Total(rows, "revenue") = SumFunctionOnSet(amountOf, sales)
  <2> DEFINE n == [x \in DOMAIN rows |-> rows[x]["orders"]]
             q == [x \in DOMAIN rows |-> rows[x]["items"]]
             r == [x \in DOMAIN rows |-> rows[x]["revenue"]]
  <2>1. /\ Total(rows, "items") = SumFunction(q) /\ Total(rows, "revenue") = SumFunction(r)
        /\ Total(rows, "orders") = SumFunction(n)
        /\ DOMAIN q = K /\ DOMAIN r = K /\ DOMAIN n = K
        /\ \A x \in K : n[x] = SumFunctionOnSet(unit, fibre[x])
        /\ \A x \in K : q[x] = SumFunctionOnSet(countOf, fibre[x])
        /\ \A x \in K : r[x] = SumFunctionOnSet(amountOf, fibre[x])
    BY <1>4, <1>5 DEF Total
  <2> HIDE DEF n, q, r
  <2>2. SumFunction(q) = SumFunctionOnSet(countOf, sales)
    BY <1>1, <1>2, <1>3, <2>1, MergedSums
  <2>3. SumFunction(r) = SumFunctionOnSet(amountOf, sales)
    BY <1>1, <1>2, <1>3, <2>1, MergedSums
  <2>4. SumFunction(n) = SumFunctionOnSet(unit, sales)
    BY <1>1, <1>2, <1>3, <2>1, MergedSums
  <2> QED
    BY <2>1, <2>2, <2>3, <2>4
<1>8. SumFunctionOnSet(unit, sales) = Cardinality(sales)
  BY <1>1, SumCount DEF unit
<1> QED
  BY <1>6, <1>7, <1>8 DEF rows

\* Keys that stay what they are: nothing is merged.
LEMMA SameRows ==
    ASSUME NEW rows, ReportRows(rows), NEW mapKey, \A x \in DOMAIN rows : mapKey[x] = x
    PROVE  querySalesRows(rows, mapKey) = rows
<1>1. {mapKey[g] : g \in DOMAIN rows} = DOMAIN rows
  OBVIOUS
<1>2. \A x \in DOMAIN rows : {g \in DOMAIN rows : mapKey[g] = x} = {x}
  OBVIOUS
<1>3. ASSUME NEW x \in DOMAIN rows
      PROVE  /\ SumFunction([g \in {x} |-> rows[g].orders]) = rows[x].orders
             /\ SumFunction([g \in {x} |-> rows[g].items]) = rows[x].items
             /\ SumFunction([g \in {x} |-> rows[g].revenue]) = rows[x].revenue
  <2>1. ASSUME NEW f, DOMAIN f = {x}, f[x] \in Int PROVE SumFunction(f) = f[x]
    BY <2>1, SumOfFunction, SumSingle
  <2>2. rows[x].orders \in Int /\ rows[x].items \in Int /\ rows[x].revenue \in Int
    BY DEF ReportRows
  <2> QED
    BY <2>1, <2>2
<1>4. querySalesRows(rows, mapKey) =
         [x \in DOMAIN rows |-> Row(SumFunction([g \in {x} |-> rows[g].orders]),
             SumFunction([g \in {x} |-> rows[g].items]), SumFunction([g \in {x} |-> rows[g].revenue]))]
  BY <1>1, <1>2 DEF querySalesRows
<1> QED
  BY <1>3, <1>4 DEF ReportRows

\* The lines of the sales are the lines of each sale.
LEMMA GoodsOfLines ==
    ASSUME BookShape
    PROVE  /\ SumFunctionOnSet(lineRevenue, saleLines) = SumFunctionOnSet(goodsOf, sales)
           /\ SumFunctionOnSet(lineQty, saleLines) = SumFunctionOnSet(countOf, sales)
<1> DEFINE first == [l \in saleLines |-> l[1]]
           fibre == [o \in sales |-> {l \in saleLines : first[l] = o}]
<1>1. /\ IsFiniteSet(saleLines) /\ IsFiniteSet(sales) /\ sales \subseteq DOMAIN book
      /\ \A l \in saleLines : first[l] \in sales /\ lineQty[l] \in Nat /\ lineRevenue[l] \in Nat
  BY SaleLineFacts, OrderFacts
<1>2. \A o \in sales : fibre[o] = {l \in saleLines : first[l] = o}
  OBVIOUS
<1>3. ASSUME NEW o \in sales
      PROVE  /\ goodsOf[o] = SumFunctionOnSet(lineRevenue, fibre[o])
             /\ countOf[o] = SumFunctionOnSet(lineQty, fibre[o])
  <2> DEFINE at == [i \in Lines(o) |-> <<o, i>>]
             qty == [i \in Lines(o) |-> book[o].items[i].qty]
             rev == [i \in Lines(o) |-> LineRevenue(o, i)]
  <2>1. fibre[o] = {o} \X Lines(o)
    BY <1>2 DEF saleLines
  <2>2. at \in Bijection(Lines(o), fibre[o])
    <3>1. \A l \in fibre[o] : \E i \in Lines(o) : l = <<o, i>>
      <4> HIDE DEF fibre
      <4>1. \A l \in {o} \X Lines(o) : l = <<l[1], l[2]>> /\ l[1] = o /\ l[2] \in Lines(o)
        OBVIOUS
      <4> QED
        BY <2>1, <4>1
    <3>2. at \in [Lines(o) -> fibre[o]]
      BY <2>1
    <3>3. \A l \in fibre[o] : \E i \in Lines(o) : at[i] = l
      BY <3>1
    <3>4. \A i, j \in Lines(o) : at[i] = at[j] => i = j
      OBVIOUS
    <3> HIDE DEF at, fibre
    <3> QED
      BY <3>2, <3>3, <3>4 DEF Bijection, Injection, Surjection, IsInjective
  <2>3. /\ IsFiniteSet(Lines(o)) /\ DOMAIN qty = Lines(o) /\ DOMAIN rev = Lines(o)
        /\ \A i \in Lines(o) : qty[i] \in Int /\ rev[i] \in Int
    BY <1>1, LineFacts
  <2>4. \A i \in Lines(o) : lineRevenue[at[i]] = rev[i] /\ lineQty[at[i]] = qty[i]
    BY DEF lineRevenue, lineQty, saleLines
  <2>5. goodsOf[o] = SumFunction(rev) /\ countOf[o] = SumFunction(qty)
    BY <1>1 DEF goodsOf, countOf, ItemCount
  <2> HIDE DEF at, qty, rev, fibre
  <2>6. SumFunctionOnSet(lineRevenue, fibre[o]) = SumFunctionOnSet(rev, Lines(o))
    BY <2>2, <2>3, <2>4, SumRenamed
  <2>7. SumFunctionOnSet(lineQty, fibre[o]) = SumFunctionOnSet(qty, Lines(o))
    BY <2>2, <2>3, <2>4, SumRenamed
  <2> QED
    BY <2>3, <2>5, <2>6, <2>7, SumOfFunction
<1> HIDE DEF first, fibre
<1>4. \A l \in saleLines : lineQty[l] \in Int /\ lineRevenue[l] \in Int /\ first[l] \in sales
  BY <1>1
<1>5. SumFunctionOnSet(goodsOf, sales) = SumFunctionOnSet(lineRevenue, saleLines)
  BY <1>1, <1>2, <1>3, <1>4, SumFibres, SMTT(20)
<1>6. SumFunctionOnSet(countOf, sales) = SumFunctionOnSet(lineQty, saleLines)
  BY <1>1, <1>2, <1>3, <1>4, SumFibres, SMTT(20)
<1> QED
  BY <1>5, <1>6

-----------------------------------------------------------------------------
\* A set written down in an order.
LEMMA SetToSeqFacts ==
    ASSUME NEW S, IsFiniteSet(S)
    PROVE  /\ Cardinality(S) \in Nat /\ SetToSeq(S) \in [1..Cardinality(S) -> S]
           /\ Len(SetToSeq(S)) = Cardinality(S)
           /\ \A x \in S : \E i \in 1..Cardinality(S) : SetToSeq(S)[i] = x
<1>1. Cardinality(S) \in Nat /\ ExistsBijection(1..Cardinality(S), S)
  BY FS_CardinalityType
<1>2. PICK f \in [1..Cardinality(S) -> S] : IsInjective(f)
  BY <1>1 DEF ExistsBijection, Bijection, Injection
<1>3. SetToSeq(S) \in [1..Cardinality(S) -> S] /\ IsInjective(SetToSeq(S))
  BY <1>2 DEF SetToSeq
<1> DEFINE keys == SetToSeq(S)
           N == Cardinality(S)
<1> HIDE DEF keys
<1>4. Cardinality(1..N) = N
  <2>1. Cardinality(1..N) = IF 1 > N THEN 0 ELSE N - 1 + 1
    BY <1>1, FS_Interval
  <2> QED BY <1>1, <2>1
<1>5. keys \in Injection(1..N, S)
  BY <1>3 DEF Injection, keys
<1>6. keys \in Surjection(1..N, S)
  BY <1>4, <1>5, FS_Injection
<1>7. \A x \in S : \E i \in 1..N : keys[i] = x
  BY <1>6 DEF Surjection
<1>8. Len(keys) = N
  BY <1>1, <1>3 DEF keys
<1> QED
  BY <1>1, <1>3, <1>7, <1>8 DEF keys

\* The positions that come before each one: by score, by position among equals.
Above(N, score, above) ==
    \A i \in 1..N : \A j :
        j \in above[i] <=> j \in 1..N /\ (score[j] > score[i] \/ (score[j] = score[i] /\ j < i))

\* Every rank is taken, and taken once.
Placed(N, above) ==
    /\ \A i \in 1..N : Cardinality(above[i]) \in 0..(N - 1)
    /\ \A i, j \in 1..N : i \in above[j] => Cardinality(above[i]) < Cardinality(above[j])
    /\ \A i, j \in 1..N : Cardinality(above[i]) = Cardinality(above[j]) => i = j
    /\ \A n \in 0..(N - 1) : \E i \in 1..N : Cardinality(above[i]) = n

LEMMA Places ==
    ASSUME NEW N \in Nat, NEW score \in [1..N -> Nat], NEW above, Above(N, score, above)
    PROVE  Placed(N, above)
<1>1. IsFiniteSet(1..N) /\ Cardinality(1..N) = N
  <2>1. IsFiniteSet(1..N) /\ Cardinality(1..N) = IF 1 > N THEN 0 ELSE N - 1 + 1
    BY FS_Interval
  <2> QED BY <2>1
<1>2. ASSUME NEW i \in 1..N
      PROVE  IsFiniteSet(above[i]) /\ Cardinality(above[i]) \in 0..(N - 1)
  <2>1. above[i] \subseteq (1..N) \ {i}
    BY DEF Above
  <2>2. IsFiniteSet((1..N) \ {i}) /\ Cardinality((1..N) \ {i}) = N - 1
    BY <1>1, FS_RemoveElement
  <2>3. IsFiniteSet(above[i]) /\ Cardinality(above[i]) <= N - 1
    BY <2>1, <2>2, FS_Subset
  <2>4. Cardinality(above[i]) \in Nat
    BY <2>3, FS_CardinalityType
  <2> QED
    BY <2>3, <2>4
<1>3. ASSUME NEW i \in 1..N, NEW j \in 1..N, i \in above[j]
      PROVE  Cardinality(above[i]) < Cardinality(above[j])
  <2>1. above[i] \subseteq above[j]
    BY <1>3 DEF Above
  <2>2. i \notin above[i]
    BY DEF Above
  <2>3. above[i] # above[j]
    BY <1>3, <2>2
  <2>4. IsFiniteSet(above[j]) /\ Cardinality(above[i]) \in Int /\ Cardinality(above[j]) \in Int
    BY ONLY <1>2, N \in Nat
  <2>5. above[i] \in SUBSET above[j]
    BY ONLY <2>1
  <2>6. Cardinality(above[i]) <= Cardinality(above[j]) /\ Cardinality(above[i]) # Cardinality(above[j])
    BY ONLY <2>3, <2>4, <2>5, FS_Subset
  <2> QED
    BY ONLY <2>4, <2>6
<1>4. \A i, j \in 1..N : i = j \/ i \in above[j] \/ j \in above[i]
  BY DEF Above
<1>5. \A i, j \in 1..N : Cardinality(above[i]) = Cardinality(above[j]) => i = j
  <2> SUFFICES ASSUME NEW i \in 1..N, NEW j \in 1..N, Cardinality(above[i]) = Cardinality(above[j])
               PROVE  i = j
    OBVIOUS
  <2>1. Cardinality(above[i]) \in Int /\ Cardinality(above[j]) \in Int
    BY ONLY <1>2, N \in Nat
  <2>2. i \notin above[j] /\ j \notin above[i]
    BY ONLY <1>3, <2>1, Cardinality(above[i]) = Cardinality(above[j])
  <2> QED
    BY <1>4, <2>2
<1> DEFINE r == [i \in 1..N |-> Cardinality(above[i])]
<1>6. /\ r \in [1..N -> 0..(N - 1)]
      /\ \A i, j \in 1..N : r[i] = r[j] => i = j
  BY <1>2, <1>5
<1>7. \A n \in 0..(N - 1) : \E i \in 1..N : r[i] = n
  <2> HIDE DEF r
  <2> QED
    BY <1>6, AllRanks
<1> QED
  BY <1>2, <1>3, <1>5, <1>7 DEF Placed

\* What a ranking leaves out beats nothing it lists.
LEMMA RankedUnbeaten ==
    ASSUME NEW rows, IsFiniteSet(DOMAIN rows), NEW field,
           \A x \in DOMAIN rows : rows[x][field] \in Nat, NEW limit \in Nat,
           NEW list, list = Ranked(rows, SetToSeq(DOMAIN rows), field, limit)
    PROVE  \A k \in DOMAIN rows \ ToSet(list), n \in DOMAIN list :
               rows[k][field] <= rows[list[n]][field]
<1> DEFINE D == DOMAIN rows
           N == Cardinality(D)
           keys == SetToSeq(D)
           score == [i \in 1..N |-> rows[keys[i]][field]]
           above == [i \in 1..N |-> {j \in 1..N : score[j] > score[i] \/ (score[j] = score[i] /\ j < i)}]
           m == Min({limit, N})
<1>1. /\ N \in Nat /\ keys \in [1..N -> D] /\ DOMAIN keys = 1..N /\ Len(keys) = N
      /\ \A x \in D : \E i \in 1..N : keys[i] = x
  BY SetToSeqFacts
<1> DEFINE set(k) == {j \in DOMAIN keys : rows[keys[j]][field] > rows[keys[k]][field]
                                         \/ (rows[keys[j]][field] = rows[keys[k]][field] /\ j < k)}
           at == [n \in 1..Min({limit, Len(keys)}) |->
                     CHOOSE k \in DOMAIN keys : Cardinality(set(k)) = n - 1]
<1>2. list = [n \in 1..m |-> keys[at[n]]] /\ DOMAIN at = 1..m
  <2>1. list = [n \in 1..Min({limit, Len(keys)}) |-> keys[at[n]]] /\ DOMAIN at = 1..Min({limit, Len(keys)})
    BY DEF Ranked
  <2>2. Len(keys) = N
    BY <1>1
  <2> HIDE DEF keys, at, N
  <2> QED
    BY <2>1, <2>2
<1>3. score \in [1..N -> Nat]
  BY <1>1
<1>4. m \in Nat /\ m <= N
  BY <1>1 DEF Min
<1>8. \A k \in 1..N : set(k) = above[k]
  BY <1>1
<1>9. \A n \in 1..m : at[n] = CHOOSE k \in DOMAIN keys : Cardinality(set(k)) = n - 1
  BY <1>2
<1> HIDE DEF keys, m, at, N, D, set
<1>5. Placed(N, above)
  <2>1. N \in Nat
    BY <1>1
  <2>2. Above(N, score, above)
    BY DEF Above
  <2> HIDE DEF score, above
  <2> QED
    BY ONLY <2>1, <2>2, <1>3, Places
<1>6. ASSUME NEW n \in 1..m
      PROVE  at[n] \in 1..N /\ Cardinality(above[at[n]]) = n - 1
  <2> HIDE DEF above
  <2>1. n - 1 \in 0..(N - 1)
    BY <1>1, <1>4
  <2>2. \E i \in 1..N : Cardinality(above[i]) = n - 1
    BY <1>5, <2>1 DEF Placed
  <2>3. \E i \in DOMAIN keys : Cardinality(set(i)) = n - 1
    BY <1>1, <1>8, <2>2
  <2>4. at[n] \in DOMAIN keys /\ Cardinality(set(at[n])) = n - 1
    BY <1>9, <2>3
  <2> QED
    BY <1>1, <1>8, <2>4
<1>7. ASSUME NEW k \in D, k \notin ToSet(list), NEW n \in 1..m
      PROVE  rows[k][field] <= rows[keys[at[n]]][field]
  <2>1. PICK i \in 1..N : keys[i] = k
    BY <1>1
  <2>2. Cardinality(above[i]) \in Nat /\ ~(Cardinality(above[i]) < m)
    <3> HIDE DEF above
    <3>1. PICK c \in 0..(N - 1) : c = Cardinality(above[i])
      BY <1>5 DEF Placed
    <3>2. ASSUME c < m PROVE FALSE
      <4>1. c + 1 \in 1..m /\ (c + 1) - 1 = c
        BY <1>1, <1>4, <3>2
      <4>2. at[c + 1] = i
        BY <1>5, <1>6, <3>1, <4>1 DEF Placed
      <4>3. list[c + 1] = k /\ c + 1 \in DOMAIN list
        BY <1>2, <2>1, <4>1, <4>2
      <4> QED
        BY <1>7, <4>3 DEF ToSet
    <3> QED
      BY <1>1, <3>1, <3>2
  <2>3. at[n] \in 1..N /\ Cardinality(above[at[n]]) = n - 1
    BY <1>6
  <2>4. i \notin above[at[n]]
    <3> HIDE DEF above
    <3>1. ~(Cardinality(above[i]) < n - 1)
      BY <1>4, <2>2
    <3> QED
      BY <1>5, <2>3, <3>1 DEF Placed
  <2>5. ~(score[i] > score[at[n]])
    BY <2>3, <2>4
  <2>6. score[i] <= score[at[n]]
    BY <1>3, <2>3, <2>5
  <2> QED
    BY <2>1, <2>3, <2>6
<1> QED
  BY <1>2, <1>7 DEF D

-----------------------------------------------------------------------------
LEMMA Halves == ASSUME NEW p \in Nat \ {0} PROVE Round(100 * 0, p) = 0
<1>1. p \div (2 * p) = 0
  OBVIOUS
<1> QED
  BY <1>1 DEF Round

LEMMA RoundInt == ASSUME NEW a \in Nat, NEW p \in Nat \ {0} PROVE Round(100 * a, p) \in Int
BY DEF Round

\* A day has a bar just when it sold something.
LEMMA Bars ==
    ASSUME NEW rows, ReportRows(rows), NEW d \in ReportDays
    PROVE  buildBars(rows)[d] > 0 <=> d \in DOMAIN rows /\ rows[d].revenue > 0
<1> DEFINE revenue == [x \in ReportDays |-> IF x \in DOMAIN rows THEN rows[x].revenue ELSE 0]
           R == {0} \cup {revenue[x] : x \in ReportDays}
           peak == Max({0} \cup {IF x \in DOMAIN rows THEN rows[x].revenue ELSE 0 : x \in ReportDays})
           pct == IF peak = 0 THEN 0 ELSE Round(100 * revenue[d], peak)
<1>1. \A x \in ReportDays : revenue[x] \in Nat
  BY DEF ReportRows
<1>2. IsFiniteSet(R) /\ R \subseteq Nat /\ R # {} /\ \A x \in ReportDays : revenue[x] \in R
  <2> HIDE DEF revenue
  <2>1. IsFiniteSet({revenue[x] : x \in ReportDays})
    BY ReportAssumption, ImageFinite
  <2>2. IsFiniteSet({0})
    BY FS_Singleton
  <2>3. IsFiniteSet(R)
    BY <2>1, <2>2, FS_Union
  <2> QED
    BY <1>1, <2>3
<1>3. peak \in Nat /\ revenue[d] <= peak
  <2>1. peak = Max(R)
    OBVIOUS
  <2> HIDE DEF revenue, R
  <2>2. Max(R) \in R /\ \A x \in R : Max(R) >= x
    <3>1. PICK m \in R : \A x \in R : x <= m
      BY <1>2, SetMax
    <3>2. \E y \in R : \A x \in R : y >= x
      BY <1>2, <3>1
    <3> QED
      BY <3>2 DEF Max
  <2> HIDE DEF peak
  <2> QED
    BY <1>2, <2>1, <2>2
<1>4. buildBars(rows)[d] = IF revenue[d] > 0 THEN Max({2, pct}) ELSE pct
  BY DEF buildBars
<1>5. d \in DOMAIN rows /\ rows[d].revenue > 0 <=> revenue[d] > 0
  OBVIOUS
<1>6. PICK r \in Nat, p \in Nat : revenue[d] = r /\ peak = p
  BY <1>1, <1>3
<1>7. pct = IF p = 0 THEN 0 ELSE Round(100 * r, p)
  BY <1>6
<1> HIDE DEF pct, peak, revenue
<1>8. ASSUME r > 0 PROVE buildBars(rows)[d] > 0
  <2>1. pct \in Int
    BY <1>7, RoundInt
  <2>2. Max({2, pct}) >= 2 /\ Max({2, pct}) \in Int
    BY <2>1 DEF Max
  <2> QED
    BY <1>4, <1>6, <1>8, <2>2
<1>9. ASSUME r = 0 PROVE buildBars(rows)[d] = 0
  <2>1. pct = 0
    BY <1>7, <1>9, Halves
  <2> QED
    BY <1>4, <1>6, <1>9, <2>1
<1>10. d \in DOMAIN rows /\ rows[d].revenue > 0 <=> r > 0
  BY <1>5, <1>6
<1>11. buildBars(rows)[d] > 0 <=> r > 0
  BY <1>8, <1>9
<1> QED
  BY <1>10, <1>11

\* The queries give what AggregateSales gives.
LEMMA SameReports ==
    ASSUME BookShape
    PROVE  /\ Sales("day") = aggregateByOrder(dayOf)
           /\ Sales("point") = aggregateByOrder([o \in DOMAIN book |-> pointKey(book[o].point)])
           /\ Sales("product") = aggregateByItem(products)
           /\ AggregateSales("day") = aggregateByOrder(dayOf)
           /\ AggregateSales("point") = aggregateByOrder([o \in DOMAIN book |-> pointKey(book[o].point)])
           /\ AggregateSales("product") = aggregateByItem(products)
<1> DEFINE days == [d \in ReportDays |-> d]
           names == [p \in SalePoints \cup {NoPoint} |-> pointKey(p)]
           nameOf == [o \in DOMAIN book |-> pointKey(book[o].point)]
<1>1. /\ Sales("day") = querySalesRows(salesByOrder(dayOf), days)
      /\ Sales("point") = querySalesRows(salesByOrder(pointOf), names)
      /\ Sales("product") = querySalesRows(aggregateByItem(products), products)
  BY DEF Sales
<1>2. /\ AggregateSales("day") = aggregateByOrder(dayOf)
      /\ AggregateSales("point") = aggregateByOrder(nameOf)
      /\ AggregateSales("product") = aggregateByItem(products)
  BY DEF AggregateSales
<1>3. \A o \in sales : dayOf[o] = days[dayOf[o]] /\ nameOf[o] = names[pointOf[o]]
  BY OrderFacts DEF dayOf, pointOf
<1> HIDE DEF days, names, nameOf
<1>4. querySalesRows(salesByOrder(dayOf), days) = aggregateByOrder(dayOf)
  BY <1>3, ByOrder
<1>5. querySalesRows(salesByOrder(pointOf), names) = aggregateByOrder(nameOf)
  BY <1>3, ByOrder
<1>6. querySalesRows(aggregateByItem(products), products) = aggregateByItem(products)
  <2> DEFINE rows == aggregateByItem(products)
  <2>1. ReportRows(rows) /\ \A x \in DOMAIN rows : \E p \in DOMAIN Brand : x = products[p]
    BY ByItem
  <2>2. \A p \in DOMAIN Brand : products[p] = p
    BY DEF products
  <2> HIDE DEF rows
  <2>3. querySalesRows(rows, products) = rows
    BY <2>1, <2>2, SameRows
  <2> QED
    BY <2>3 DEF rows
<1> QED
  BY <1>1, <1>2, <1>4, <1>5, <1>6 DEF nameOf

\* ReportRows and the field they are ranked by.
LEMMA ListUnbeaten ==
    ASSUME NEW rows, ReportRows(rows), NEW field \in {"items", "revenue"}, NEW limit \in Nat
    PROVE  LET list == Ranked(rows, SetToSeq(DOMAIN rows), field, limit)
           IN  \A k \in DOMAIN rows \ ToSet(list), n \in DOMAIN list :
                   rows[k][field] <= rows[list[n]][field]
<1>1. IsFiniteSet(DOMAIN rows) /\ \A x \in DOMAIN rows : rows[x][field] \in Nat
  BY DEF ReportRows
<1> DEFINE list == Ranked(rows, SetToSeq(DOMAIN rows), field, limit)
<1> HIDE DEF list
<1>2. \A k \in DOMAIN rows \ ToSet(list), n \in DOMAIN list : rows[k][field] <= rows[list[n]][field]
  <2>1. list = Ranked(rows, SetToSeq(DOMAIN rows), field, limit)
    BY DEF list
  <2> QED
    BY <1>1, <2>1, RankedUnbeaten
<1> QED
  BY <1>2 DEF list

LEMMA AddsUp == BookShape => ReportAddsUp
<1> SUFFICES ASSUME BookShape PROVE ReportAddsUp
  OBVIOUS
<1> DEFINE day == Sales("day")
           point == Sales("point")
           product == Sales("product")
           fees == SumFunction([o \in sales |-> book[o].fee])
           goods == SumFunctionOnSet(goodsOf, sales)
<1>1. /\ day = AggregateSales("day") /\ point = AggregateSales("point")
      /\ product = AggregateSales("product")
  BY SameReports
<1>2. /\ ReportRows(day) /\ ReportRows(point)
      /\ Total(day, "revenue") = SumFunctionOnSet(amountOf, sales)
      /\ Total(day, "items") = SumFunctionOnSet(countOf, sales)
      /\ Total(day, "orders") = Cardinality(sales)
      /\ Total(point, "revenue") = SumFunctionOnSet(amountOf, sales)
  BY SameReports, OrderRows
<1>3. /\ ReportRows(product) /\ ReportRows(BrandSales) /\ ReportRows(CategorySales)
      /\ Total(product, "items") = SumFunctionOnSet(lineQty, saleLines)
      /\ Total(product, "revenue") = SumFunctionOnSet(lineRevenue, saleLines)
      /\ Total(BrandSales, "revenue") = SumFunctionOnSet(lineRevenue, saleLines)
      /\ Total(CategorySales, "revenue") = SumFunctionOnSet(lineRevenue, saleLines)
  BY SameReports, ByItem DEF BrandSales, CategorySales
<1>4. /\ SumFunctionOnSet(lineRevenue, saleLines) = goods
      /\ SumFunctionOnSet(lineQty, saleLines) = SumFunctionOnSet(countOf, sales)
  BY GoodsOfLines
<1>5. SumFunctionOnSet(amountOf, sales) = goods + fees
  <2> DEFINE fee == [o \in sales |-> book[o].fee]
  <2>1. /\ IsFiniteSet(sales)
        /\ \A o \in sales : /\ amountOf[o] = feeOf[o] + goodsOf[o] /\ fee[o] = feeOf[o]
                            /\ feeOf[o] \in Int /\ goodsOf[o] \in Int
    BY OrderFacts DEF feeOf
  <2>2. DOMAIN fee = sales /\ fees = SumFunction(fee)
    OBVIOUS
  <2> HIDE DEF fee
  <2>3. fees = SumFunctionOnSet(feeOf, sales)
    BY <2>1, <2>2, SumCut
  <2>4. SumFunctionOnSet(amountOf, sales) = SumFunctionOnSet(feeOf, sales) + goods
    BY <2>1, SumPlus
  <2>5. SumFunctionOnSet(feeOf, sales) \in Int /\ goods \in Int
    BY <2>1, SumInt
  <2> QED
    BY <2>3, <2>4, <2>5
<1>6. \A d \in ReportDays : buildBars(day)[d] > 0 <=> d \in DOMAIN day /\ day[d].revenue > 0
  BY <1>2, Bars
<1> DEFINE unbeaten(list, rows, field) ==
               \A k \in DOMAIN rows \ ToSet(list), n \in DOMAIN list :
                   rows[k][field] <= rows[list[n]][field]
<1>7. unbeaten(buildTopProducts(product), product, "items")
  BY <1>3, ReportAssumption, ListUnbeaten DEF buildTopProducts
<1>8. unbeaten(buildTopBrands(BrandSales), BrandSales, "revenue")
  BY <1>3, ReportAssumption, ListUnbeaten DEF buildTopBrands
<1>9. unbeaten(buildPointBars(point), point, "revenue")
  <2>1. Cardinality(DOMAIN point) \in Nat
    BY <1>2, FS_CardinalityType DEF ReportRows
  <2> QED
    BY <1>2, <2>1, ListUnbeaten DEF buildPointBars
<1>10. /\ buildStatCards(day).revenue = Total(day, "revenue")
       /\ buildStatCards(day).orders = Total(day, "orders")
       /\ buildStatCards(day).items = Total(day, "items")
  BY DEF buildStatCards
<1>11. /\ \A g \in {"day", "point", "product"} : Sales(g) = AggregateSales(g)
       /\ Total(BrandSales, "revenue") = Total(product, "revenue")
       /\ Total(CategorySales, "revenue") = Total(product, "revenue")
       /\ buildStatCards(day).revenue = Total(product, "revenue") + fees
       /\ Total(point, "revenue") = Total(product, "revenue") + fees
       /\ buildStatCards(day).orders = Cardinality(sales)
       /\ buildStatCards(day).items = Total(product, "items")
  <2> HIDE DEF fees, goods
  <2> QED
    BY <1>1, <1>2, <1>3, <1>4, <1>5, <1>10
<1> QED
  BY <1>6, <1>7, <1>8, <1>9, <1>11 DEF ReportAddsUp

\* ReportAddsUp: the report of the queries is the report of AggregateSales, its
\* sections add up to the same money, its bars are the days with sales and its
\* lists leave out nothing that beats them (sales.go, sales_sql.go, reports.go).
THEOREM ReportIsTheReference == ReportSpec => []ReportAddsUp
<1>1. ReportInit => BookShape
  BY DEF ReportInit, BookShape
<1>2. BookShape /\ [ReportNext]_reportVars => BookShape'
  BY BookInductive
<1>3. BookShape => ReportAddsUp
  BY AddsUp
<1> QED
  BY <1>1, <1>2, <1>3, PTL DEF ReportSpec
=============================================================================
