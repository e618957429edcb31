--------------------------- MODULE BroadcastWorker ---------------------------
(***************************************************************************)
(* Promo broadcasts: the admin form queues them, one background worker     *)
(* pushes them to every device of the audience in batches and records a    *)
(* cursor after each, through store errors, shutdowns and crashes.         *)
(*                                                                         *)
(* A broadcast is named after the submit that queued it.  A device is its  *)
(* device_tokens.id (a uuid: its order is the cursor's, not that of time); *)
(* 0 stands for no cursor.                                                 *)
(*                                                                         *)
(* Sources: internal/broadcasts, internal/admin/broadcasts_page.go,        *)
(* cmd/server/main.go.                                                     *)
(***************************************************************************)
EXTENDS Naturals, FiniteSets

CONSTANTS
    Req,                \* submits of the admin form
    Forms,              \* which submits carry the same submit token: functions on Req
    Devices,            \* ids of device tokens
    BatchSize,          \* WorkerConfig.BatchSize
    maxAttemptErrors,
    MaxMoves,           \* bound: devices joining or leaving the audience
    MaxFaults,          \* bound: statements that fail
    MaxCrashes          \* bound: deaths of the process

ASSUME BroadcastAssumption ==
    /\ IsFiniteSet(Req)
    /\ Devices \subseteq Nat \ {0} /\ IsFiniteSet(Devices)
    /\ BatchSize \in Nat \ {0} /\ maxAttemptErrors \in Nat \ {0}
    /\ MaxMoves \in Nat /\ MaxFaults \in Nat /\ MaxCrashes \in Nat

VARIABLES
    tokenOf,    \* the submit token of a form (never changes)
    form,       \* where a submit is
    rows,       \* table broadcasts
    audience,   \* devices with promo_push on
    pc,         \* where the worker is
    job,        \* the broadcast it works on, its cursor, the batch and what of it is unsent
    errors,     \* Worker.errors: consecutive store errors
    stopping,   \* shutdown has begun
    budget,     \* what is left of the bounds
    pushes,     \* ghost: attempts to send a broadcast to a device
    steady,     \* ghost: audience of a broadcast ever since it started
    unrecorded  \* ghost: batches of a broadcast whose record was lost

vars == <<tokenOf, form, rows, audience, pc, job, errors, stopping, budget, pushes, steady, unrecorded>>
ghosts == <<pushes, steady, unrecorded>>
worker == <<pc, job, errors>>

NoJob == [id |-> 0, cursor |-> 0, todo |-> {}, batch |-> {}]

Init ==
    /\ tokenOf \in Forms
    /\ form = [q \in Req |-> "new"]
    /\ rows = [b \in Req |-> [status |-> "none", created_at |-> 0, cursor |-> 0, counted |-> 0]]
    /\ audience \in SUBSET Devices
    /\ pc = "drain"
    /\ job = NoJob
    /\ errors = [b \in Req |-> 0]
    /\ stopping = FALSE
    /\ budget = [moves |-> MaxMoves, faults |-> MaxFaults, crashes |-> MaxCrashes]
    /\ pushes = [b \in Req |-> [d \in Devices |-> 0]]
    /\ steady = [b \in Req |-> {}]
    /\ unrecorded = [b \in Req |-> 0]

-----------------------------------------------------------------------------
(***************************************************************************)
(* The admin form: Create.                                                 *)
(***************************************************************************)
stored(t) == \E b \in Req : rows[b].status # "none" /\ tokenOf[b] = t

\* idByToken: a resubmit returns early.
idByToken(q) ==
    /\ form[q] = "new" /\ ~stopping
    /\ form' = [form EXCEPT ![q] = IF stored(tokenOf[q]) THEN "done" ELSE "insert"]
    /\ UNCHANGED <<tokenOf, rows, audience, worker, stopping, budget, ghosts>>

\* ON CONFLICT (submit_token) DO NOTHING
onConflict(q) == ~stored(tokenOf[q])

now == 1 + Cardinality({b \in Req : rows[b].status # "none"})

Create(q) ==
    /\ form[q] = "insert"
    /\ form' = [form EXCEPT ![q] = "done"]
    /\ rows' = IF onConflict(q) THEN [rows EXCEPT ![q].status = "queued", ![q].created_at = now] ELSE rows
    /\ UNCHANGED <<tokenOf, audience, worker, stopping, budget, ghosts>>

\* Input or link is refused, or a statement fails.
refused(q) ==
    /\ form[q] \in {"new", "insert"}
    /\ form' = [form EXCEPT ![q] = "done"]
    /\ UNCHANGED <<tokenOf, rows, audience, worker, stopping, budget, ghosts>>

\* A device is registered or its customer opts in, or the reverse.
Move(d) ==
    /\ budget.moves > 0
    /\ budget' = [budget EXCEPT !.moves = @ - 1]
    /\ audience' = IF d \in audience THEN audience \ {d} ELSE audience \cup {d}
    /\ steady' = [b \in Req |-> steady[b] \ {d}]
    /\ UNCHANGED <<tokenOf, form, rows, worker, stopping, pushes, unrecorded>>

-----------------------------------------------------------------------------
(***************************************************************************)
(* The worker.                                                             *)
(***************************************************************************)
\* run: after a drain it waits for the ticker, or for Nudge, which only makes
\* the next look come sooner: the ticker may fire at any moment.
ticked ==
    /\ pc = "waiting"
    /\ ~stopping
    /\ pc' = "drain"
    /\ UNCHANGED <<tokenOf, form, rows, audience, job, errors, stopping, budget, ghosts>>

\* Statements on the cancelled context fail; they count as no error.
stops ==
    /\ stopping
    /\ pc \in {"waiting", "drain", "mark", "batch", "finish", "giveUp"}
    /\ pc' = "stopped"
    /\ job' = NoJob
    /\ UNCHANGED <<tokenOf, form, rows, audience, errors, stopping, budget, ghosts>>

\* Mutant: a broadcast that was interrupted is not looked at again.
pendingQueued == {b \in Req : rows[b].status = "queued"}

\* status IN ('queued', 'sending')
pending == {b \in Req : rows[b].status \in {"queued", "sending"}}
oldest == CHOOSE b \in pending : \A c \in pending : rows[b].created_at <= rows[c].created_at

\* Mutant: a resumed broadcast starts from the first device again.
resumeFromStart(b) == 0

\* cursor := b.CursorTokenID
resumeFrom(b) == rows[b].cursor

NextPending ==
    /\ pc = "drain" /\ ~stopping
    /\ IF pending = {}
       THEN pc' = "waiting" /\ job' = NoJob
       ELSE /\ job' = [NoJob EXCEPT !.id = oldest, !.cursor = resumeFrom(oldest)]
            /\ pc' = IF rows[oldest].status = "queued" THEN "mark" ELSE "batch"
    /\ UNCHANGED <<tokenOf, form, rows, audience, errors, stopping, budget, ghosts>>

\* d.id > $1
afterCursor(d) == d > job.cursor

candidates == {d \in audience : afterCursor(d)}

\* Mutant: ORDER BY d.id DESC.
targetsBackwards == {d \in candidates : Cardinality({e \in candidates : e > d}) < BatchSize}

\* ORDER BY d.id LIMIT $2
targets == {d \in candidates : Cardinality({e \in candidates : e < d}) < BatchSize}

NextTargets ==
    /\ pc = "batch" /\ ~stopping
    /\ job' = [job EXCEPT !.batch = targets, !.todo = targets]
    /\ pc' = IF targets = {} THEN "finish" ELSE "send"
    /\ UNCHANGED <<tokenOf, form, rows, audience, errors, stopping, budget, ghosts>>

\* sendBatch pushes to the targets in any order; an invalid token is removed
\* with the record, other outcomes are only counted.
Send(d) ==
    /\ pc = "send"
    /\ d \in job.todo
    /\ job' = [job EXCEPT !.todo = @ \ {d}]
    /\ pushes' = [pushes EXCEPT ![job.id][d] = @ + 1]
    /\ pc' = IF job.todo = {d} THEN "record" ELSE "send"
    /\ UNCHANGED <<tokenOf, form, rows, audience, errors, stopping, budget, steady, unrecorded>>

last == CHOOSE d \in job.batch : \A e \in job.batch : e <= d

\* RecordBatch: counters and cursor in one UPDATE.
recordedRow(b) == [rows[b] EXCEPT !.counted = @ + Cardinality(job.batch), !.cursor = last]

\* A statement that fails leaves nothing behind (tx.Rollback).
rolledBack(b) == rows[b]

\* What the worker's statement writes into the row, at each step.
written ==
    LET b == job.id
    IN  CASE pc = "mark" -> [rows[b] EXCEPT !.status = "sending"]
          [] pc = "record" -> recordedRow(b)
          [] pc = "finish" -> [rows[b] EXCEPT !.status = "done"]
          [] pc = "giveUp" -> [rows[b] EXCEPT !.status = "failed"]

\* The statement takes effect.  MarkSending starts the ghost steady with the
\* audience it counts; RecordBatch deletes the tokens that proved invalid.
effect ==
    /\ rows' = [rows EXCEPT ![job.id] = written]
    /\ \E invalid \in SUBSET (IF pc = "record" THEN job.batch ELSE {}) :
          /\ audience' = audience \ invalid
          /\ steady' = [b \in Req |-> IF pc = "mark" /\ b = job.id THEN audience ELSE steady[b] \ invalid]

clearErrors == errors' = [errors EXCEPT ![job.id] = 0]

MarkSending ==
    /\ pc = "mark" /\ ~stopping
    /\ effect
    /\ pc' = "batch"
    /\ UNCHANGED <<tokenOf, form, job, errors, stopping, budget, pushes, unrecorded>>

\* Also when the worker was told to stop meanwhile.
RecordBatch ==
    /\ pc = "record"
    /\ effect
    /\ clearErrors
    /\ job' = [NoJob EXCEPT !.id = job.id, !.cursor = last]
    /\ pc' = "batch"
    /\ UNCHANGED <<tokenOf, form, stopping, budget, pushes, unrecorded>>

\* With no target left, or giving up.
Finish ==
    /\ pc \in {"finish", "giveUp"} /\ ~stopping
    /\ effect
    /\ clearErrors
    /\ job' = NoJob
    /\ pc' = "drain"
    /\ UNCHANGED <<tokenOf, form, stopping, budget, pushes, unrecorded>>

-----------------------------------------------------------------------------
(***************************************************************************)
(* Failures.                                                               *)
(***************************************************************************)
spend(what) == budget[what] > 0 /\ budget' = [budget EXCEPT ![what] = @ - 1]

\* NextPending fails: the next tick tries again.
nextPendingFails ==
    /\ pc = "drain" /\ ~stopping
    /\ spend("faults")
    /\ pc' = "waiting"
    /\ UNCHANGED <<tokenOf, form, rows, audience, job, errors, stopping, ghosts>>

\* A statement of process fails, whether or not it took effect; storeError
\* retries at the next tick or gives up, which may fail as well.
storeError(effective) ==
    LET n == errors[job.id] + 1
        counts == ~stopping /\ pc # "giveUp"
    IN
    /\ pc \in {"mark", "batch", "record", "finish", "giveUp"}
    /\ effective => pc # "batch"
    /\ spend("faults")
    /\ IF effective
       THEN effect
       ELSE rows' = [rows EXCEPT ![job.id] = rolledBack(job.id)] /\ UNCHANGED <<audience, steady>>
    /\ unrecorded' = [unrecorded EXCEPT ![job.id] = IF pc = "record" /\ ~effective THEN @ + 1 ELSE @]
    /\ errors' = IF counts THEN [errors EXCEPT ![job.id] = n] ELSE errors
    /\ pc' = IF counts /\ n >= maxAttemptErrors THEN "giveUp" ELSE "waiting"
    /\ job' = IF pc' = "giveUp" THEN [NoJob EXCEPT !.id = job.id] ELSE NoJob
    /\ UNCHANGED <<tokenOf, form, stopping, pushes>>

\* SIGTERM: the worker is told to stop.
Shutdown ==
    /\ ~stopping
    /\ spend("crashes")
    /\ stopping' = TRUE
    /\ UNCHANGED <<tokenOf, form, rows, audience, worker, ghosts>>

\* The process is gone (crashed, or the shutdown timed out) and starts again.
restarted ==
    /\ form' = [q \in Req |-> IF form[q] = "new" THEN "new" ELSE "done"]
    /\ pc' = "drain" /\ job' = NoJob
    /\ errors' = [b \in Req |-> 0]
    /\ stopping' = FALSE
    /\ unrecorded' = IF pc \in {"send", "record"} THEN [unrecorded EXCEPT ![job.id] = @ + 1] ELSE unrecorded
    /\ UNCHANGED <<tokenOf, rows, audience, pushes, steady>>

Crash == spend("crashes") /\ restarted

Restart == pc = "stopped" /\ restarted /\ UNCHANGED budget

workerStep ==
    \/ ticked \/ stops \/ NextPending \/ MarkSending \/ NextTargets
    \/ (\E d \in Devices : Send(d)) \/ RecordBatch \/ Finish

Next ==
    \/ \E q \in Req : idByToken(q) \/ Create(q) \/ refused(q)
    \/ \E d \in Devices : Move(d)
    \/ workerStep
    \/ nextPendingFails \/ (\E c \in BOOLEAN : storeError(c))
    \/ Shutdown \/ Crash \/ Restart

Spec == Init /\ [][Next]_vars

\* The goroutine keeps running and a stopped server is started again.
FairSpec == Spec /\ WF_vars(workerStep) /\ WF_vars(Restart)

-----------------------------------------------------------------------------
\* A broadcast that is done was tried at every device that was in the audience
\* from its start to its end, whatever stopped the worker in between (process).
DoneReachedAll ==
    \A b \in Req : rows[b].status = "done" => \A d \in steady[b] : pushes[b][d] > 0

\* One form, submitted twice or at the same moment, is one broadcast, which
\* reaches a device again only because a batch's record was lost, once for each
\* (Create, process and RecordBatch: at-least-once, no more than needed), and
\* the counters shown to staff never exceed the devices pushed to, although lost
\* batches are sent again.
RepeatsOnlyAfterLoss ==
    \A a, b \in Req, d \in Devices :
        /\ tokenOf[a] = tokenOf[b] /\ pushes[a][d] > 0 /\ pushes[b][d] > 0 => a = b
        /\ pushes[a][d] <= 1 + unrecorded[a]
        /\ rows[a].counted <= Cardinality({e \in Devices : pushes[a][e] > 0})

\* A queued broadcast ends as done or failed (run, drain, storeError).
BroadcastsEnd ==
    \A b \in Req : rows[b].status = "queued" ~> rows[b].status \in {"done", "failed"}

=============================================================================
