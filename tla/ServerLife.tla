----------------------------- MODULE ServerLife -----------------------------
(***************************************************************************)
(* The process from start to exit (cmd/server/main.go, run): the HTTP      *)
(* server, the notification dispatcher, the broadcast worker, the payment  *)
(* expiry and login code cleanup jobs, and the database pool they share.   *)
(* A signal or a failing listener ends it; one deadline bounds every wait  *)
(* of the orderly path, but not the waits of the deferred calls.           *)
(***************************************************************************)
EXTENDS Dispatcher

CONSTANT ExpiryEvents    \* the events an expiry pass raises; the others come from requests

ASSUME LifeAssumption == ExpiryEvents \subseteq Events

VARIABLES phase,      \* where run() is
          deadline,   \* shutdownCtx has ended
          handler,    \* one request per event
          expiry,     \* payments.RunPendingExpiry
          cleanup,    \* auth.RunOTPCleanup
          batch,      \* the broadcast worker
          poolOpen    \* *sql.DB

lifeVars == <<phase, deadline, handler, expiry, cleanup, batch, poolOpen>>
serverVars == <<dispatcherVars, lifeVars>>

ServerInit ==
    /\ DispatcherInit
    /\ phase = "up" /\ deadline = FALSE /\ poolOpen = TRUE
    /\ handler = [e \in Events \ ExpiryEvents |-> "none"]
    /\ expiry = "idle" /\ cleanup = "idle" /\ batch = "idle"

-----------------------------------------------------------------------------
(* While it serves.                                                        *)

(* Shutdown closes the listener; requests already running go on.           *)
Request(e) ==
    /\ phase = "up" /\ handler[e] = "none"
    /\ handler' = [handler EXCEPT ![e] = "running"]
    /\ UNCHANGED <<dispatcherVars, phase, deadline, expiry, cleanup, batch, poolOpen>>

(* The handler has committed and notifies before it returns.               *)
Notify(e) ==
    /\ handler[e] = "running" /\ phase # "exited"
    /\ OrderCreated(e) \/ OrderCancelledByCustomer(e) \/ OrderStatusChanged(e)
    /\ handler' = [handler EXCEPT ![e] = "done"]
    /\ UNCHANGED <<phase, deadline, expiry, cleanup, batch, poolOpen>>

(* One background job: a pass begins on its ticker and ends by itself; a   *)
(* pass of the expiry job may cancel an order.                             *)
Loop(old, new) ==
    \/ old = "idle" /\ phase # "exited" /\ new = "pass"
    \/ old = "pass" /\ new = "idle"
    \/ old = "stopping" /\ new = "stopped"

RunPendingExpiry ==
    /\ \/ Loop(expiry, expiry') /\ UNCHANGED job
       \/ /\ expiry \in {"pass", "stopping"} /\ UNCHANGED expiry
          /\ \E e \in ExpiryEvents : goJob(e, "status", TRUE)
    /\ UNCHANGED <<closed, deviceTokens, installed, fcmToken, phoneKnown,
                   phase, deadline, handler, cleanup, batch, poolOpen>>

RunOTPCleanup ==
    /\ Loop(cleanup, cleanup')
    /\ UNCHANGED <<dispatcherVars, phase, deadline, handler, expiry, batch, poolOpen>>

Broadcasts ==
    /\ Loop(batch, batch')
    /\ UNCHANGED <<dispatcherVars, phase, deadline, handler, expiry, cleanup, poolOpen>>

(* Cancelling a job's context: an idle loop ends, a pass finishes first.   *)
Stop(state) == IF state = "pass" THEN "stopping" ELSE IF state = "idle" THEN "stopped" ELSE state

-----------------------------------------------------------------------------
(* run() after its select.                                                 *)

Jobs == {e \in Events : job[e].pc \in {"start", "send", "call"}}

Signal ==
    /\ phase = "up" /\ phase' = "draining"
    /\ UNCHANGED <<dispatcherVars, deadline, handler, expiry, cleanup, batch, poolOpen>>

(* The listener fails: run returns at once and only the defers happen.     *)
ListenError ==
    /\ phase = "up" /\ phase' = "deferred" /\ batch' = Stop(batch)
    /\ UNCHANGED <<dispatcherVars, deadline, handler, expiry, cleanup, poolOpen>>

ShutdownTimeout ==
    /\ phase \in {"draining", "notifying", "broadcasts"} /\ ~deadline
    /\ deadline' = TRUE
    /\ UNCHANGED <<dispatcherVars, phase, handler, expiry, cleanup, batch, poolOpen>>

\* Mutant: the dispatcher is closed before the requests have ended.
srvShutdownMut ==
    /\ phase = "draining"
    /\ phase' = "notifying" /\ closed' = TRUE
    /\ UNCHANGED <<job, deviceTokens, installed, fcmToken, phoneKnown,
                   deadline, handler, expiry, cleanup, batch, poolOpen>>

(* srv.Shutdown waits for the running requests, then notifier.Shutdown     *)
(* closes the dispatcher.                                                  *)
srvShutdown ==
    /\ phase = "draining"
    /\ deadline \/ \A e \in DOMAIN handler : handler[e] # "running"
    /\ phase' = "notifying" /\ closed' = TRUE
    /\ UNCHANGED <<job, deviceTokens, installed, fcmToken, phoneKnown,
                   deadline, handler, expiry, cleanup, batch, poolOpen>>

\* Mutant: it waits for the jobs however long they take.
notifierShutdownMut ==
    /\ phase = "notifying" /\ Jobs = {}
    /\ phase' = "broadcasts" /\ batch' = Stop(batch)
    /\ UNCHANGED <<dispatcherVars, deadline, handler, expiry, cleanup, poolOpen>>

(* It waits for the jobs, then the broadcast worker is told to stop.       *)
notifierShutdown ==
    /\ phase = "notifying" /\ (deadline \/ Jobs = {})
    /\ phase' = "broadcasts" /\ batch' = Stop(batch)
    /\ UNCHANGED <<dispatcherVars, deadline, handler, expiry, cleanup, poolOpen>>

stopBroadcasts ==
    /\ phase = "broadcasts" /\ (deadline \/ batch = "stopped")
    /\ phase' = "deferred"
    /\ UNCHANGED <<dispatcherVars, deadline, handler, expiry, cleanup, batch, poolOpen>>

(* The deferred calls, last first: stop the cleanup and wait, stop the     *)
(* expiry and wait, close the pool.                                        *)
defers ==
    \/ /\ phase = "deferred" /\ phase' = "cleanup" /\ cleanup' = Stop(cleanup)
       /\ UNCHANGED <<dispatcherVars, deadline, handler, expiry, batch, poolOpen>>
    \/ /\ phase = "cleanup" /\ cleanup = "stopped"
       /\ phase' = "expiry" /\ expiry' = Stop(expiry)
       /\ UNCHANGED <<dispatcherVars, deadline, handler, cleanup, batch, poolOpen>>
    \/ /\ phase = "expiry" /\ expiry = "stopped"
       /\ phase' = "exited" /\ poolOpen' = FALSE
       /\ UNCHANGED <<dispatcherVars, deadline, handler, expiry, cleanup, batch>>

Stopping == srvShutdown \/ notifierShutdown \/ stopBroadcasts \/ defers

ServerNext ==
    \/ \E e \in DOMAIN handler : Request(e) \/ Notify(e)
    \/ \E e \in Events : phase # "exited" /\ JobStep(e) /\ UNCHANGED lifeVars
    \/ phase # "exited" /\ Outside /\ UNCHANGED lifeVars
    \/ RunPendingExpiry \/ RunOTPCleanup \/ Broadcasts
    \/ Signal \/ ListenError \/ ShutdownTimeout
    \/ Stopping

ServerSpec == ServerInit /\ [][ServerNext]_serverVars

(* Handlers, jobs and passes end by themselves: each has a timeout.        *)
ServerFairness ==
    WF_serverVars(\/ Stopping \/ ShutdownTimeout
                  \/ expiry = "stopping" /\ expiry' = "stopped" /\ RunPendingExpiry
                  \/ cleanup = "stopping" /\ RunOTPCleanup)

-----------------------------------------------------------------------------
(* The pool is closed only when no expiry pass and no cleanup is left that *)
(* uses it, on every path out.  At most MaxInFlight jobs run, panics and   *)
(* drops included, and none starts once the dispatcher was closed and has  *)
(* waited in time.  And a stop within its deadline cuts nothing: every     *)
(* request that ran has been answered, its notification was not refused    *)
(* because of the stop, no job and no batch is left half done.             *)
CleanExit ==
    /\ ~poolOpen => expiry = "stopped" /\ cleanup = "stopped"
    /\ Cardinality(Jobs) <= MaxInFlight
    /\ phase \in {"broadcasts", "deferred", "cleanup", "expiry", "exited"}
          /\ closed /\ ~deadline => Jobs = {}
    /\ phase = "exited" /\ closed /\ ~deadline =>
          /\ batch = "stopped"
          /\ \A e \in DOMAIN handler :
                handler[e] # "running" /\ job[e].pc # "refused"

(* A stop, once asked for, ends the process.                               *)
ServerStops == phase = "draining" ~> phase = "exited"
=============================================================================
