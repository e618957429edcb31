----------------------------- MODULE Dispatcher -----------------------------
(***************************************************************************)
(* Order notifications (internal/notifications/dispatcher.go) with the FCM *)
(* client they push through (internal/push/fcm.go).  An event becomes a    *)
(* background job if a slot is free and the dispatcher still accepts; a    *)
(* status job pushes to each device of the customer, deletes the ones FCM  *)
(* calls dead, and falls back to one SMS when no device is reachable.      *)
(***************************************************************************)
EXTENDS Integers, FiniteSets

CONSTANTS Events,       \* notifications of committed order changes
          Devices,      \* device tokens of the customer
          MaxInFlight,  \* slots for background jobs
          SMSFallback   \* env SMS_STATUS_FALLBACK

ASSUME DispatcherAssumption == MaxInFlight \in Nat \ {0} /\ SMSFallback \in BOOLEAN

VARIABLES closed,       \* Dispatcher.closed
          job,          \* one record per event
          deviceTokens, \* rows of device_tokens
          installed,    \* devices on which the app still is (external)
          fcmToken,     \* FCMSender.accessToken: none, live or revoked
          phoneKnown    \* the customer has not been deleted

dispatcherVars == <<closed, job, deviceTokens, installed, fcmToken, phoneKnown>>

NoJob == [pc |-> "none", kind |-> "none", text |-> FALSE, phone |-> FALSE,
          tried |-> {}, left |-> {}, sent |-> 0, failed |-> 0, sms |-> FALSE,
          told |-> FALSE]

DispatcherInit ==
    /\ closed = FALSE
    /\ job = [e \in Events |-> NoJob]
    /\ deviceTokens = Devices
    /\ installed \in SUBSET Devices
    /\ fcmToken = "none"
    /\ phoneKnown = TRUE

-----------------------------------------------------------------------------
(* Accepting an event.                                                     *)

running == {e \in Events : job[e].pc \in {"start", "send", "call"}}

(* Statuses that have a customer-facing text; "placed" has none.           *)
statusPushText(status) ==
    status \in {"confirmed", "courier_assigned", "delivered", "cancelled"}

(* Refused after Shutdown, dropped when every slot is taken.               *)
goJob(e, kind, text) ==
    /\ job[e].pc = "none"
    /\ job' = [job EXCEPT ![e] =
          [NoJob EXCEPT !.kind = kind, !.text = text,
                        !.pc = CASE closed -> "refused"
                                 [] ~closed /\ Cardinality(running) >= MaxInFlight -> "dropped"
                                 [] OTHER -> "start"]]
    /\ UNCHANGED <<closed, deviceTokens, installed, fcmToken, phoneKnown>>

OrderCreated(e) == goJob(e, "staff", TRUE)
OrderCancelledByCustomer(e) == goJob(e, "staff", TRUE)
OrderStatusChanged(e) ==
    \E status \in {"placed", "confirmed", "courier_assigned", "delivered", "cancelled"} :
        goJob(e, "status", statusPushText(status))

-----------------------------------------------------------------------------
(* The jobs.                                                               *)

(* The staff message goes out even when the lookup of its details failed;  *)
(* Telegram may refuse it.                                                 *)
sendStaffNewOrder(e) ==
    /\ job[e].pc = "start" /\ job[e].kind = "staff"
    /\ \E told \in BOOLEAN : job' = [job EXCEPT ![e].pc = "done", ![e].told = told]
    /\ UNCHANGED <<closed, deviceTokens, installed, fcmToken, phoneKnown>>

(* The contact's lookup failing means no phone; a deleted customer has     *)
(* none.                                                                   *)
customerContact == {phoneKnown, FALSE}

(* No text: nothing to do.  Tokens that cannot be read end the job: it is  *)
(* unknown whether a push would have reached the customer.                 *)
pushStatus(e) ==
    /\ job[e].pc = "start" /\ job[e].kind = "status"
    /\ \/ job' = [job EXCEPT ![e].pc = "done"]
       \/ /\ job[e].text
          /\ \E phone \in customerContact :
                job' = [job EXCEPT ![e].pc = "send", ![e].phone = phone,
                                   ![e].tried = deviceTokens, ![e].left = deviceTokens]
    /\ UNCHANGED <<closed, deviceTokens, installed, fcmToken, phoneKnown>>

(* A cached access token that FCM has not revoked, or a new one.           *)
getAccessToken(e) ==
    /\ job[e].pc = "send" /\ job[e].left # {}
    /\ \/ /\ fcmToken # "none"
          /\ job' = [job EXCEPT ![e].pc = "call"] /\ UNCHANGED fcmToken
       \/ /\ fcmToken = "none"
          /\ fcmToken' = "live"
          /\ job' = [job EXCEPT ![e].pc = "call"]
       \/ /\ fcmToken = "none" /\ UNCHANGED fcmToken
          /\ \E t \in job[e].left :
                job' = [job EXCEPT ![e].left = @ \ {t}, ![e].failed = @ + 1]
    /\ UNCHANGED <<closed, deviceTokens, installed, phoneKnown>>

(* External: what FCM answers for each fault.                              *)
fcmErrorResponse(fault) ==
    [status |-> CASE fault = "not_found" -> 404
                  [] fault \in {"bad_token", "bad_payload"} -> 400
                  [] fault = "unauthorized" -> 401
                  [] OTHER -> 500,
     code |-> CASE fault = "unregistered" -> "UNREGISTERED"
                [] fault = "mismatch" -> "SENDER_ID_MISMATCH"
                [] fault \in {"bad_token", "bad_payload"} -> "INVALID_ARGUMENT"
                [] fault = "not_found" -> "NOT_FOUND"
                [] OTHER -> "OTHER",
     blames |-> fault = "bad_token"]

\* Mutant: every INVALID_ARGUMENT condemns the token.
isInvalidTokenErrorMut(fe) ==
    fe.code \in {"UNREGISTERED", "SENDER_ID_MISMATCH", "INVALID_ARGUMENT", "NOT_FOUND"}

(* INVALID_ARGUMENT counts only when the message blames the token.         *)
isInvalidTokenError(fe) ==
    \/ fe.code \in {"UNREGISTERED", "SENDER_ID_MISMATCH"}
    \/ fe.status = 404 /\ fe.code = "NOT_FOUND"
    \/ fe.code = "INVALID_ARGUMENT" /\ fe.blames

(* External: the answers that can come for a device.                       *)
Faults(t) ==
    {"bad_payload", "unavailable"}
        \cup (IF fcmToken = "live" THEN {} ELSE {"unauthorized"})
        \cup (IF t \in installed THEN {}
              ELSE {"unregistered", "mismatch", "not_found", "bad_token"})

(* One device: delivered, dead (its row is deleted, if that works), or     *)
(* failed for now; a 401 forgets the access token.                         *)
Send(e) ==
    /\ job[e].pc = "call"
    /\ \E t \in job[e].left :
       \/ /\ t \in installed /\ fcmToken = "live"
          /\ job' = [job EXCEPT ![e].pc = "send", ![e].left = @ \ {t}, ![e].sent = @ + 1]
          /\ UNCHANGED <<deviceTokens, fcmToken>>
       \/ \E fault \in Faults(t) :
          LET dead == isInvalidTokenError(fcmErrorResponse(fault)) IN
          /\ fcmToken' = IF fault = "unauthorized" THEN "none" ELSE fcmToken
          /\ deviceTokens' \in IF dead THEN {deviceTokens, deviceTokens \ {t}}
                               ELSE {deviceTokens}
          /\ job' = [job EXCEPT ![e].pc = "send", ![e].left = @ \ {t},
                                ![e].failed = IF dead THEN @ ELSE @ + 1]
    /\ UNCHANGED <<closed, installed, phoneKnown>>

(* After the last device: the SMS, which may fail, or nothing.             *)
smsStatus(e) ==
    /\ job[e].pc = "send" /\ job[e].left = {}
    /\ \E sms \in {FALSE, SMSFallback /\ job[e].sent = 0 /\ job[e].failed = 0
                                      /\ job[e].phone} :
          job' = [job EXCEPT ![e].pc = "done", ![e].sms = sms]
    /\ UNCHANGED <<closed, deviceTokens, installed, fcmToken, phoneKnown>>

(* A panic is recovered; the deferred release gives the slot back.         *)
jobPanics(e) ==
    /\ e \in running
    /\ job' = [job EXCEPT ![e].pc = "done"]
    /\ UNCHANGED <<closed, deviceTokens, installed, fcmToken, phoneKnown>>

-----------------------------------------------------------------------------
(* External: the app is removed from a device, Google revokes the access   *)
(* token, the customer deletes the account.                                *)
Outside ==
    /\ \/ \E t \in installed : installed' = installed \ {t} /\ UNCHANGED <<fcmToken, phoneKnown>>
       \/ fcmToken = "live" /\ fcmToken' = "revoked" /\ UNCHANGED <<installed, phoneKnown>>
       \/ phoneKnown /\ phoneKnown' = FALSE /\ UNCHANGED <<installed, fcmToken>>
    /\ UNCHANGED <<closed, job, deviceTokens>>

JobStep(e) ==
    \/ sendStaffNewOrder(e) \/ pushStatus(e) \/ getAccessToken(e) \/ Send(e)
    \/ smsStatus(e) \/ jobPanics(e)

-----------------------------------------------------------------------------
(* A device that still has the app is never unregistered: no fault of ours *)
(* (a malformed payload, a revoked access token, an outage) and no other   *)
(* job's verdict deletes its row.  And a paid SMS is sent only when none   *)
(* of the devices the job knew can still be reached.                       *)
ReachableNotGivenUp ==
    /\ installed \subseteq deviceTokens
    /\ \A e \in Events : job[e].sms => job[e].tried \cap installed = {} /\ job[e].sent = 0
=============================================================================
