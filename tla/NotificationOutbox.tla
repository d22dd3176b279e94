-------------------------- MODULE NotificationOutbox --------------------------
(***************************************************************************)
(* Best-effort notifications (api/notifications/service.ts).  A request     *)
(* emits a domain event; its listener starts a task nobody awaits, which    *)
(* stores a row and, where NOTIFICATION_WEBHOOK_URL is set, posts it there   *)
(* and marks the row.  A rejection no one handles ends the process, and     *)
(* every request in flight with it.                                        *)
(***************************************************************************)
EXTENDS Integers

CONSTANTS
    Event,          \* emitted events, one per request
    OutboxFaults    \* which of "insert", "mark", "late", "refuse", "restart" happen

ASSUME OutboxAssumption ==
    OutboxFaults \subseteq {"insert", "mark", "late", "refuse", "restart"}

VARIABLES
    webhook,        \* the process has NOTIFICATION_WEBHOOK_URL
    request,        \* the request that emits the event
    task,           \* where the notification's task stands
    row,            \* notification_outbox: its status
    channel,        \* its channel
    attempts,       \* its attempts
    received,       \* history: times the receiver processed it
    unawaited       \* history: rejections that reached nobody

nvars == <<webhook, request, task, row, channel, attempts, received, unawaited>>

OutboxInit ==
    /\ webhook \in BOOLEAN
    /\ request = [e \in Event |-> "waiting"]
    /\ task = [e \in Event |-> "none"]
    /\ row = [e \in Event |-> "absent"]
    /\ channel = [e \in Event |-> "none"]
    /\ attempts = [e \in Event |-> 0]
    /\ received = [e \in Event |-> 0]
    /\ unawaited = 0

At(e, step) == task' = [task EXCEPT ![e] = step]

Receive(e) ==
    /\ request[e] = "waiting"
    /\ request' = [request EXCEPT ![e] = "running"]
    /\ UNCHANGED <<webhook, task, row, channel, attempts, received, unawaited>>

(* The emitter goes on at once: `void enqueueReviewRequired(payload)`. *)
emit(e) ==
    /\ request[e] = "running" /\ task[e] = "none"
    /\ At(e, "storing")
    /\ channel' = [channel EXCEPT ![e] = IF webhook THEN "webhook" ELSE "outbox"]
    /\ request' = [request EXCEPT ![e] = "emitted"]
    /\ UNCHANGED <<webhook, row, attempts, received, unawaited>>

(* The rest of the request: the agent job, the audit row, the response. *)
Respond(e) ==
    /\ request[e] = "emitted"
    /\ request' = [request EXCEPT ![e] = "answered"]
    /\ UNCHANGED <<webhook, task, row, channel, attempts, received, unawaited>>

(* An unhandled rejection, or a restart: what is in flight is gone. *)
ProcessEnds ==
    /\ request' = [e \in Event |-> IF request[e] \in {"running", "emitted"}
                                   THEN "lost" ELSE request[e]]
    /\ task' = [e \in Event |-> IF task[e] \in {"none", "done"} THEN task[e] ELSE "ended"]
    /\ webhook' \in BOOLEAN

storeNotification(e) ==
    /\ task[e] = "storing"
    /\ \/ /\ row' = [row EXCEPT ![e] = "queued"]
          /\ At(e, "posting")
          /\ UNCHANGED <<webhook, request, unawaited>>
       \/ /\ "insert" \in OutboxFaults
          /\ ProcessEnds
          /\ unawaited' = unawaited + 1
          /\ UNCHANGED row
    /\ UNCHANGED <<channel, attempts, received>>

(* Without a webhook the row is left queued.  Else the post: answered,      *)
(* refused, or aborted by the timer before or after the receiver has        *)
(* processed it.                                                           *)
deliverNotification(e) ==
    /\ task[e] = "posting"
    /\ \/ /\ ~webhook
          /\ UNCHANGED received
          /\ At(e, "done")
       \/ /\ webhook
          /\ received' = [received EXCEPT ![e] = @ + 1]
          /\ At(e, "markSent")
       \/ /\ webhook /\ "late" \in OutboxFaults
          /\ received' = [received EXCEPT ![e] = @ + 1]
          /\ At(e, "markFailed")
       \/ /\ webhook /\ "refuse" \in OutboxFaults
          /\ UNCHANGED received
          /\ At(e, "markFailed")
    /\ UNCHANGED <<webhook, request, row, channel, attempts, unawaited>>

Mark(e, status) ==
    /\ row' = [row EXCEPT ![e] = status]
    /\ attempts' = [attempts EXCEPT ![e] = @ + 1]
    /\ At(e, "done")
    /\ UNCHANGED <<webhook, request, channel, received, unawaited>>

(* Fault: the catch block tries the delivery again. *)
markSent_Retry(e) ==
    /\ task[e] = "markSent"
    /\ \/ Mark(e, "sent")
       \/ /\ "mark" \in OutboxFaults
          /\ At(e, "posting")
          /\ UNCHANGED <<webhook, request, row, channel, attempts, received, unawaited>>

(* The update is inside the try: when it throws, the row is marked failed. *)
markSent(e) ==
    /\ task[e] = "markSent"
    /\ \/ Mark(e, "sent")
       \/ /\ "mark" \in OutboxFaults
          /\ At(e, "markFailed")
          /\ UNCHANGED <<webhook, request, row, channel, attempts, received, unawaited>>

(* Fault: the catch block only logs. *)
markFailed_Logs(e) ==
    /\ task[e] = "markFailed"
    /\ At(e, "done")
    /\ UNCHANGED <<webhook, request, row, channel, attempts, received, unawaited>>

(* The update of the catch block: its rejection reaches nobody. *)
markFailed(e) ==
    /\ task[e] = "markFailed"
    /\ \/ Mark(e, "failed")
       \/ /\ "mark" \in OutboxFaults
          /\ ProcessEnds
          /\ unawaited' = unawaited + 1
          /\ UNCHANGED <<row, channel, attempts, received>>

(* The process is restarted, perhaps with another environment.             *)
RestartOutbox ==
    /\ "restart" \in OutboxFaults
    /\ ProcessEnds
    /\ UNCHANGED <<row, channel, attempts, received, unawaited>>

taskStep(e) == storeNotification(e) \/ deliverNotification(e) \/ markSent(e) \/ markFailed(e)
requestStep(e) == emit(e) \/ Respond(e)

OutboxNext ==
    \/ RestartOutbox
    \/ \E e \in Event : Receive(e) \/ requestStep(e) \/ taskStep(e)

OutboxSpec == OutboxInit /\ [][OutboxNext]_nvars

(* The event loop goes on with requests, and a post ends by its timer.      *)
OutboxFairness ==
    \A e \in Event : WF_nvars(requestStep(e)) /\ WF_nvars(taskStep(e))
OutboxFairSpec == OutboxSpec /\ OutboxFairness

-----------------------------------------------------------------------------
(* Variables have their types. *)
OutboxTypeOK ==
    /\ webhook \in BOOLEAN
    /\ request \in [Event -> {"waiting", "running", "emitted", "answered", "lost"}]
    /\ task \in [Event -> {"none", "storing", "posting", "markSent", "markFailed",
                           "done", "ended"}]
    /\ row \in [Event -> {"absent", "queued", "sent", "failed"}]
    /\ channel \in [Event -> {"none", "outbox", "webhook"}]
    /\ attempts \in [Event -> 0..1]
    /\ received \in [Event -> Nat]
    /\ unawaited \in Nat

(* A receiver sees a notification once at most - no failure of the answer,  *)
(* of the row's update or of the process makes it be posted again - and a   *)
(* row that says sent was for the webhook and has been received: one stored *)
(* for the outbox is never posted, whatever webhook a later process has.    *)
ReceivedOnceAtMost ==
    \A e \in Event :
        /\ received[e] <= (IF channel[e] = "webhook" THEN 1 ELSE 0)
        /\ row[e] = "sent" => received[e] = 1

(* "Delivery failures do not block ingestion, review decisions, proof       *)
(* generation, or chain indexing" (docs/notifications.md:8): no request is  *)
(* lost, unless the process is stopped.                                    *)
FailuresLoseNoRequest == \A e \in Event : request[e] # "lost"

(* A row for the webhook does not stay queued while its process lives:      *)
(* whatever the webhook does, and whatever update fails, it ends as sent or *)
(* failed.  A process that ends leaves the row queued, and nothing takes it *)
(* up again; a row for the outbox stays queued for ever.                   *)
RowIsSettled ==
    \A e \in Event : row[e] = "queued" /\ channel[e] = "webhook"
                     ~> row[e] \in {"sent", "failed"} \/ task[e] = "ended"
=============================================================================
