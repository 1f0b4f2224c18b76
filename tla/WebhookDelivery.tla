--------------------------- MODULE WebhookDelivery ---------------------------
(***************************************************************************)
(* How the OpenWA gateway brings a WhatsApp event to the webhooks of its   *)
(* session in direct mode (QUEUE_ENABLED=false, the mode every tenant      *)
(* runs):                                                                  *)
(*   - dispatch() and deliverWebhook() of webhook.service.ts: one call per *)
(*     event, started fire-and-forget by SessionService, so the calls of   *)
(*     several events interleave at every await;                           *)
(*   - WebhookOutboxService: the webhook_outbox table, the drain that a    *)
(*     timer starts, its alerts over WhatsApp;                             *)
(*   - the webhook table, as the admin endpoints change it;                *)
(*   - the endpoint (a tenant's backend), which may answer anything, or    *)
(*     take a request in after the gateway has given up waiting for it;    *)
(*   - the end of the gateway's process: a restart, a crash, or the        *)
(*     unhandled rejection of a dispatch() whose database call failed.     *)
(***************************************************************************)
EXTENDS Naturals, Sequences, FiniteSets

CONSTANTS
    Webhooks,     \* the ids of the session's webhooks
    Timers,       \* ticks of the drain interval that can be running at once
    None,         \* no webhook
    NumEvents,    \* events the engine reports, 1 the earliest
    Listens,      \* [Webhooks -> SUBSET Events]: the events a webhook subscribes to
    RetryCount,   \* webhook.retryCount
    BatchSize,    \* webhook.outbox.batchSize
    MaxFaults,    \* bound: late answers and failed database writes
    MaxRestarts,  \* bound: ends of the gateway's process
    MaxEdits      \* bound: changes of the webhook table

Events == 1..NumEvents

ASSUME DeliveryAssumption ==
    /\ NumEvents \in Nat
    /\ None \notin Webhooks
    /\ Listens \in [Webhooks -> SUBSET Events]
    /\ RetryCount \in Nat
    /\ BatchSize \in Nat \ {0}
    /\ MaxFaults \in Nat
    /\ MaxRestarts \in Nat
    /\ MaxEdits \in Nat

VARIABLES
    status,     \* webhook table: "active", "inactive" or "deleted"
    \* dispatch(), one call per event
    phase,      \* where the call of an event is
    targets,    \* matchingWebhooks, read when the call starts
    todo,       \* the matching webhooks the loop has not finished
    cur,        \* the webhook the loop is at
    attempt,    \* the attempt of deliverWebhook
    \* webhook_outbox and the drain
    outbox,     \* the rows: [id, webhook, event]
    nextId,     \* the auto-increment of the table
    horizon,    \* rows up to this id are older than webhook.outbox.maxAgeHours
    draining,   \* WebhookOutboxService.draining
    step,       \* where the drain() of a tick is
    left,       \* the webhooks this drain has not come to
    now,        \* the webhook it is at
    entries,    \* the batch drainWebhook has read
    rest,       \* the entries it has not come to
    pending,    \* updateAlert's count is not zero
    outages,    \* WebhookOutboxService.outages: the webhooks with an entry
    alerted,    \* those whose entry has an alertedAt
    \* the outside
    accepted,   \* what each webhook's endpoint has taken in, in order
    late,       \* requests the endpoint is still working on after the timeout
    told,       \* last alert the recipients have got of a webhook: "down" or "up"
    log,        \* <<webhook, event, action>> of each event given up on
    faults, restarts, edits   \* what the bounds have been spent on

dispatchVars == <<phase, targets, todo, cur, attempt>>
drainVars    == <<draining, step, left, now, entries, rest, pending>>
outageVars   == <<outages, alerted>>
tableVars    == <<outbox, nextId, horizon>>
worldVars    == <<accepted, late, told, log>>
budgetVars   == <<faults, restarts, edits>>
vars == <<status, dispatchVars, drainVars, outageVars, tableVars, worldVars, budgetVars>>

Rows == [id : Nat, webhook : Webhooks, event : Events]
RowsOf(w) == {r \in outbox : r.webhook = w}
HasPending(w) == RowsOf(w) # {}

Phases == {"new", "next", "keep", "post", "done", "crashed"}
Steps  == {"idle", "next", "purge", "replay", "delete", "count", "tell"}

\* The log actions of an event that is given up on.
LogActions == {"webhook_cancelled_by_plugin", "webhook_delivery_failed",
               "webhook_outbox_dropped"}

\* What fetch() comes back with: 2xx, a 4xx other than 408 and 429, a 5xx,
\* 408 or 429, or a network error or timeout.
Answers == {"ok", "refused", "error", "busy", "silence"}
IsPermanentFailure(answer) == answer = "refused"
\* The answers after which drainWebhook leaves the rest for the next pass.
StopsReplay(answer) == answer \in {"busy", "silence"}

Init ==
    /\ status = [w \in Webhooks |-> "active"]
    /\ phase = [e \in Events |-> "new"]
    /\ targets = [e \in Events |-> {}]
    /\ todo = [e \in Events |-> {}]
    /\ cur = [e \in Events |-> None]
    /\ attempt = [e \in Events |-> 0]
    /\ outbox = {} /\ nextId = 1 /\ horizon = 0
    /\ draining = FALSE
    /\ step = [t \in Timers |-> "idle"]
    /\ left = [t \in Timers |-> {}]
    /\ now = [t \in Timers |-> None]
    /\ entries = [t \in Timers |-> {}]
    /\ rest = [t \in Timers |-> {}]
    /\ pending = [t \in Timers |-> FALSE]
    /\ outages = {} /\ alerted = {}
    /\ accepted = [w \in Webhooks |-> << >>]
    /\ late = {} /\ log = {}
    /\ told = [w \in Webhooks |-> "up"]
    /\ faults = 0 /\ restarts = 0 /\ edits = 0

-----------------------------------------------------------------------------
(* The endpoint. *)

Accept(w, e) == accepted' = [accepted EXCEPT ![w] = Append(@, e)]

\* The outcome of a POST as the endpoint sees it. A request that times out
\* may still be taken in later: it stays in late.
Reaches(w, e, answer) ==
    \/ /\ answer = "ok"
       /\ Accept(w, e)
       /\ UNCHANGED <<late, faults>>
    \/ /\ answer # "ok"
       /\ UNCHANGED <<accepted, late, faults>>
    \/ /\ answer = "silence" /\ faults < MaxFaults
       /\ late' = late \cup {<<w, e>>}
       /\ faults' = faults + 1
       /\ UNCHANGED accepted

\* The endpoint takes in a request the gateway has given up waiting for.
LateAccept(w, e) ==
    /\ <<w, e>> \in late
    /\ Accept(w, e)
    /\ late' = late \ {<<w, e>>}
    /\ UNCHANGED <<status, dispatchVars, drainVars, outageVars, tableVars,
                   told, log, budgetVars>>

-----------------------------------------------------------------------------
(* dispatch(): webhook.service.ts. *)

\* The loop is through with its current webhook.
Finish(e, w) ==
    /\ todo' = [todo EXCEPT ![e] = @ \ {w}]
    /\ phase' = [phase EXCEPT ![e] = IF todo[e] = {w} THEN "done" ELSE "next"]
    /\ cur' = [cur EXCEPT ![e] = None]
    /\ attempt' = [attempt EXCEPT ![e] = 0]
    /\ UNCHANGED targets

\* The engine reports an event: dispatch() reads the active webhooks that
\* subscribe to it.
Receive(e) ==
    /\ phase[e] = "new"
    /\ \A d \in Events : d < e => phase[d] # "new"
    /\ LET matching == {w \in Webhooks : status[w] = "active" /\ e \in Listens[w]}
       IN  /\ targets' = [targets EXCEPT ![e] = matching]
           /\ todo' = [todo EXCEPT ![e] = matching]
           /\ phase' = [phase EXCEPT ![e] = IF matching = {} THEN "done" ELSE "next"]
    /\ UNCHANGED <<cur, attempt, status, drainVars, outageVars, tableVars,
                   worldVars, budgetVars>>

\* A plugin's webhook:before hook cancels the delivery to one webhook.
CancelByPlugin(e, w) ==
    /\ phase[e] = "next" /\ w \in todo[e]
    /\ log' = log \cup {<<w, e, "webhook_cancelled_by_plugin">>}
    /\ Finish(e, w)
    /\ UNCHANGED <<status, drainVars, outageVars, tableVars, accepted, late, told,
                   budgetVars>>

\* The hook lets it pass, and hasPending is read: behind waiting rows the
\* event is to be kept, otherwise its first direct attempt starts.
CheckPending(e, w) ==
    /\ phase[e] = "next" /\ w \in todo[e]
    /\ cur' = [cur EXCEPT ![e] = w]
    /\ IF HasPending(w)
       THEN /\ phase' = [phase EXCEPT ![e] = "keep"]
            /\ UNCHANGED attempt
       ELSE /\ phase' = [phase EXCEPT ![e] = "post"]
            /\ attempt' = [attempt EXCEPT ![e] = 1]
    /\ UNCHANGED <<status, targets, todo, drainVars, outageVars, tableVars,
                   worldVars, budgetVars>>

\* A failed attempt is tried again; after the last one a permanent failure is
\* logged and anything else goes to the outbox.
AttemptFailed(e, w, answer) ==
    \/ /\ attempt[e] < RetryCount
       /\ attempt' = [attempt EXCEPT ![e] = @ + 1]
       /\ UNCHANGED <<phase, targets, todo, cur, log>>
    \/ /\ attempt[e] >= RetryCount /\ IsPermanentFailure(answer)
       /\ log' = log \cup {<<w, e, "webhook_delivery_failed">>}
       /\ Finish(e, w)
    \/ /\ attempt[e] >= RetryCount /\ ~IsPermanentFailure(answer)
       /\ phase' = [phase EXCEPT ![e] = "keep"]
       /\ UNCHANGED <<targets, todo, cur, attempt, log>>

\* One direct attempt: the POST, and after a 2xx the write of lastTriggeredAt.
Post(e) ==
    /\ phase[e] = "post"
    /\ \E answer \in Answers :
          /\ Reaches(cur[e], e, answer)
          /\ IF answer = "ok"
             THEN Finish(e, cur[e]) /\ UNCHANGED log
             ELSE AttemptFailed(e, cur[e], answer)
    /\ UNCHANGED <<status, drainVars, outageVars, tableVars, told, restarts, edits>>

\* The POST succeeds and the write of lastTriggeredAt fails: deliverWebhook
\* takes the whole attempt for a failed one.
PostUnrecorded(e) ==
    /\ phase[e] = "post" /\ faults < MaxFaults
    /\ Accept(cur[e], e)
    /\ faults' = faults + 1
    /\ AttemptFailed(e, cur[e], "silence")
    /\ UNCHANGED <<status, drainVars, outageVars, tableVars, late, told, restarts, edits>>

\* MUTANT of Keep: the row is built after the loop has moved on.
Keep_Late(e) ==
    /\ phase[e] = "keep"
    /\ Finish(e, cur[e])
    /\ outbox' = outbox \cup {[id |-> nextId, webhook |-> cur'[e], event |-> e]}
    /\ nextId' = nextId + 1
    /\ outages' = outages \cup {cur[e]}
    /\ UNCHANGED <<status, horizon, drainVars, alerted, worldVars, budgetVars>>

\* outbox.add: the row is inserted and the outage noted. (When the insert
\* fails dispatch() rejects, and nothing handles it: that is ProcessEnds.)
Keep(e) ==
    /\ phase[e] = "keep"
    /\ outbox' = outbox \cup {[id |-> nextId, webhook |-> cur[e], event |-> e]}
    /\ nextId' = nextId + 1
    /\ outages' = outages \cup {cur[e]}
    /\ Finish(e, cur[e])
    /\ UNCHANGED <<status, horizon, drainVars, alerted, worldVars, budgetVars>>

-----------------------------------------------------------------------------
(* The drain: webhook-outbox.service.ts. *)

IsOldest(r, rows) == r \in rows /\ \A q \in rows : r.id <= q.id

\* MUTANT of IsOverdue: no maximum age.
IsOverdue_Never(r) == FALSE

\* Older than webhook.outbox.maxAgeHours.
IsOverdue(r) == r.id <= horizon

\* MUTANT of Batch: ordered by id DESC.
Batch_Newest(w) ==
    {r \in RowsOf(w) : Cardinality({q \in RowsOf(w) : q.id > r.id}) < BatchSize}

\* The batchSize oldest rows of a webhook.
Batch(w) ==
    {r \in RowsOf(w) : Cardinality({q \in RowsOf(w) : q.id < r.id}) < BatchSize}

\* MUTANT of StartDrain: without the draining guard.
StartDrain_Overlapping(t) ==
    /\ step[t] = "idle"
    /\ LET ids == {r.webhook : r \in outbox} \cup outages
       IN  /\ ids # {}
           /\ left' = [left EXCEPT ![t] = ids]
    /\ draining' = TRUE
    /\ step' = [step EXCEPT ![t] = "next"]
    /\ UNCHANGED <<status, dispatchVars, now, entries, rest, pending, outageVars, tableVars,
                   worldVars, budgetVars>>

\* MUTANT of StartDrain: visits only the webhooks that have rows.
StartDrain_RowsOnly(t) ==
    /\ step[t] = "idle"
    /\ ~draining
    /\ outbox # {}
    /\ left' = [left EXCEPT ![t] = {r.webhook : r \in outbox}]
    /\ draining' = TRUE
    /\ step' = [step EXCEPT ![t] = "next"]
    /\ UNCHANGED <<status, dispatchVars, now, entries, rest, pending, outageVars, tableVars,
                   worldVars, budgetVars>>

\* The interval fires; a drain that is still running makes the tick return.
StartDrain(t) ==
    /\ step[t] = "idle"
    /\ ~draining
    /\ LET ids == {r.webhook : r \in outbox} \cup outages
       IN  /\ ids # {}
           /\ left' = [left EXCEPT ![t] = ids]
    /\ draining' = TRUE
    /\ step' = [step EXCEPT ![t] = "next"]
    /\ UNCHANGED <<status, dispatchVars, now, entries, rest, pending, outageVars, tableVars,
                   worldVars, budgetVars>>

\* drainWebhook reads the batch, then the webhook.
LoadBatch(t, w) ==
    /\ step[t] = "next" /\ w \in left[t]
    /\ left' = [left EXCEPT ![t] = @ \ {w}]
    /\ now' = [now EXCEPT ![t] = w]
    /\ entries' = [entries EXCEPT ![t] = Batch(w)]
    /\ rest' = [rest EXCEPT ![t] = Batch(w)]
    /\ \/ /\ ~HasPending(w)
          /\ step' = [step EXCEPT ![t] = "count"]
          /\ UNCHANGED outages
       \/ /\ HasPending(w)
          /\ step' = [step EXCEPT ![t] = IF status[w] = "active" THEN "replay" ELSE "purge"]
          /\ outages' = outages \cup {w}
    /\ UNCHANGED <<status, dispatchVars, draining, pending, alerted, tableVars,
                   worldVars, budgetVars>>

\* The webhook was found deleted or inactive: all its rows go.
Purge(t) ==
    /\ step[t] = "purge"
    /\ outbox' = outbox \ RowsOf(now[t])
    /\ log' = log \cup {<<r.webhook, r.event, "webhook_outbox_dropped">> : r \in RowsOf(now[t])}
    /\ step' = [step EXCEPT ![t] = "count"]
    /\ UNCHANGED <<status, dispatchVars, draining, left, now, entries, rest, pending, outageVars,
                   nextId, horizon, accepted, late, told, budgetVars>>

\* The drain is through with row r of its batch.
Advance(t, r) ==
    /\ rest' = [rest EXCEPT ![t] = @ \ {r}]
    /\ step' = [step EXCEPT ![t] = IF rest[t] = {r} THEN "count" ELSE "replay"]

Drop(t, r) ==
    /\ outbox' = outbox \ {r}
    /\ log' = log \cup {<<r.webhook, r.event, "webhook_outbox_dropped">>}
    /\ Advance(t, r)

\* The oldest row of the batch is past the max age.
DropOverdue(t) ==
    /\ step[t] = "replay"
    /\ \E r \in rest[t] : IsOldest(r, rest[t]) /\ IsOverdue(r) /\ Drop(t, r)
    /\ UNCHANGED <<status, dispatchVars, draining, left, now, entries, pending, outageVars,
                   nextId, horizon, accepted, late, told, budgetVars>>

\* MUTANT of Answered: a payload the endpoint fails on is forgotten.
Answered_ForgetErrors(t, r, answer) ==
    \/ /\ answer = "ok"
       /\ step' = [step EXCEPT ![t] = "delete"]
       /\ UNCHANGED <<outbox, log, rest>>
    \/ /\ IsPermanentFailure(answer)
       /\ Drop(t, r)
    \/ /\ answer = "error"
       /\ outbox' = outbox \ {r}
       /\ Advance(t, r)
       /\ UNCHANGED log
    \/ /\ StopsReplay(answer)
       /\ rest' = [rest EXCEPT ![t] = {}]
       /\ step' = [step EXCEPT ![t] = "count"]
       /\ UNCHANGED <<outbox, log>>

\* What drainWebhook does with the answer for row r.
Answered(t, r, answer) ==
    \/ /\ answer = "ok"
       /\ step' = [step EXCEPT ![t] = "delete"]
       /\ UNCHANGED <<outbox, log, rest>>
    \/ /\ IsPermanentFailure(answer)
       /\ Drop(t, r)
    \/ /\ answer = "error"
       /\ Advance(t, r)
       /\ UNCHANGED <<outbox, log>>
    \/ /\ StopsReplay(answer)
       /\ rest' = [rest EXCEPT ![t] = {}]
       /\ step' = [step EXCEPT ![t] = "count"]
       /\ UNCHANGED <<outbox, log>>

\* The oldest row of the batch is POSTed.
Replay(t) ==
    /\ step[t] = "replay"
    /\ \E r \in rest[t], answer \in Answers :
          /\ IsOldest(r, rest[t])
          /\ ~IsOverdue(r)
          /\ Reaches(r.webhook, r.event, answer)
          /\ Answered(t, r, answer)
    /\ UNCHANGED <<status, dispatchVars, draining, left, now, entries, pending, outageVars,
                   nextId, horizon, told, restarts, edits>>

\* The delivered row is deleted.
DeleteDelivered(t) ==
    /\ step[t] = "delete"
    /\ \E r \in rest[t] :
          /\ IsOldest(r, rest[t])
          /\ outbox' = outbox \ {r}
          /\ Advance(t, r)
    /\ UNCHANGED <<status, dispatchVars, draining, left, now, entries, pending, outageVars,
                   nextId, horizon, worldVars, budgetVars>>

\* Deleting the delivered row fails: the error is taken for an unreachable
\* endpoint, the row stays and the pass ends.
DeleteFails(t) ==
    /\ step[t] = "delete" /\ faults < MaxFaults
    /\ faults' = faults + 1
    /\ rest' = [rest EXCEPT ![t] = {}]
    /\ step' = [step EXCEPT ![t] = "count"]
    /\ UNCHANGED <<status, dispatchVars, draining, left, now, entries, pending, outageVars,
                   tableVars, worldVars, restarts, edits>>

\* The drain of tick t has no webhook left: finally, draining is cleared.
EndOrNext(t) ==
    /\ now' = [now EXCEPT ![t] = None]
    /\ pending' = [pending EXCEPT ![t] = FALSE]
    /\ step' = [step EXCEPT ![t] = IF left[t] = {} THEN "idle" ELSE "next"]
    /\ draining' = (left[t] # {})
    /\ entries' = [entries EXCEPT ![t] = {}]
    /\ rest' = [rest EXCEPT ![t] = {}]
    /\ UNCHANGED left

\* updateAlert without an outage returns, otherwise it counts the rows.
CountPending(t) ==
    /\ step[t] = "count"
    /\ IF now[t] \in outages
       THEN /\ pending' = [pending EXCEPT ![t] = HasPending(now[t])]
            /\ step' = [step EXCEPT ![t] = "tell"]
            /\ UNCHANGED <<draining, left, now, entries, rest>>
       ELSE EndOrNext(t)
    /\ UNCHANGED <<status, dispatchVars, outageVars, tableVars, worldVars, budgetVars>>

\* Nothing was waiting: the outage is over, and whoever was alerted is told.
\* Nobody looks at whether the message could be sent.
TellRecovery(t) ==
    /\ step[t] = "tell" /\ ~pending[t]
    /\ LET w == now[t]
       IN  /\ outages' = outages \ {w}
           /\ alerted' = alerted \ {w}
           /\ \/ /\ w \in alerted /\ status[w] # "deleted"
                 /\ told' = [told EXCEPT ![w] = "up"]
              \/ UNCHANGED told
    /\ EndOrNext(t)
    /\ UNCHANGED <<status, dispatchVars, tableVars, accepted, late, log, budgetVars>>

\* Rows are waiting. The alert or a reminder is not due, is due and cannot be
\* sent, or is due and reaches somebody (webhook.alert.phones is not empty).
TellOutage(t) ==
    /\ step[t] = "tell" /\ pending[t]
    /\ \/ UNCHANGED <<alerted, told>>
       \/ /\ status[now[t]] # "deleted"
          /\ alerted' = alerted \cup {now[t]}
          /\ told' = [told EXCEPT ![now[t]] = "down"]
    /\ EndOrNext(t)
    /\ UNCHANGED <<status, dispatchVars, outages, tableVars, accepted, late, log, budgetVars>>

\* A database error anywhere else in the drain ends it.
DrainFails(t) ==
    /\ step[t] # "idle" /\ faults < MaxFaults
    /\ faults' = faults + 1
    /\ draining' = FALSE
    /\ step' = [step EXCEPT ![t] = "idle"]
    /\ left' = [left EXCEPT ![t] = {}]
    /\ now' = [now EXCEPT ![t] = None]
    /\ entries' = [entries EXCEPT ![t] = {}]
    /\ rest' = [rest EXCEPT ![t] = {}]
    /\ pending' = [pending EXCEPT ![t] = FALSE]
    /\ UNCHANGED <<status, dispatchVars, outageVars, tableVars, worldVars, restarts, edits>>

-----------------------------------------------------------------------------
(* The rest of the world. *)

\* The oldest row that is not there yet passes the max age.
RowAges ==
    /\ \E r \in outbox :
          /\ IsOldest(r, {q \in outbox : ~IsOverdue(q)})
          /\ horizon' = r.id
    /\ UNCHANGED <<status, dispatchVars, drainVars, outageVars, outbox, nextId,
                   worldVars, budgetVars>>

\* PUT and DELETE of the webhook endpoints.
UpdateWebhook(w, new) ==
    /\ status[w] # "deleted" /\ status[w] # new
    /\ edits < MaxEdits
    /\ edits' = edits + 1
    /\ status' = [status EXCEPT ![w] = new]
    /\ UNCHANGED <<dispatchVars, drainVars, outageVars, tableVars, worldVars,
                   faults, restarts>>

\* MUTANT of ProcessEnds: the outbox is only held in memory.
ProcessEnds_EmptiesOutbox ==
    /\ restarts < MaxRestarts
    /\ restarts' = restarts + 1
    /\ phase' = [e \in Events |->
                   IF phase[e] \in {"next", "keep", "post"} THEN "crashed" ELSE phase[e]]
    /\ cur' = [e \in Events |-> None]
    /\ attempt' = [e \in Events |-> 0]
    /\ draining' = FALSE
    /\ step' = [t \in Timers |-> "idle"]
    /\ left' = [t \in Timers |-> {}]
    /\ now' = [t \in Timers |-> None]
    /\ entries' = [t \in Timers |-> {}]
    /\ rest' = [t \in Timers |-> {}]
    /\ pending' = [t \in Timers |-> FALSE]
    /\ outages' = {} /\ alerted' = {} /\ outbox' = {}
    /\ UNCHANGED <<status, targets, todo, nextId, horizon, worldVars, faults, edits>>

\* The gateway's process ends and is started again: the calls under way and
\* what the services hold in memory are gone, the tables stay. An unhandled
\* rejection, of a dispatch() whose hasPending or outbox.add failed, does it too.
ProcessEnds ==
    /\ restarts < MaxRestarts
    /\ restarts' = restarts + 1
    /\ phase' = [e \in Events |->
                   IF phase[e] \in {"next", "keep", "post"} THEN "crashed" ELSE phase[e]]
    /\ cur' = [e \in Events |-> None]
    /\ attempt' = [e \in Events |-> 0]
    /\ draining' = FALSE
    /\ step' = [t \in Timers |-> "idle"]
    /\ left' = [t \in Timers |-> {}]
    /\ now' = [t \in Timers |-> None]
    /\ entries' = [t \in Timers |-> {}]
    /\ rest' = [t \in Timers |-> {}]
    /\ pending' = [t \in Timers |-> FALSE]
    /\ outages' = {} /\ alerted' = {}
    /\ UNCHANGED <<status, targets, todo, tableVars, worldVars, faults, edits>>

DispatchStep(e) ==
    \/ \E w \in Webhooks : CancelByPlugin(e, w) \/ CheckPending(e, w)
    \/ Post(e)
    \/ PostUnrecorded(e)
    \/ Keep(e)

DrainStep(t) ==
    \/ \E w \in Webhooks : LoadBatch(t, w)
    \/ Purge(t)
    \/ DropOverdue(t)
    \/ Replay(t)
    \/ DeleteDelivered(t)
    \/ DeleteFails(t)
    \/ CountPending(t)
    \/ TellRecovery(t)
    \/ TellOutage(t)
    \/ DrainFails(t)

Next ==
    \/ \E e \in Events : Receive(e) \/ DispatchStep(e)
    \/ \E t \in Timers : StartDrain(t) \/ DrainStep(t)
    \/ \E w \in Webhooks, e \in Events : LateAccept(w, e)
    \/ \E w \in Webhooks, new \in {"active", "inactive", "deleted"} : UpdateWebhook(w, new)
    \/ RowAges
    \/ ProcessEnds

\* The event loop runs what can run, the interval keeps firing and time
\* passes. Nothing makes the endpoint answer well, the engine report, or a
\* late request ever be taken in.
Fairness ==
    /\ \A e \in Events : WF_vars(DispatchStep(e))
    /\ \A t \in Timers : WF_vars(DrainStep(t))
    /\ WF_vars(\E t \in Timers : StartDrain(t))
    /\ WF_vars(RowAges)

Spec == Init /\ [][Next]_vars
FairSpec == Spec /\ Fairness

-----------------------------------------------------------------------------
(* Properties. *)

DispatchTypes ==
    /\ phase \in [Events -> Phases]
    /\ targets \in [Events -> SUBSET Webhooks]
    /\ todo \in [Events -> SUBSET Webhooks]
    /\ cur \in [Events -> Webhooks \cup {None}]
    /\ attempt \in [Events -> Nat]

DrainTypes ==
    /\ draining \in BOOLEAN
    /\ step \in [Timers -> Steps]
    /\ left \in [Timers -> SUBSET Webhooks]
    /\ now \in [Timers -> Webhooks \cup {None}]
    /\ entries \in [Timers -> SUBSET Rows]
    /\ rest \in [Timers -> SUBSET Rows]
    /\ pending \in [Timers -> BOOLEAN]

TableTypes ==
    /\ status \in [Webhooks -> {"active", "inactive", "deleted"}]
    /\ outbox \subseteq Rows
    /\ nextId \in Nat /\ horizon \in Nat
    /\ outages \subseteq Webhooks /\ alerted \subseteq Webhooks

WorldTypes ==
    /\ accepted \in [Webhooks -> Seq(Events)]
    /\ late \subseteq Webhooks \X Events
    /\ told \in [Webhooks -> {"down", "up"}]
    /\ log \subseteq Webhooks \X Events \X LogActions
    /\ faults \in Nat /\ restarts \in Nat /\ edits \in Nat

\* Every variable has its type.
TypeOK == DispatchTypes /\ DrainTypes /\ TableTypes /\ WorldTypes

InHand(e, w) == phase[e] \in {"next", "keep", "post"} /\ w \in todo[e]
Kept(w, e) == \E r \in outbox : r.webhook = w /\ r.event = e
Copies(w, e) == {i \in DOMAIN accepted[w] : accepted[w][i] = e}
Taken(w, e) == Copies(w, e) # {}
GivenUp(w, e) == \E entry \in log : entry[1] = w /\ entry[2] = e
Lost(e, w) == phase[e] = "crashed" /\ w \in todo[e]

\* The endpoint gets an event more than once only as often as something went
\* wrong that the gateway cannot see through: an answer that came after the
\* timeout, a write that failed after a 2xx, a process that ended. Direct
\* attempts, the rows they leave and overlapping ticks of the drain interval
\* never duplicate an event on their own (webhook-outbox.service.ts:92-112).
NoSpuriousDuplicate ==
    \A w \in Webhooks, e \in Events : Cardinality(Copies(w, e)) <= 1 + faults + restarts

\* A row is replayed with a 2xx only when every older row of its webhook was
\* tried in the same pass and answered with an error: rows that were added
\* meanwhile, batches and passes that stopped never let a younger one through
\* (webhook-outbox.service.ts:146-200).
ReplayOldestFirst ==
    [][\A t \in Timers :
          step[t] = "replay" /\ step'[t] = "delete" =>
             \A r \in rest[t], q \in outbox :
                IsOldest(r, rest[t]) /\ q.webhook = r.webhook /\ q.id < r.id =>
                   q \in entries[t] \ rest[t]]_vars

\* Whatever the endpoint does, a kept event does not stay kept for ever: it is
\* delivered, or given up on at the latest when it is too old
\* (webhook-outbox.entity.ts:40-41).
KeptIsSettled ==
    \A w \in Webhooks, e \in Events : Kept(w, e) ~> ~Kept(w, e)

\* An outage that has been noted comes to an end: the drain also visits the
\* webhooks of which no row is left (webhook-outbox.service.ts:101).
OutagesEnd ==
    \A w \in Webhooks : w \in outages ~> w \notin outages

\* What the comment at webhook.service.ts:257 and docs/vps-architecture.md:144
\* say: a direct delivery never overtakes an older event that is waiting in
\* the outbox of the webhook.
KeptGoFirst ==
    [][\A e \in Events :
          phase[e] = "post" /\ phase'[e] \in {"next", "done"}
          /\ accepted'[cur[e]] # accepted[cur[e]] =>
             ~ \E r \in RowsOf(cur[e]) : r.event < e]_vars

-----------------------------------------------------------------------------
(* The deliveries as the ledger of EventLedger keeps them. *)

Pairs == Webhooks \X Events
Known  == {p \in Pairs : p[1] \in targets[p[2]]}
Owed   == {p \in Pairs : InHand(p[2], p[1])}
Held   == {p \in Pairs : Kept(p[1], p[2])}
Got    == {p \in Pairs : Taken(p[1], p[2])}
Closed == {p \in Pairs : GivenUp(p[1], p[2])}
CutOff == {p \in Pairs : Lost(p[2], p[1])}

Ledger == INSTANCE EventLedger WITH
    known <- Known, owed <- Owed, kept <- Held, taken <- Got, closed <- Closed, lost <- CutOff

\* The gateway keeps the ledger's promises.
ImplementsLedger == Ledger!Spec

\* At every moment, every event a webhook was to get is still being delivered,
\* kept, taken in by the endpoint or logged as given up on, unless the process
\* ended under the direct attempts of its dispatch().
NoSilentLoss == Ledger!NoSilentLoss
====
