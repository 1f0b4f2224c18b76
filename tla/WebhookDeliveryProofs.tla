------------------------ MODULE WebhookDeliveryProofs ------------------------
(***************************************************************************)
(* What holds of WebhookDelivery for any number of webhooks, events,       *)
(* ticks, faults and restarts: its inductive invariant, that it implements *)
(* EventLedger, the order of a replay and how often an event can come.     *)
(***************************************************************************)
EXTENDS WebhookDelivery, FiniteSetTheorems, TLAPS

\* The loop variables of a dispatch() call.
DispatchInv ==
    \A e \in Events :
        /\ todo[e] \subseteq targets[e]
        /\ phase[e] = "new" => targets[e] = {}
        /\ phase[e] \in {"keep", "post"} => cur[e] \in todo[e]
        /\ phase[e] = "done" => todo[e] = {}

\* A row stands for a webhook its dispatch() is through with, and only one
\* row does; ids are never used twice.
RowsInv ==
    /\ \A r \in outbox : r.id < nextId /\ r.webhook \in targets[r.event] \ todo[r.event]
    /\ \A r, q \in outbox :
          r.id = q.id \/ (r.webhook = q.webhook /\ r.event = q.event) => r = q

\* A request that is late was sent for a webhook its event was to reach.
LateInv == \A p \in late : p[1] \in targets[p[2]]

\* One drain runs at a time, and what it still has to replay is in the table.
DrainInv ==
    /\ \A t \in Timers : step[t] # "idle" => draining
    /\ \A t, u \in Timers : step[t] # "idle" /\ step[u] # "idle" => t = u
    /\ \A t \in Timers :
          /\ step[t] \in {"purge", "replay", "delete", "count", "tell"} => now[t] \in Webhooks
          /\ step[t] \in {"replay", "delete"} => rest[t] \subseteq outbox
          /\ step[t] = "delete" =>
                \A r \in rest[t] : IsOldest(r, rest[t]) => Taken(r.webhook, r.event)

IInv == TypeOK /\ DispatchInv /\ RowsInv /\ LateInv /\ DrainInv

USE DeliveryAssumption

LEMMA InitIInv == Init => IInv
<1> SUFFICES ASSUME Init PROVE IInv
  OBVIOUS
<1>1. DispatchTypes /\ DrainTypes
  BY DEF Init, DispatchTypes, DrainTypes, Phases, Steps
<1>2. TableTypes /\ WorldTypes
  BY DEF Init, TableTypes, WorldTypes
<1>3. DispatchInv
  BY DEF Init, DispatchInv
<1>4. RowsInv /\ LateInv
  BY DEF Init, RowsInv, LateInv
<1>5. DrainInv
  BY DEF Init, DrainInv
<1> QED
  BY <1>1, <1>2, <1>3, <1>4, <1>5 DEF IInv, TypeOK

-----------------------------------------------------------------------------
(* Facts about the operators the actions share. *)

\* The endpoint's log grows: it stays typed and forgets nothing.
LEMMA AcceptGrows ==
  ASSUME accepted \in [Webhooks -> Seq(Events)],
         NEW w \in Webhooks, NEW e \in Events, Accept(w, e)
  PROVE  /\ accepted' \in [Webhooks -> Seq(Events)]
         /\ \A v \in Webhooks, d \in Events : Taken(v, d) => Taken(v, d)'
         /\ Taken(w, e)'
<1>1. accepted' = [accepted EXCEPT ![w] = Append(accepted[w], e)]
  BY DEF Accept
<1>2. accepted' \in [Webhooks -> Seq(Events)]
  BY <1>1
<1>3. ASSUME NEW v \in Webhooks, NEW d \in Events, Taken(v, d)
      PROVE  Taken(v, d)'
  <2>1. PICK i \in DOMAIN accepted[v] : accepted[v][i] = d
    BY <1>3 DEF Taken, Copies
  <2>2. i \in DOMAIN accepted'[v] /\ accepted'[v][i] = d
    BY <1>1, <2>1
  <2> QED
    BY <2>2 DEF Taken, Copies
<1>4. Taken(w, e)'
  <2>1. accepted'[w] = Append(accepted[w], e) /\ accepted[w] \in Seq(Events)
    BY <1>1
  <2>2. Len(accepted[w]) + 1 \in DOMAIN accepted'[w] /\ accepted'[w][Len(accepted[w]) + 1] = e
    BY <2>1
  <2> QED
    BY <2>2 DEF Taken, Copies
<1> QED
  BY <1>2, <1>3, <1>4

\* A POST leaves the world typed, forgets nothing the endpoint has taken, and
\* makes only the posted pair late.
LEMMA ReachesGrows ==
  ASSUME WorldTypes, NEW w \in Webhooks, NEW e \in Events, NEW answer \in Answers,
         Reaches(w, e, answer)
  PROVE  /\ accepted' \in [Webhooks -> Seq(Events)]
         /\ late' \subseteq late \cup {<<w, e>>}
         /\ faults' \in Nat
         /\ \A v \in Webhooks, d \in Events : Taken(v, d) => Taken(v, d)'
         /\ answer = "ok" => Taken(w, e)'
<1> USE DEF WorldTypes
<1>1. CASE answer = "ok" /\ Accept(w, e) /\ UNCHANGED <<late, faults>>
  BY <1>1, AcceptGrows
<1>2. CASE answer # "ok" /\ UNCHANGED accepted /\ late' \subseteq late \cup {<<w, e>>}
           /\ faults' \in {faults, faults + 1}
  BY <1>2 DEF Taken, Copies
<1> QED
  BY <1>1, <1>2 DEF Reaches

\* The loop of dispatch() moves on.
LEMMA FinishKeepsInv ==
  ASSUME DispatchTypes, DispatchInv, NEW e \in Events, NEW w \in Webhooks, Finish(e, w)
  PROVE  /\ DispatchTypes' /\ DispatchInv'
         /\ targets' = targets /\ \A d \in Events : todo'[d] \subseteq todo[d]
<1>1. DispatchTypes'
  BY DEF Finish, DispatchTypes, Phases
<1>2. DispatchInv'
  BY DEF Finish, DispatchTypes, DispatchInv
<1> QED
  BY <1>1, <1>2 DEF Finish, DispatchTypes

LEMMA AttemptFailedKeepsInv ==
  ASSUME DispatchTypes, DispatchInv, log \subseteq Webhooks \X Events \X LogActions,
         NEW e \in Events, phase[e] = "post", NEW answer \in Answers,
         AttemptFailed(e, cur[e], answer)
  PROVE  /\ DispatchTypes' /\ DispatchInv'
         /\ log' \subseteq Webhooks \X Events \X LogActions
         /\ targets' = targets /\ \A d \in Events : todo'[d] \subseteq todo[d]
<1>1. cur[e] \in Webhooks
  BY DEF DispatchTypes, DispatchInv
<1>2. CASE attempt[e] < RetryCount
  BY <1>2 DEF AttemptFailed, DispatchTypes, DispatchInv
<1>3. CASE attempt[e] >= RetryCount /\ IsPermanentFailure(answer)
  <2>1. Finish(e, cur[e]) /\ log' = log \cup {<<cur[e], e, "webhook_delivery_failed">>}
    BY <1>3 DEF AttemptFailed, DispatchTypes
  <2>2. <<cur[e], e, "webhook_delivery_failed">> \in Webhooks \X Events \X LogActions
    BY <1>1 DEF LogActions
  <2> QED
    BY <1>1, <2>1, <2>2, FinishKeepsInv
<1>4. CASE attempt[e] >= RetryCount /\ ~IsPermanentFailure(answer)
  BY <1>4 DEF AttemptFailed, DispatchTypes, DispatchInv, Phases
<1> QED
  BY <1>2, <1>3, <1>4 DEF DispatchTypes

\* What the table holds stays right while the loops only move on.
LEMMA RowsStay ==
  ASSUME RowsInv, DispatchTypes, TableTypes, UNCHANGED <<outbox, nextId>>, targets' = targets,
         \A d \in Events : todo'[d] \subseteq todo[d]
  PROVE  RowsInv'
  BY DEF RowsInv, DispatchTypes, TableTypes, Rows

\* The drain's picture stays right while the table does and nothing the
\* endpoint has taken is forgotten.
LEMMA DrainStays ==
  ASSUME DrainInv, DrainTypes, UNCHANGED drainVars, outbox \subseteq outbox',
         \A v \in Webhooks, d \in Events : Taken(v, d) => Taken(v, d)'
  PROVE  DrainInv'
  BY DEF DrainInv, DrainTypes, drainVars, IsOldest, Rows

\* A step of the only drain that runs, or the start of one.
LEMMA DrainMoves ==
  ASSUME DrainInv, DrainTypes, DrainTypes', NEW t \in Timers,
         \A u \in Timers : u # t => step[u] = "idle" /\ step'[u] = "idle",
         step'[t] # "idle" => draining',
         step'[t] \in {"purge", "replay", "delete", "count", "tell"} => now'[t] \in Webhooks,
         step'[t] \in {"replay", "delete"} => rest'[t] \subseteq outbox',
         step'[t] = "delete" =>
            \A r \in rest'[t] : IsOldest(r, rest'[t]) => Taken(r.webhook, r.event)'
  PROVE  DrainInv'
<1>1. \A u \in Timers : step'[u] # "idle" => u = t
  OBVIOUS
<1>2. \A u \in Timers : step'[u] \in {"purge", "replay", "delete", "count", "tell"} => u = t
  BY <1>1
<1>3. \A u \in Timers : step'[u] # "idle" => draining'
  BY <1>1
<1>4. \A u, v \in Timers : step'[u] # "idle" /\ step'[v] # "idle" => u = v
  BY <1>1
<1> QED
  BY <1>2, <1>3, <1>4 DEF DrainInv, IsOldest

\* The other ticks are idle while one is not, and stay so.
LEMMA OthersIdle ==
  ASSUME DrainInv, DrainTypes, NEW t \in Timers, step[t] # "idle", NEW s,
         step' = [step EXCEPT ![t] = s]
  PROVE  /\ draining
         /\ step'[t] = s
         /\ \A u \in Timers : u # t => step[u] = "idle" /\ step'[u] = "idle"
  BY DEF DrainInv, DrainTypes

\* Rows only go: the table stays right.
LEMMA RowsGo ==
  ASSUME RowsInv, TableTypes, UNCHANGED <<targets, todo, nextId>>, outbox' \subseteq outbox
  PROVE  RowsInv'
  BY DEF RowsInv, TableTypes

LEMMA DispatchStays ==
  ASSUME DispatchTypes, DispatchInv, LateInv, UNCHANGED <<dispatchVars, late>>
  PROVE  DispatchTypes' /\ DispatchInv' /\ LateInv'
  BY DEF DispatchTypes, DispatchInv, LateInv, dispatchVars

-----------------------------------------------------------------------------
(* dispatch(). *)

LEMMA ReceiveIInv == ASSUME IInv, NEW e \in Events, Receive(e) PROVE IInv'
<1> USE DEF Receive, IInv, TypeOK,
        dispatchVars, drainVars, outageVars, tableVars, worldVars, budgetVars
<1>1. DispatchTypes'
  BY DEF DispatchTypes, Phases
<1>2. DrainTypes'
  BY DEF DrainTypes, Steps
<1>3. TableTypes'
  BY DEF TableTypes, Rows
<1>4. WorldTypes'
  BY DEF WorldTypes
<1>5. DispatchInv'
  BY DEF DispatchInv, DispatchTypes
<1>6. RowsInv'
  BY DEF RowsInv, DispatchInv, DispatchTypes, TableTypes, Rows
<1>7. LateInv'
  BY DEF LateInv, DispatchInv, DispatchTypes
<1>8. DrainInv'
  BY DEF DrainInv, IsOldest, Taken, Copies
<1> QED
  BY <1>1, <1>2, <1>3, <1>4, <1>5, <1>6, <1>7, <1>8

LEMMA CancelByPluginIInv ==
  ASSUME IInv, NEW e \in Events, NEW w \in Webhooks, CancelByPlugin(e, w)
  PROVE  IInv'
<1> USE DEF IInv, TypeOK
<1>1. /\ UNCHANGED <<status, drainVars, outageVars, tableVars, accepted, late, told,
                     budgetVars>>
      /\ log' = log \cup {<<w, e, "webhook_cancelled_by_plugin">>}
      /\ Finish(e, w)
  BY DEF CancelByPlugin
<1>2. /\ DispatchTypes' /\ DispatchInv'
      /\ targets' = targets /\ \A d \in Events : todo'[d] \subseteq todo[d]
  BY <1>1, FinishKeepsInv
<1>3. DrainTypes' /\ TableTypes'
  BY <1>1 DEF DrainTypes, TableTypes, drainVars, tableVars, outageVars
<1>4. WorldTypes'
  <2>1. <<w, e, "webhook_cancelled_by_plugin">> \in Webhooks \X Events \X LogActions
    BY DEF LogActions
  <2> QED
    BY <1>1, <2>1 DEF WorldTypes, budgetVars
<1>5. RowsInv'
  BY <1>1, <1>2, RowsStay DEF tableVars
<1>6. LateInv'
  BY <1>1, <1>2 DEF LateInv
<1>7. DrainInv'
  BY <1>1, DrainStays DEF tableVars, Taken, Copies
<1> QED
  BY <1>2, <1>3, <1>4, <1>5, <1>6, <1>7

LEMMA CheckPendingIInv == ASSUME IInv, NEW e \in Events, NEW w \in Webhooks, CheckPending(e, w) PROVE IInv'
<1> USE DEF CheckPending, IInv, TypeOK,
        dispatchVars, drainVars, outageVars, tableVars, worldVars, budgetVars
<1>1. DispatchTypes'
  BY DEF DispatchTypes, Phases
<1>2. DrainTypes'
  BY DEF DrainTypes, Steps
<1>3. TableTypes'
  BY DEF TableTypes, Rows
<1>4. WorldTypes'
  BY DEF WorldTypes
<1>5. DispatchInv'
  BY DEF DispatchInv, DispatchTypes
<1>6. RowsInv'
  BY DEF RowsInv, DispatchInv, DispatchTypes, TableTypes, Rows
<1>7. LateInv'
  BY DEF LateInv, DispatchInv, DispatchTypes
<1>8. DrainInv'
  BY DEF DrainInv, IsOldest, Taken, Copies
<1> QED
  BY <1>1, <1>2, <1>3, <1>4, <1>5, <1>6, <1>7, <1>8

LEMMA PostIInv == ASSUME IInv, NEW e \in Events, Post(e) PROVE IInv'
<1> USE DEF IInv, TypeOK
<1>1. PICK answer \in Answers :
        /\ Reaches(cur[e], e, answer)
        /\ IF answer = "ok" THEN Finish(e, cur[e]) /\ UNCHANGED log
                           ELSE AttemptFailed(e, cur[e], answer)
  BY DEF Post
<1>2. phase[e] = "post" /\ cur[e] \in todo[e] /\ cur[e] \in Webhooks /\ cur[e] \in targets[e]
  BY DEF Post, DispatchInv, DispatchTypes
<1>3. UNCHANGED <<status, drainVars, outageVars, tableVars, told, restarts, edits>>
  BY DEF Post
<1>4. /\ DispatchTypes' /\ DispatchInv'
      /\ log' \subseteq Webhooks \X Events \X LogActions
      /\ targets' = targets /\ \A d \in Events : todo'[d] \subseteq todo[d]
  BY <1>1, <1>2, FinishKeepsInv, AttemptFailedKeepsInv DEF WorldTypes
<1>5. /\ accepted' \in [Webhooks -> Seq(Events)]
      /\ late' \subseteq late \cup {<<cur[e], e>>}
      /\ faults' \in Nat
      /\ \A v \in Webhooks, d \in Events : Taken(v, d) => Taken(v, d)'
  BY <1>1, <1>2, ReachesGrows
<1>6. WorldTypes'
  BY <1>2, <1>3, <1>4, <1>5 DEF WorldTypes
<1>7. DrainTypes' /\ TableTypes'
  BY <1>3 DEF DrainTypes, TableTypes, drainVars, tableVars, outageVars
<1>8. RowsInv'
  BY <1>3, <1>4, RowsStay DEF tableVars
<1>9. LateInv'
  BY <1>2, <1>4, <1>5 DEF LateInv
<1>10. DrainInv'
  BY <1>3, <1>5, DrainStays DEF tableVars
<1> QED
  BY <1>4, <1>6, <1>7, <1>8, <1>9, <1>10

LEMMA PostUnrecordedIInv == ASSUME IInv, NEW e \in Events, PostUnrecorded(e) PROVE IInv'
<1> USE DEF IInv, TypeOK
<1>1. phase[e] = "post" /\ cur[e] \in Webhooks
  BY DEF PostUnrecorded, DispatchInv, DispatchTypes
<1>2. /\ UNCHANGED <<status, drainVars, outageVars, tableVars, late, told, restarts, edits>>
      /\ faults' = faults + 1
  BY DEF PostUnrecorded
<1>3. /\ DispatchTypes' /\ DispatchInv'
      /\ log' \subseteq Webhooks \X Events \X LogActions
      /\ targets' = targets /\ \A d \in Events : todo'[d] \subseteq todo[d]
  BY <1>1, AttemptFailedKeepsInv DEF PostUnrecorded, WorldTypes, Answers
<1>4. /\ accepted' \in [Webhooks -> Seq(Events)]
      /\ \A v \in Webhooks, d \in Events : Taken(v, d) => Taken(v, d)'
  BY <1>1, AcceptGrows DEF PostUnrecorded, WorldTypes
<1>5. WorldTypes'
  BY <1>2, <1>3, <1>4 DEF WorldTypes
<1>6. DrainTypes' /\ TableTypes'
  BY <1>2 DEF DrainTypes, TableTypes, drainVars, tableVars, outageVars
<1>7. RowsInv'
  BY <1>2, <1>3, RowsStay DEF tableVars
<1>8. LateInv'
  BY <1>2, <1>3 DEF LateInv
<1>9. DrainInv'
  BY <1>2, <1>4, DrainStays DEF tableVars
<1> QED
  BY <1>3, <1>5, <1>6, <1>7, <1>8, <1>9

LEMMA KeepIInv ==
  ASSUME IInv, NEW e \in Events, Keep(e)
  PROVE  IInv'
<1> USE DEF IInv, TypeOK
<1> DEFINE row == [id |-> nextId, webhook |-> cur[e], event |-> e]
<1>1. /\ UNCHANGED <<status, horizon, drainVars, alerted, worldVars, budgetVars>>
      /\ outbox' = outbox \cup {row} /\ nextId' = nextId + 1
      /\ outages' = outages \cup {cur[e]}
      /\ phase[e] = "keep" /\ Finish(e, cur[e])
  BY DEF Keep
<1>2. cur[e] \in Webhooks /\ cur[e] \in todo[e] /\ cur[e] \in targets[e]
  BY <1>1 DEF DispatchInv, DispatchTypes
<1>3. DispatchTypes' /\ DispatchInv'
  BY <1>1, <1>2, FinishKeepsInv
<1>4. row \in Rows
  BY <1>2 DEF Rows, TableTypes
<1>5. TableTypes'
  BY <1>1, <1>2, <1>4 DEF TableTypes
<1>6. DrainTypes' /\ WorldTypes' /\ LateInv'
  BY <1>1 DEF DrainTypes, WorldTypes, LateInv, drainVars, worldVars, budgetVars, Finish
<1>7. RowsInv'
  <2>1. /\ targets' = targets
        /\ todo' = [todo EXCEPT ![e] = todo[e] \ {cur[e]}]
    BY <1>1 DEF Finish
  <2>2. \A r \in outbox : r.id < nextId /\ r # row /\ ~(r.webhook = cur[e] /\ r.event = e)
    BY <1>2 DEF RowsInv
  <2>3. \A r \in outbox' : r.id < nextId' /\ r.webhook \in targets'[r.event] \ todo'[r.event]
    BY <1>1, <1>2, <2>1, <2>2 DEF RowsInv, TableTypes, Rows, DispatchTypes
  <2>4. \A r, q \in outbox' :
           r.id = q.id \/ (r.webhook = q.webhook /\ r.event = q.event) => r = q
    BY <1>1, <2>2 DEF RowsInv, TableTypes, Rows
  <2> QED
    BY <2>3, <2>4 DEF RowsInv
<1>8. DrainInv'
  BY <1>1, DrainStays DEF worldVars, Taken, Copies
<1> QED
  BY <1>3, <1>5, <1>6, <1>7, <1>8

-----------------------------------------------------------------------------
(* The drain. *)

LEMMA StartDrainIInv == ASSUME IInv, NEW t \in Timers, StartDrain(t) PROVE IInv'
<1> USE DEF IInv, TypeOK
<1>1. UNCHANGED <<status, dispatchVars, now, entries, rest, pending, outageVars, tableVars,
                  worldVars, budgetVars>>
  BY DEF StartDrain
<1>2. DispatchTypes' /\ DispatchInv' /\ LateInv'
  BY <1>1, DispatchStays DEF worldVars
<1>3. TableTypes' /\ WorldTypes' /\ RowsInv'
  BY <1>1, RowsGo DEF TableTypes, WorldTypes, worldVars, tableVars, outageVars, budgetVars,
                      dispatchVars
<1>4. /\ left' = [left EXCEPT ![t] = {r.webhook : r \in outbox} \cup outages]
      /\ step' = [step EXCEPT ![t] = "next"]
      /\ draining'
  BY DEF StartDrain
<1>5. {r.webhook : r \in outbox} \cup outages \subseteq Webhooks
  BY DEF TableTypes, Rows
<1>6. DrainTypes'
  BY <1>1, <1>4, <1>5 DEF DrainTypes, Steps
<1>7. \A u \in Timers : step[u] = "idle"
  BY DEF StartDrain, DrainInv
<1>8. DrainInv'
  BY <1>4, <1>6, <1>7, DrainMoves DEF DrainTypes
<1> QED
  BY <1>2, <1>3, <1>6, <1>8

LEMMA LoadBatchIInv == ASSUME IInv, NEW t \in Timers, NEW w \in Webhooks, LoadBatch(t, w) PROVE IInv'
<1> USE DEF IInv, TypeOK
<1>1. /\ UNCHANGED <<status, dispatchVars, draining, pending, alerted, tableVars,
                     worldVars, budgetVars>>
      /\ outages' \in {outages, outages \cup {w}}
  BY DEF LoadBatch
<1>2. DispatchTypes' /\ DispatchInv' /\ LateInv'
  BY <1>1, DispatchStays DEF worldVars
<1>3. TableTypes' /\ WorldTypes' /\ RowsInv'
  BY <1>1, RowsGo DEF TableTypes, WorldTypes, worldVars, tableVars, budgetVars, dispatchVars
<1>4. /\ left' = [left EXCEPT ![t] = @ \ {w}]
      /\ now' = [now EXCEPT ![t] = w]
      /\ entries' = [entries EXCEPT ![t] = Batch(w)]
      /\ rest' = [rest EXCEPT ![t] = Batch(w)]
      /\ step[t] = "next"
  BY DEF LoadBatch
<1>5. PICK s \in {"count", "replay", "purge"} : step' = [step EXCEPT ![t] = s]
  BY DEF LoadBatch
<1>6. Batch(w) \subseteq outbox /\ Batch(w) \subseteq Rows
  BY DEF Batch, RowsOf, TableTypes
<1>7. DrainTypes'
  BY <1>1, <1>4, <1>5, <1>6 DEF DrainTypes, Steps
<1>8. outbox' = outbox /\ rest'[t] = Batch(w) /\ now'[t] = w
  BY <1>1, <1>4 DEF DrainTypes, tableVars
<1>9. /\ draining' /\ step'[t] = s
      /\ \A u \in Timers : u # t => step[u] = "idle" /\ step'[u] = "idle"
  BY <1>1, <1>4, <1>5, OthersIdle
<1>10. DrainInv'
  BY <1>6, <1>7, <1>8, <1>9, DrainMoves
<1> QED
  BY <1>2, <1>3, <1>7, <1>10

LEMMA PurgeIInv == ASSUME IInv, NEW t \in Timers, Purge(t) PROVE IInv'
<1> USE DEF IInv, TypeOK
<1>1. /\ UNCHANGED <<status, dispatchVars, draining, left, now, entries, rest, pending,
                     outageVars, nextId, horizon, accepted, late, told, budgetVars>>
      /\ outbox' = outbox \ RowsOf(now[t])
      /\ step[t] = "purge" /\ step' = [step EXCEPT ![t] = "count"]
  BY DEF Purge
<1>2. DispatchTypes' /\ DispatchInv' /\ LateInv'
  BY <1>1, DispatchStays
<1>3. TableTypes' /\ RowsInv'
  BY <1>1, RowsGo DEF TableTypes, outageVars, dispatchVars
<1>4. WorldTypes'
  <2>1. \A r \in RowsOf(now[t]) :
           <<r.webhook, r.event, "webhook_outbox_dropped">> \in Webhooks \X Events \X LogActions
    BY DEF RowsOf, TableTypes, Rows, LogActions
  <2>2. log' \subseteq Webhooks \X Events \X LogActions
    BY <2>1 DEF Purge, WorldTypes
  <2> QED
    BY <1>1, <2>2 DEF WorldTypes, budgetVars
<1>5. DrainTypes'
  BY <1>1 DEF DrainTypes, Steps
<1>6. /\ draining' /\ step'[t] = "count"
      /\ \A u \in Timers : u # t => step[u] = "idle" /\ step'[u] = "idle"
  BY <1>1, OthersIdle
<1>7. now'[t] \in Webhooks
  BY <1>1 DEF DrainInv
<1>8. DrainInv'
  BY <1>5, <1>6, <1>7, DrainMoves
<1> QED
  BY <1>2, <1>3, <1>4, <1>5, <1>8

\* The replay is through with row r, which the endpoint may have refused.
LEMMA AdvanceKeepsInv ==
  ASSUME IInv, NEW t \in Timers, step[t] \in {"replay", "delete"},
         NEW r \in rest[t], Advance(t, r), outbox' \in {outbox, outbox \ {r}},
         UNCHANGED <<draining, left, now, entries, pending>>
  PROVE  DrainTypes' /\ DrainInv'
<1> USE DEF IInv, TypeOK
<1>1. /\ rest' = [rest EXCEPT ![t] = @ \ {r}]
      /\ step' = [step EXCEPT ![t] = IF rest[t] = {r} THEN "count" ELSE "replay"]
  BY DEF Advance
<1>2. DrainTypes'
  BY <1>1 DEF DrainTypes, Steps
<1>3. rest'[t] \subseteq outbox' /\ now'[t] \in Webhooks
  BY <1>1 DEF DrainTypes, DrainInv
<1>4. /\ draining' /\ step'[t] \in {"count", "replay"}
      /\ \A u \in Timers : u # t => step[u] = "idle" /\ step'[u] = "idle"
  BY <1>1, OthersIdle
<1>5. DrainInv'
  BY <1>2, <1>3, <1>4, DrainMoves
<1> QED
  BY <1>2, <1>5

LEMMA DropOverdueIInv == ASSUME IInv, NEW t \in Timers, DropOverdue(t) PROVE IInv'
<1> USE DEF IInv, TypeOK
<1>1. PICK r \in rest[t] : Drop(t, r)
  BY DEF DropOverdue
<1>2. /\ UNCHANGED <<status, dispatchVars, draining, left, now, entries, pending, outageVars,
                     nextId, horizon, accepted, late, told, budgetVars>>
      /\ step[t] = "replay" /\ outbox' = outbox \ {r} /\ Advance(t, r)
      /\ log' = log \cup {<<r.webhook, r.event, "webhook_outbox_dropped">>}
  BY <1>1 DEF DropOverdue, Drop
<1>3. DispatchTypes' /\ DispatchInv' /\ LateInv'
  BY <1>2, DispatchStays
<1>4. TableTypes' /\ RowsInv'
  BY <1>2, RowsGo DEF TableTypes, outageVars, dispatchVars
<1>5. <<r.webhook, r.event, "webhook_outbox_dropped">> \in Webhooks \X Events \X LogActions
  BY <1>2 DEF DrainTypes, Rows, LogActions
<1>6. WorldTypes'
  BY <1>2, <1>5 DEF WorldTypes, budgetVars
<1>7. DrainTypes' /\ DrainInv'
  BY <1>2, AdvanceKeepsInv
<1> QED
  BY <1>3, <1>4, <1>6, <1>7

LEMMA ReplayIInv == ASSUME IInv, NEW t \in Timers, Replay(t) PROVE IInv'
<1> USE DEF IInv, TypeOK
<1>1. PICK r \in rest[t], answer \in Answers :
        IsOldest(r, rest[t]) /\ Reaches(r.webhook, r.event, answer) /\ Answered(t, r, answer)
  BY DEF Replay
<1>2. /\ UNCHANGED <<status, dispatchVars, draining, left, now, entries, pending, outageVars,
                     nextId, horizon, told, restarts, edits>>
      /\ step[t] = "replay"
  BY DEF Replay
<1>3. r \in outbox /\ r \in Rows /\ r.webhook \in targets[r.event]
  BY <1>2 DEF DrainInv, TableTypes, RowsInv
<1>4. r.webhook \in Webhooks /\ r.event \in Events
  BY <1>3 DEF Rows
<1>5. /\ accepted' \in [Webhooks -> Seq(Events)]
      /\ late' \subseteq late \cup {<<r.webhook, r.event>>}
      /\ faults' \in Nat
      /\ answer = "ok" => Taken(r.webhook, r.event)'
  BY <1>1, <1>4, ReachesGrows
<1>6. DispatchTypes' /\ DispatchInv'
  BY <1>2 DEF DispatchTypes, DispatchInv, dispatchVars
<1>7. LateInv'
  BY <1>2, <1>3, <1>5 DEF LateInv, dispatchVars
<1>8. /\ outbox' \in {outbox, outbox \ {r}}
      /\ log' \in {log, log \cup {<<r.webhook, r.event, "webhook_outbox_dropped">>}}
  BY <1>1 DEF Answered, Drop
<1>9. TableTypes' /\ RowsInv'
  BY <1>2, <1>8, RowsGo DEF TableTypes, outageVars, dispatchVars
<1>10. <<r.webhook, r.event, "webhook_outbox_dropped">> \in Webhooks \X Events \X LogActions
  BY <1>4 DEF LogActions
<1>11. WorldTypes'
  <2>1. log' \subseteq Webhooks \X Events \X LogActions
    BY <1>8, <1>10 DEF WorldTypes
  <2>2. late' \subseteq Webhooks \X Events
    BY <1>4, <1>5 DEF WorldTypes
  <2> QED
    BY <1>2, <1>5, <2>1, <2>2 DEF WorldTypes
<1>12. DrainTypes' /\ DrainInv'
  <2>1. CASE Advance(t, r)
    BY <1>2, <1>8, <2>1, AdvanceKeepsInv
  <2>2. CASE answer = "ok" /\ UNCHANGED <<outbox, rest>> /\ step' = [step EXCEPT ![t] = "delete"]
    <3>1. DrainTypes'
      BY <1>2, <2>2 DEF DrainTypes, Steps
    <3>2. /\ draining' /\ step'[t] = "delete"
          /\ \A u \in Timers : u # t => step[u] = "idle" /\ step'[u] = "idle"
      BY <1>2, <2>2, OthersIdle
    <3>3. rest'[t] \subseteq outbox' /\ now'[t] \in Webhooks
      BY <1>2, <2>2 DEF DrainInv
    <3>4. \A q \in rest'[t] : IsOldest(q, rest'[t]) => q = r
      BY <1>1, <1>2, <2>2 DEF IsOldest, DrainInv, RowsInv, TableTypes, Rows
    <3> QED
      BY <1>5, <2>2, <3>1, <3>2, <3>3, <3>4, DrainMoves
  <2>3. CASE /\ UNCHANGED outbox /\ rest' = [rest EXCEPT ![t] = {}]
             /\ step' = [step EXCEPT ![t] = "count"]
    <3>1. DrainTypes'
      BY <1>2, <2>3 DEF DrainTypes, Steps
    <3>2. /\ draining' /\ step'[t] = "count"
          /\ \A u \in Timers : u # t => step[u] = "idle" /\ step'[u] = "idle"
      BY <1>2, <2>3, OthersIdle
    <3>3. now'[t] \in Webhooks
      BY <1>2 DEF DrainInv
    <3> QED
      BY <3>1, <3>2, <3>3, DrainMoves
  <2> QED
    BY <1>1, <2>1, <2>2, <2>3 DEF Answered, Drop
<1> QED
  BY <1>6, <1>7, <1>9, <1>11, <1>12

LEMMA DeleteDeliveredIInv ==
  ASSUME IInv, NEW t \in Timers, DeleteDelivered(t)
  PROVE  IInv'
<1> USE DEF IInv, TypeOK
<1>1. PICK r \in rest[t] : outbox' = outbox \ {r} /\ Advance(t, r)
  BY DEF DeleteDelivered
<1>2. /\ UNCHANGED <<status, dispatchVars, draining, left, now, entries, pending, outageVars,
                     nextId, horizon, worldVars, budgetVars>>
      /\ step[t] = "delete"
  BY DEF DeleteDelivered
<1>3. DispatchTypes' /\ DispatchInv' /\ LateInv'
  BY <1>2, DispatchStays DEF worldVars
<1>4. TableTypes' /\ RowsInv' /\ WorldTypes'
  BY <1>1, <1>2, RowsGo DEF TableTypes, WorldTypes, worldVars, budgetVars, outageVars,
                            dispatchVars
<1>5. DrainTypes' /\ DrainInv'
  BY <1>1, <1>2, AdvanceKeepsInv
<1> QED
  BY <1>3, <1>4, <1>5

LEMMA DeleteFailsIInv == ASSUME IInv, NEW t \in Timers, DeleteFails(t) PROVE IInv'
<1> USE DEF DeleteFails, IInv, TypeOK,
        dispatchVars, drainVars, outageVars, tableVars, worldVars, budgetVars
<1>1. DispatchTypes'
  BY DEF DispatchTypes, Phases
<1>2. DrainTypes'
  BY DEF DrainTypes, Steps
<1>3. TableTypes'
  BY DEF TableTypes, Rows
<1>4. WorldTypes'
  BY DEF WorldTypes
<1>5. DispatchInv'
  BY DEF DispatchInv, DispatchTypes
<1>6. RowsInv'
  BY DEF RowsInv, DispatchInv, DispatchTypes, TableTypes, Rows
<1>7. LateInv'
  BY DEF LateInv, DispatchInv, DispatchTypes
<1>8. DrainInv'
  BY DEF DrainInv, IsOldest, Taken, Copies
<1> QED
  BY <1>1, <1>2, <1>3, <1>4, <1>5, <1>6, <1>7, <1>8

\* The drain moves on to its next webhook, or ends.
LEMMA EndOrNextKeepsInv ==
  ASSUME DrainInv, DrainTypes, NEW t \in Timers, step[t] # "idle", EndOrNext(t)
  PROVE  DrainTypes' /\ DrainInv'
<1>1. PICK s \in {"idle", "next"} :
        /\ step' = [step EXCEPT ![t] = s]
        /\ s = "next" => draining'
  BY DEF EndOrNext
<1>2. DrainTypes'
  BY <1>1 DEF EndOrNext, DrainTypes, Steps
<1>3. /\ step'[t] = s
      /\ \A u \in Timers : u # t => step[u] = "idle" /\ step'[u] = "idle"
  BY <1>1, OthersIdle
<1>4. DrainInv'
  BY <1>1, <1>2, <1>3, DrainMoves
<1> QED
  BY <1>2, <1>4

LEMMA CountPendingIInv ==
  ASSUME IInv, NEW t \in Timers, CountPending(t)
  PROVE  IInv'
<1> USE DEF IInv, TypeOK
<1>1. /\ UNCHANGED <<status, dispatchVars, outageVars, tableVars, worldVars, budgetVars>>
      /\ step[t] = "count"
  BY DEF CountPending
<1>2. DispatchTypes' /\ DispatchInv' /\ LateInv'
  BY <1>1, DispatchStays DEF worldVars
<1>3. TableTypes' /\ RowsInv' /\ WorldTypes'
  BY <1>1, RowsGo DEF TableTypes, WorldTypes, worldVars, budgetVars, outageVars, tableVars,
                      dispatchVars
<1>4. CASE EndOrNext(t)
  BY <1>1, <1>2, <1>3, <1>4, EndOrNextKeepsInv
<1>5. CASE /\ pending' = [pending EXCEPT ![t] = HasPending(now[t])]
           /\ step' = [step EXCEPT ![t] = "tell"]
           /\ UNCHANGED <<draining, left, now, entries, rest>>
  <2>1. HasPending(now[t]) \in BOOLEAN
    BY DEF HasPending
  <2>2. DrainTypes'
    BY <1>5, <2>1 DEF DrainTypes, Steps
  <2>3. /\ draining' /\ step'[t] = "tell"
        /\ \A u \in Timers : u # t => step[u] = "idle" /\ step'[u] = "idle"
    BY <1>1, <1>5, OthersIdle
  <2>4. now'[t] \in Webhooks
    BY <1>1, <1>5 DEF DrainInv
  <2>5. DrainInv'
    BY <2>2, <2>3, <2>4, DrainMoves
  <2> QED
    BY <1>2, <1>3, <2>2, <2>5
<1> QED
  BY <1>4, <1>5 DEF CountPending

LEMMA TellRecoveryIInv ==
  ASSUME IInv, NEW t \in Timers, TellRecovery(t)
  PROVE  IInv'
<1> USE DEF IInv, TypeOK
<1>1. /\ UNCHANGED <<status, dispatchVars, tableVars, accepted, late, log, budgetVars>>
      /\ step[t] = "tell" /\ EndOrNext(t)
  BY DEF TellRecovery
<1>2. now[t] \in Webhooks
  BY <1>1 DEF DrainInv
<1>3. /\ outages' \subseteq Webhooks /\ alerted' \subseteq Webhooks
      /\ told' \in [Webhooks -> {"down", "up"}]
  BY <1>2 DEF TellRecovery, TableTypes, WorldTypes
<1>4. DispatchTypes' /\ DispatchInv' /\ LateInv'
  BY <1>1, DispatchStays
<1>5. TableTypes' /\ RowsInv' /\ WorldTypes'
  BY <1>1, <1>3, RowsGo DEF TableTypes, WorldTypes, budgetVars, tableVars, dispatchVars
<1>6. DrainTypes' /\ DrainInv'
  BY <1>1, EndOrNextKeepsInv
<1> QED
  BY <1>4, <1>5, <1>6

LEMMA TellOutageIInv ==
  ASSUME IInv, NEW t \in Timers, TellOutage(t)
  PROVE  IInv'
<1> USE DEF IInv, TypeOK
<1>1. /\ UNCHANGED <<status, dispatchVars, tableVars, accepted, late, log, budgetVars>>
      /\ step[t] = "tell" /\ EndOrNext(t)
  BY DEF TellOutage
<1>2. now[t] \in Webhooks
  BY <1>1 DEF DrainInv
<1>3. /\ outages' \subseteq Webhooks /\ alerted' \subseteq Webhooks
      /\ told' \in [Webhooks -> {"down", "up"}]
  BY <1>2 DEF TellOutage, TableTypes, WorldTypes
<1>4. DispatchTypes' /\ DispatchInv' /\ LateInv'
  BY <1>1, DispatchStays
<1>5. TableTypes' /\ RowsInv' /\ WorldTypes'
  BY <1>1, <1>3, RowsGo DEF TableTypes, WorldTypes, budgetVars, tableVars, dispatchVars
<1>6. DrainTypes' /\ DrainInv'
  BY <1>1, EndOrNextKeepsInv
<1> QED
  BY <1>4, <1>5, <1>6

LEMMA DrainFailsIInv ==
  ASSUME IInv, NEW t \in Timers, DrainFails(t)
  PROVE  IInv'
<1> USE DEF IInv, TypeOK
<1>1. /\ UNCHANGED <<status, dispatchVars, outageVars, tableVars, worldVars, restarts, edits>>
      /\ step[t] # "idle" /\ step' = [step EXCEPT ![t] = "idle"]
      /\ faults' = faults + 1
  BY DEF DrainFails
<1>2. DispatchTypes' /\ DispatchInv' /\ LateInv'
  BY <1>1, DispatchStays DEF worldVars
<1>3. TableTypes' /\ RowsInv' /\ WorldTypes'
  BY <1>1, RowsGo DEF TableTypes, WorldTypes, worldVars, budgetVars, outageVars, tableVars,
                      dispatchVars
<1>4. DrainTypes'
  BY DEF DrainFails, DrainTypes, Steps
<1>5. step'[t] = "idle" /\ \A u \in Timers : u # t => step[u] = "idle" /\ step'[u] = "idle"
  BY <1>1, OthersIdle
<1>6. DrainInv'
  BY <1>4, <1>5, DrainMoves
<1> QED
  BY <1>2, <1>3, <1>4, <1>6

-----------------------------------------------------------------------------
(* The rest of the world. *)

LEMMA LateAcceptIInv ==
  ASSUME IInv, NEW w \in Webhooks, NEW e \in Events, LateAccept(w, e)
  PROVE  IInv'
<1> USE DEF IInv, TypeOK
<1>1. /\ UNCHANGED <<status, dispatchVars, drainVars, outageVars, tableVars, told, log,
                     budgetVars>>
      /\ late' = late \ {<<w, e>>} /\ Accept(w, e)
  BY DEF LateAccept
<1>2. /\ accepted' \in [Webhooks -> Seq(Events)]
      /\ \A v \in Webhooks, d \in Events : Taken(v, d) => Taken(v, d)'
  BY <1>1, AcceptGrows DEF WorldTypes
<1>3. DispatchTypes' /\ DispatchInv' /\ LateInv'
  BY <1>1 DEF DispatchTypes, DispatchInv, LateInv, dispatchVars
<1>4. DrainTypes' /\ TableTypes' /\ RowsInv'
  BY <1>1, RowsGo DEF DrainTypes, TableTypes, drainVars, tableVars, outageVars, dispatchVars
<1>5. WorldTypes'
  BY <1>1, <1>2 DEF WorldTypes, budgetVars
<1>6. DrainInv'
  BY <1>1, <1>2, DrainStays DEF tableVars
<1> QED
  BY <1>3, <1>4, <1>5, <1>6

LEMMA UpdateWebhookIInv ==
  ASSUME IInv, NEW w \in Webhooks, NEW new \in {"active", "inactive", "deleted"}, UpdateWebhook(w, new)
  PROVE  IInv'
<1> USE DEF IInv, TypeOK
<1>1. /\ UNCHANGED <<dispatchVars, drainVars, outageVars, tableVars, worldVars, faults, restarts>>
      /\ status' = [status EXCEPT ![w] = new] /\ edits' = edits + 1
  BY DEF UpdateWebhook
<1>2. DispatchTypes' /\ DispatchInv' /\ LateInv'
  BY <1>1, DispatchStays DEF worldVars
<1>3. DrainTypes' /\ TableTypes' /\ WorldTypes' /\ RowsInv'
  BY <1>1, RowsGo DEF DrainTypes, TableTypes, WorldTypes, worldVars, drainVars, outageVars,
                      tableVars, dispatchVars
<1>4. DrainInv'
  BY <1>1, DrainStays DEF tableVars, worldVars, Taken, Copies
<1> QED
  BY <1>2, <1>3, <1>4

LEMMA RowAgesIInv ==
  ASSUME IInv, RowAges
  PROVE  IInv'
<1> USE DEF IInv, TypeOK
<1>1. /\ UNCHANGED <<status, dispatchVars, drainVars, outageVars, outbox, nextId,
                     worldVars, budgetVars>>
      /\ horizon' \in {r.id : r \in outbox}
  BY DEF RowAges, IsOldest
<1>2. DispatchTypes' /\ DispatchInv' /\ LateInv'
  BY <1>1, DispatchStays DEF worldVars
<1>3. DrainTypes' /\ TableTypes' /\ WorldTypes' /\ RowsInv'
  BY <1>1, RowsGo DEF DrainTypes, TableTypes, Rows, WorldTypes, worldVars, drainVars,
                      outageVars, budgetVars, dispatchVars
<1>4. DrainInv'
  BY <1>1, DrainStays DEF worldVars, Taken, Copies
<1> QED
  BY <1>2, <1>3, <1>4

LEMMA ProcessEndsIInv ==
  ASSUME IInv, ProcessEnds
  PROVE  IInv'
<1> USE DEF IInv, TypeOK
<1>1. /\ UNCHANGED <<status, targets, todo, tableVars, worldVars, faults, edits>>
      /\ restarts' = restarts + 1
      /\ phase' = [e \in Events |->
                     IF phase[e] \in {"next", "keep", "post"} THEN "crashed" ELSE phase[e]]
  BY DEF ProcessEnds
<1>2. DispatchTypes'
  BY <1>1 DEF ProcessEnds, DispatchTypes, Phases
<1>3. DispatchInv'
  BY <1>1 DEF DispatchTypes, DispatchInv
<1>4. TableTypes' /\ WorldTypes' /\ RowsInv' /\ LateInv'
  BY <1>1, RowsGo DEF ProcessEnds, TableTypes, WorldTypes, LateInv, tableVars, worldVars
<1>5. DrainTypes' /\ DrainInv'
  BY DEF ProcessEnds, DrainTypes, DrainInv, Steps
<1> QED
  BY <1>2, <1>3, <1>4, <1>5

-----------------------------------------------------------------------------
(* The theorems. *)

LEMMA NextIInv == IInv /\ [Next]_vars => IInv'
<1> SUFFICES ASSUME IInv, [Next]_vars PROVE IInv'
  OBVIOUS
<1>1. ASSUME NEW e \in Events, Receive(e) \/ DispatchStep(e) PROVE IInv'
  BY <1>1, ReceiveIInv, CancelByPluginIInv, CheckPendingIInv, PostIInv, PostUnrecordedIInv,
     KeepIInv DEF DispatchStep
<1>2. ASSUME NEW t \in Timers, StartDrain(t) PROVE IInv'
  BY <1>2, StartDrainIInv
<1>3. ASSUME NEW t \in Timers, DrainStep(t) PROVE IInv'
  BY <1>3, LoadBatchIInv, PurgeIInv, DropOverdueIInv, ReplayIInv, DeleteDeliveredIInv,
     DeleteFailsIInv, CountPendingIInv, TellRecoveryIInv, TellOutageIInv, DrainFailsIInv
     DEF DrainStep
<1>4. ASSUME NEW w \in Webhooks, NEW e \in Events, LateAccept(w, e) PROVE IInv'
  BY <1>4, LateAcceptIInv
<1>5. ASSUME NEW w \in Webhooks, NEW new \in {"active", "inactive", "deleted"},
             UpdateWebhook(w, new)
      PROVE  IInv'
  BY <1>5, UpdateWebhookIInv
<1>6. CASE RowAges \/ ProcessEnds
  BY <1>6, RowAgesIInv, ProcessEndsIInv
<1>7. CASE UNCHANGED vars
  <2>1. DispatchTypes' /\ DispatchInv' /\ LateInv'
    BY <1>7, DispatchStays DEF vars, worldVars, IInv, TypeOK
  <2>2. DrainTypes' /\ TableTypes' /\ WorldTypes' /\ RowsInv'
    BY <1>7, RowsGo DEF vars, IInv, TypeOK, DrainTypes, TableTypes, WorldTypes, worldVars,
                        drainVars, outageVars, tableVars, budgetVars, dispatchVars
  <2>3. DrainInv'
    BY <1>7, DrainStays DEF vars, tableVars, worldVars, Taken, Copies, IInv, TypeOK
  <2> QED
    BY <2>1, <2>2, <2>3 DEF IInv, TypeOK
<1> QED
  BY <1>1, <1>2, <1>3, <1>4, <1>5, <1>6, <1>7 DEF Next

\* The invariant the other theorems rest on: every row stands for a webhook
\* that its event's dispatch() is through with, no two rows stand for the same
\* delivery, one drain runs at a time and replays only rows of the table.
THEOREM DeliveryInvariant == Spec => []IInv
  BY InitIInv, NextIInv, PTL DEF Spec

\* Every variable keeps its type.
THEOREM DeliveryTypes == Spec => []TypeOK
<1>1. IInv => TypeOK
  BY DEF IInv
<1> QED
  BY <1>1, DeliveryInvariant, PTL

-----------------------------------------------------------------------------
(* The refinement: every step of WebhookDelivery is a step of EventLedger. *)

\* The ledger is the same in the next state.
Same == UNCHANGED <<Known, Owed, Held, Got, Closed, CutOff>>

-----------------------------------------------------------------------------
(* Each of the ledger's sets depends on a few variables only. *)

LEMMA KnownStays == targets' = targets => Known' = Known
  BY DEF Known

LEMMA OwedStays == UNCHANGED <<phase, todo>> => Owed' = Owed /\ CutOff' = CutOff
  BY DEF Owed, CutOff, InHand, Lost

LEMMA HeldStays == outbox' = outbox => Held' = Held
  BY DEF Held, Kept

LEMMA GotStays == accepted' = accepted => Got' = Got
  BY DEF Got, Taken, Copies

LEMMA ClosedStays == log' = log => Closed' = Closed
  BY DEF Closed, GivenUp

\* The loop of dispatch() is through with one webhook: the pair is no longer
\* owed, and nothing else changes hands.
LEMMA FinishPays ==
  ASSUME IInv, NEW e \in Events, NEW w \in Webhooks, w \in todo[e],
         phase[e] \in {"next", "keep", "post"}, Finish(e, w)
  PROVE  /\ Known' = Known /\ CutOff' = CutOff
         /\ <<w, e>> \in Owed /\ Owed' = Owed \ {<<w, e>>}
<1> USE DEF IInv, TypeOK, DispatchTypes, Pairs
<1>1. /\ todo' = [todo EXCEPT ![e] = @ \ {w}]
      /\ phase' = [phase EXCEPT ![e] = IF todo[e] = {w} THEN "done" ELSE "next"]
      /\ targets' = targets
  BY DEF Finish
<1>2. <<w, e>> \in Owed
  BY DEF Owed, InHand
<1>3. ASSUME NEW v \in Webhooks, NEW d \in Events
      PROVE  /\ InHand(d, v)' <=> InHand(d, v) /\ <<v, d>> # <<w, e>>
             /\ Lost(d, v)' <=> Lost(d, v)
  BY <1>1 DEF InHand, Lost
<1>4. Owed' = Owed \ {<<w, e>>} /\ CutOff' = CutOff
  BY <1>3 DEF Owed, CutOff
<1> QED
  BY <1>1, <1>2, <1>4, KnownStays

\* One more log entry closes one more pair.
LEMMA LogCloses ==
  ASSUME NEW w \in Webhooks, NEW e \in Events, NEW action,
         log' = log \cup {<<w, e, action>>}
  PROVE  Closed' = Closed \cup {<<w, e>>}
<1>1. ASSUME NEW v \in Webhooks, NEW d \in Events
      PROVE  GivenUp(v, d)' <=> GivenUp(v, d) \/ <<v, d>> = <<w, e>>
  <2> DEFINE new == <<w, e, action>>
  <2>1. new[1] = w /\ new[2] = e /\ log' = log \cup {new}
    OBVIOUS
  <2> HIDE DEF new
  <2>2. GivenUp(v, d)' <=> \E entry \in log' : entry[1] = v /\ entry[2] = d
    BY DEF GivenUp
  <2>3. (\E entry \in log' : entry[1] = v /\ entry[2] = d) <=>
           GivenUp(v, d) \/ (w = v /\ e = d)
    BY <2>1 DEF GivenUp
  <2> QED
    BY <2>2, <2>3
<1> QED
  BY <1>1 DEF Closed, Pairs

\* The endpoint's log grows by one event.
LEMMA AcceptTakes ==
  ASSUME WorldTypes, NEW w \in Webhooks, NEW e \in Events, Accept(w, e)
  PROVE  Got' = Got \cup {<<w, e>>}
<1>1. ASSUME NEW v \in Webhooks, NEW d \in Events
      PROVE  Taken(v, d)' <=> Taken(v, d) \/ <<v, d>> = <<w, e>>
  <2>1. /\ accepted[w] \in Seq(Events) /\ accepted[v] \in Seq(Events)
        /\ accepted' = [accepted EXCEPT ![w] = Append(accepted[w], e)]
    BY DEF Accept, WorldTypes
  <2>2. CASE v # w
    BY <2>1, <2>2 DEF Taken, Copies, WorldTypes
  <2>3. CASE v = w
    <3>1. accepted'[v] = Append(accepted[v], e)
      BY <2>1, <2>3 DEF WorldTypes
    <3>2. /\ DOMAIN accepted'[v] = 1..(Len(accepted[v]) + 1)
          /\ DOMAIN accepted[v] = 1..Len(accepted[v])
          /\ \A i \in 1..Len(accepted[v]) : accepted'[v][i] = accepted[v][i]
          /\ accepted'[v][Len(accepted[v]) + 1] = e
          /\ Len(accepted[v]) \in Nat
      BY <2>1, <3>1
    <3>3. Taken(v, d) <=> \E i \in 1..Len(accepted[v]) : accepted[v][i] = d
      BY <3>2 DEF Taken, Copies
    <3>4. Taken(v, d)' <=> \E i \in 1..(Len(accepted[v]) + 1) : accepted'[v][i] = d
      BY <3>2 DEF Taken, Copies
    <3>5. 1..(Len(accepted[v]) + 1) = (1..Len(accepted[v])) \cup {Len(accepted[v]) + 1}
      BY <3>2
    <3> QED
      BY <2>3, <3>2, <3>3, <3>4, <3>5
  <2> QED
    BY <2>2, <2>3
<1> QED
  BY <1>1 DEF Got, Pairs

\* What is kept is not owed, and is known.
LEMMA HeldIsNotOwed ==
  ASSUME IInv, NEW r \in outbox
  PROVE  /\ <<r.webhook, r.event>> \in Held /\ <<r.webhook, r.event>> \in Known
         /\ <<r.webhook, r.event>> \notin Owed
  BY DEF IInv, TypeOK, TableTypes, Rows, RowsInv, Held, Kept, Known, Owed, InHand, Pairs

\* One row less is one pair less in the table.
LEMMA RowReleases ==
  ASSUME IInv, NEW r \in outbox, outbox' = outbox \ {r}
  PROVE  Held' = Held \ {<<r.webhook, r.event>>}
<1>1. ASSUME NEW v \in Webhooks, NEW d \in Events
      PROVE  Kept(v, d)' <=> Kept(v, d) /\ <<v, d>> # <<r.webhook, r.event>>
  BY DEF Kept, IInv, RowsInv, TypeOK, TableTypes, Rows
<1> QED
  BY <1>1 DEF Held, Pairs

-----------------------------------------------------------------------------
(* The actions that change the ledger. *)

LEMMA ReceiveOwes ==
  ASSUME IInv, NEW e \in Events, Receive(e)
  PROVE  \E S \in SUBSET Pairs : Ledger!Owe(S)
<1> USE DEF IInv, TypeOK, DispatchTypes, Pairs
<1> DEFINE matching == {w \in Webhooks : status[w] = "active" /\ e \in Listens[w]}
<1> DEFINE S == {p \in Pairs : p[2] = e /\ p[1] \in matching}
<1>1. /\ phase[e] = "new" /\ targets[e] = {}
      /\ targets' = [targets EXCEPT ![e] = matching]
      /\ todo' = [todo EXCEPT ![e] = matching]
      /\ phase' = [phase EXCEPT ![e] = IF matching = {} THEN "done" ELSE "next"]
      /\ UNCHANGED <<outbox, accepted, log>>
  BY DEF Receive, tableVars, worldVars, DispatchInv
<1>2. S \cap Known = {}
  BY <1>1 DEF Known
<1>3. ASSUME NEW v \in Webhooks, NEW d \in Events
      PROVE  /\ v \in targets'[d] <=> v \in targets[d] \/ <<v, d>> \in S
             /\ InHand(d, v)' <=> InHand(d, v) \/ <<v, d>> \in S
             /\ Lost(d, v)' <=> Lost(d, v)
  BY <1>1 DEF InHand, Lost
<1>4. Known' = Known \cup S /\ Owed' = Owed \cup S /\ CutOff' = CutOff
  BY <1>3 DEF Known, Owed, CutOff
<1>5. UNCHANGED <<Held, Got, Closed>>
  BY <1>1, HeldStays, GotStays, ClosedStays
<1>6. Ledger!Owe(S)
  BY <1>2, <1>4, <1>5 DEF Ledger!Owe
<1> QED
  BY <1>6

LEMMA CancelByPluginGivesUp ==
  ASSUME IInv, NEW e \in Events, NEW w \in Webhooks, CancelByPlugin(e, w)
  PROVE  Ledger!GiveUp({<<w, e>>})
<1>1. /\ Known' = Known /\ CutOff' = CutOff
      /\ <<w, e>> \in Owed /\ Owed' = Owed \ {<<w, e>>}
  BY FinishPays DEF CancelByPlugin
<1>2. Closed' = Closed \cup {<<w, e>>}
  BY LogCloses DEF CancelByPlugin
<1>3. Held' = Held /\ Got' = Got
  BY HeldStays, GotStays DEF CancelByPlugin, tableVars
<1>4. <<w, e>> \notin Held
  BY <1>1, HeldIsNotOwed DEF Held, Kept, Pairs
<1> QED
  BY <1>1, <1>2, <1>3, <1>4 DEF Ledger!GiveUp

\* What a failed attempt does to the ledger, the endpoint's part aside.
LEMMA AttemptFailedLedger ==
  ASSUME IInv, NEW e \in Events, phase[e] = "post", NEW answer \in Answers,
         AttemptFailed(e, cur[e], answer)
  PROVE  /\ Known' = Known /\ CutOff' = CutOff
         /\ \/ Owed' = Owed /\ Closed' = Closed
            \/ /\ IsPermanentFailure(answer)
               /\ <<cur[e], e>> \in Owed /\ <<cur[e], e>> \in Pairs
               /\ Owed' = Owed \ {<<cur[e], e>>} /\ Closed' = Closed \cup {<<cur[e], e>>}
<1> USE DEF IInv, TypeOK, DispatchTypes
<1>1. cur[e] \in Webhooks /\ cur[e] \in todo[e]
  BY DEF DispatchInv
<1>2. CASE UNCHANGED <<phase, targets, todo, log>>
  BY <1>2, OwedStays, KnownStays, ClosedStays
<1>3. CASE /\ IsPermanentFailure(answer) /\ Finish(e, cur[e])
           /\ log' = log \cup {<<cur[e], e, "webhook_delivery_failed">>}
  BY <1>1, <1>3, FinishPays, LogCloses DEF Pairs
<1>4. CASE phase' = [phase EXCEPT ![e] = "keep"] /\ UNCHANGED <<targets, todo, log>>
  <2>1. ASSUME NEW v \in Webhooks, NEW d \in Events
        PROVE  (InHand(d, v)' <=> InHand(d, v)) /\ (Lost(d, v)' <=> Lost(d, v))
    BY <1>4 DEF InHand, Lost
  <2> QED
    BY <1>4, <2>1, KnownStays, ClosedStays DEF Owed, CutOff, Pairs
<1> QED
  BY <1>2, <1>3, <1>4 DEF AttemptFailed

\* One direct attempt is taken in, given up on, or changes nothing yet.
LEMMA PostLedger ==
  ASSUME IInv, NEW e \in Events, Post(e)
  PROVE  \/ Ledger!Take(<<cur[e], e>>) \/ Ledger!GiveUp({<<cur[e], e>>}) \/ Same
<1> USE DEF IInv, TypeOK
<1> DEFINE p == <<cur[e], e>>
<1>1. phase[e] = "post" /\ cur[e] \in Webhooks /\ cur[e] \in todo[e] /\ cur[e] \in targets[e]
  BY DEF Post, DispatchTypes, DispatchInv
<1>2. p \in Known /\ p \in Pairs
  BY <1>1 DEF Known, Pairs
<1>3. Held' = Held
  BY HeldStays DEF Post, tableVars
<1>4. PICK answer \in Answers :
         /\ Reaches(cur[e], e, answer)
         /\ IF answer = "ok" THEN Finish(e, cur[e]) /\ UNCHANGED log
            ELSE AttemptFailed(e, cur[e], answer)
  BY DEF Post
<1>5. CASE answer = "ok"
  <2>1. /\ Known' = Known /\ CutOff' = CutOff
        /\ Owed' = Owed \ {p} /\ Closed' = Closed
    BY <1>1, <1>4, <1>5, FinishPays, ClosedStays
  <2>2. Got' = Got \cup {p}
    BY <1>1, <1>4, <1>5, AcceptTakes DEF Reaches
  <2>3. Ledger!Take(p)
    BY <1>2, <1>3, <2>1, <2>2 DEF Ledger!Take
  <2> QED
    BY <2>3
<1>6. CASE answer # "ok"
  <2>1. Got' = Got
    BY <1>4, <1>6, GotStays DEF Reaches
  <2>2. /\ Known' = Known /\ CutOff' = CutOff
        /\ \/ Owed' = Owed /\ Closed' = Closed
           \/ p \in Owed /\ Owed' = Owed \ {p} /\ Closed' = Closed \cup {p}
    BY <1>1, <1>4, <1>6, AttemptFailedLedger
  <2>3. p \in Owed => p \notin Held
    BY <1>1, HeldIsNotOwed DEF Held, Kept, Pairs
  <2>4. CASE Owed' = Owed /\ Closed' = Closed
    BY <1>3, <2>1, <2>2, <2>4 DEF Same
  <2>5. CASE p \in Owed /\ Owed' = Owed \ {p} /\ Closed' = Closed \cup {p}
    <3>1. Held' = Held \ {p}
      BY <1>3, <2>3, <2>5
    <3>2. Ledger!GiveUp({p})
      BY <2>1, <2>2, <2>5, <3>1 DEF Ledger!GiveUp
    <3> QED
      BY <3>2
  <2> QED
    BY <2>2, <2>4, <2>5
<1> QED
  BY <1>5, <1>6

LEMMA PostUnrecordedTakes ==
  ASSUME IInv, NEW e \in Events, PostUnrecorded(e)
  PROVE  cur[e] \in Webhooks /\ Ledger!Take(<<cur[e], e>>)
<1> USE DEF IInv, TypeOK
<1>1. phase[e] = "post" /\ cur[e] \in Webhooks /\ cur[e] \in targets[e]
  BY DEF PostUnrecorded, DispatchTypes, DispatchInv
<1>2. <<cur[e], e>> \in Known
  BY <1>1 DEF Known, Pairs
<1>3. Held' = Held
  BY HeldStays DEF PostUnrecorded, tableVars
<1>4. Got' = Got \cup {<<cur[e], e>>}
  BY <1>1, AcceptTakes DEF PostUnrecorded
<1>5. UNCHANGED <<Known, CutOff, Owed, Closed>>
  <2>1. "silence" \in Answers /\ ~IsPermanentFailure("silence")
    BY DEF Answers, IsPermanentFailure
  <2> QED
    BY <1>1, <2>1, AttemptFailedLedger DEF PostUnrecorded
<1> QED
  BY <1>1, <1>2, <1>3, <1>4, <1>5 DEF Ledger!Take

LEMMA KeepKeeps ==
  ASSUME IInv, NEW e \in Events, Keep(e)
  PROVE  cur[e] \in Webhooks /\ Ledger!Keep(<<cur[e], e>>)
<1> USE DEF IInv, TypeOK
<1>1. phase[e] = "keep" /\ cur[e] \in Webhooks /\ cur[e] \in todo[e]
  BY DEF Keep, DispatchTypes, DispatchInv
<1>2. /\ Known' = Known /\ CutOff' = CutOff
      /\ <<cur[e], e>> \in Owed /\ Owed' = Owed \ {<<cur[e], e>>}
  BY <1>1, FinishPays DEF Keep
<1>3. Got' = Got /\ Closed' = Closed
  BY GotStays, ClosedStays DEF Keep, worldVars
<1>4. Held' = Held \cup {<<cur[e], e>>}
  <2>1. ASSUME NEW v \in Webhooks, NEW d \in Events
        PROVE  Kept(v, d)' <=> Kept(v, d) \/ <<v, d>> = <<cur[e], e>>
    <3> DEFINE r == [id |-> nextId, webhook |-> cur[e], event |-> e]
    <3>1. r.webhook = cur[e] /\ r.event = e /\ outbox' = outbox \cup {r}
      BY DEF Keep
    <3> HIDE DEF r
    <3> QED
      BY <3>1 DEF Kept
  <2> QED
    BY <1>1, <2>1 DEF Held, Pairs
<1> QED
  BY <1>1, <1>2, <1>3, <1>4 DEF Ledger!Keep

LEMMA PurgeGivesUp ==
  ASSUME IInv, NEW t \in Timers, Purge(t)
  PROVE  \E S \in SUBSET Pairs : Ledger!GiveUp(S)
<1> USE DEF IInv, TypeOK
<1> DEFINE rows == RowsOf(now[t])
<1> DEFINE S == {p \in Held : p[1] = now[t]}
<1>1. /\ outbox' = outbox \ rows
      /\ log' = log \cup {<<r.webhook, r.event, "webhook_outbox_dropped">> : r \in rows}
      /\ UNCHANGED <<phase, targets, todo, accepted>>
  BY DEF Purge, dispatchVars
<1>2. S \subseteq Held /\ S \cap Owed = {} /\ S \in SUBSET Pairs
  <2>1. ASSUME NEW p \in S PROVE p \notin Owed /\ p \in Pairs
    <3>1. PICK r \in outbox : r.webhook = p[1] /\ r.event = p[2]
      BY DEF Held, Kept
    <3> QED
      BY <3>1, HeldIsNotOwed DEF Held, Pairs
  <2> QED
    BY <2>1
<1>3. Held' = Held \ S
  <2>1. ASSUME NEW v \in Webhooks, NEW d \in Events
        PROVE  Kept(v, d)' <=> Kept(v, d) /\ v # now[t]
    BY <1>1 DEF Kept, RowsOf
  <2> QED
    BY <2>1 DEF Held, Pairs
<1>4. Closed' = Closed \cup S
  <2>1. ASSUME NEW v \in Webhooks, NEW d \in Events
        PROVE  GivenUp(v, d)' <=> GivenUp(v, d) \/ (Kept(v, d) /\ v = now[t])
    <3>1. (\E entry \in log' : entry[1] = v /\ entry[2] = d) <=>
             \/ \E entry \in log : entry[1] = v /\ entry[2] = d
             \/ \E r \in rows : r.webhook = v /\ r.event = d
      <4> DEFINE drops == {<<r.webhook, r.event, "webhook_outbox_dropped">> : r \in rows}
      <4>1. (\E entry \in drops : entry[1] = v /\ entry[2] = d) <=>
               \E r \in rows : r.webhook = v /\ r.event = d
        <5>1. ASSUME NEW r \in rows, r.webhook = v, r.event = d
              PROVE  \E entry \in drops : entry[1] = v /\ entry[2] = d
          <6>1. <<v, d, "webhook_outbox_dropped">> \in drops
            BY <5>1
          <6> QED
            BY <6>1
        <5>2. ASSUME NEW entry \in drops, entry[1] = v, entry[2] = d
              PROVE  \E r \in rows : r.webhook = v /\ r.event = d
          <6>1. PICK r \in rows : entry = <<r.webhook, r.event, "webhook_outbox_dropped">>
            BY DEF drops
          <6> QED
            BY <5>2, <6>1
        <5> QED
          BY <5>1, <5>2
      <4> HIDE DEF drops, rows
      <4>2. log' = log \cup drops
        BY <1>1 DEF drops
      <4> QED
        BY <4>1, <4>2
    <3> QED
      BY <3>1 DEF GivenUp, Kept, RowsOf
  <2> QED
    BY <2>1 DEF Closed, Held, Pairs
<1>5. UNCHANGED <<Known, Owed, CutOff, Got>>
  BY <1>1, KnownStays, OwedStays, GotStays
<1>6. Ledger!GiveUp(S)
  <2>1. Owed' = Owed \ S
    BY <1>2, <1>5
  <2> HIDE DEF S
  <2> QED
    BY <1>2, <1>3, <1>4, <1>5, <2>1 DEF Ledger!GiveUp
<1> QED
  BY <1>2, <1>6

\* A row that is dropped is given up on.
LEMMA DropGivesUp ==
  ASSUME IInv, NEW t \in Timers, NEW r \in outbox, Drop(t, r),
         UNCHANGED <<phase, targets, todo, accepted>>
  PROVE  <<r.webhook, r.event>> \in Pairs /\ Ledger!GiveUp({<<r.webhook, r.event>>})
<1> DEFINE p == <<r.webhook, r.event>>
<1>1. r.webhook \in Webhooks /\ r.event \in Events
  BY DEF IInv, TypeOK, TableTypes, Rows
<1>2. p \in Pairs /\ p \in Held /\ p \notin Owed
  BY <1>1, HeldIsNotOwed DEF Pairs
<1>3. Held' = Held \ {p}
  BY RowReleases DEF Drop
<1>4. Closed' = Closed \cup {p}
  BY <1>1, LogCloses DEF Drop
<1>5. UNCHANGED <<Known, Owed, CutOff, Got>>
  BY KnownStays, OwedStays, GotStays
<1>6. Owed' = Owed \ {p}
  BY <1>2, <1>5
<1> QED
  BY <1>2, <1>3, <1>4, <1>5, <1>6 DEF Ledger!GiveUp

LEMMA DropOverdueGivesUp ==
  ASSUME IInv, NEW t \in Timers, DropOverdue(t)
  PROVE  \E p \in Pairs : Ledger!GiveUp({p})
<1>1. PICK r \in rest[t] : Drop(t, r)
  BY DEF DropOverdue
<1>2. r \in outbox /\ UNCHANGED <<phase, targets, todo, accepted>>
  BY DEF IInv, DrainInv, DropOverdue, dispatchVars
<1> QED
  BY <1>1, <1>2, DropGivesUp

LEMMA ReplayLedger ==
  ASSUME IInv, NEW t \in Timers, Replay(t)
  PROVE  (\E p \in Pairs : Ledger!Take(p) \/ Ledger!GiveUp({p})) \/ Same
<1> USE DEF IInv, TypeOK
<1>1. PICK r \in rest[t], answer \in Answers :
         Reaches(r.webhook, r.event, answer) /\ Answered(t, r, answer)
  BY DEF Replay
<1>2. r \in outbox /\ UNCHANGED <<phase, targets, todo>>
  BY DEF DrainInv, Replay, dispatchVars
<1>3. r.webhook \in Webhooks /\ r.event \in Events
  BY <1>2 DEF TableTypes, Rows
<1>4. UNCHANGED <<Known, Owed, CutOff>>
  BY <1>2, KnownStays, OwedStays
<1>5. CASE answer = "ok"
  <2>1. UNCHANGED <<outbox, log>>
    BY <1>1, <1>5 DEF Answered, IsPermanentFailure, StopsReplay
  <2>2. Held' = Held /\ Closed' = Closed
    BY <2>1, HeldStays, ClosedStays
  <2>3. Got' = Got \cup {<<r.webhook, r.event>>}
    BY <1>1, <1>3, <1>5, AcceptTakes DEF Reaches
  <2>4. <<r.webhook, r.event>> \in Known /\ <<r.webhook, r.event>> \in Pairs
    BY <1>2, <1>3, HeldIsNotOwed DEF Pairs
  <2> QED
    BY <1>4, <2>2, <2>3, <2>4 DEF Ledger!Take
<1>6. CASE IsPermanentFailure(answer)
  <2>1. accepted' = accepted
    BY <1>1, <1>6 DEF Reaches, IsPermanentFailure
  <2>2. Drop(t, r)
    BY <1>1, <1>6 DEF Answered, IsPermanentFailure, StopsReplay
  <2> QED
    BY <1>2, <2>1, <2>2, DropGivesUp
<1>7. CASE answer # "ok" /\ ~IsPermanentFailure(answer)
  <2>1. UNCHANGED <<accepted, outbox, log>>
    BY <1>1, <1>7 DEF Reaches, Answered
  <2> QED
    BY <1>4, <2>1, GotStays, HeldStays, ClosedStays DEF Same
<1> QED
  BY <1>5, <1>6, <1>7

LEMMA DeleteDeliveredSettles ==
  ASSUME IInv, NEW t \in Timers, DeleteDelivered(t)
  PROVE  \E p \in Pairs : Ledger!Settle(p)
<1> USE DEF IInv, TypeOK
<1>1. PICK r \in rest[t] : IsOldest(r, rest[t]) /\ outbox' = outbox \ {r}
  BY DEF DeleteDelivered
<1>2. r \in outbox /\ Taken(r.webhook, r.event)
  BY <1>1 DEF DrainInv, DeleteDelivered
<1>3. UNCHANGED <<Known, Owed, CutOff, Got, Closed>>
  BY KnownStays, OwedStays, GotStays, ClosedStays DEF DeleteDelivered, dispatchVars, worldVars
<1>4. <<r.webhook, r.event>> \in Held \cap Got /\ <<r.webhook, r.event>> \in Pairs
  BY <1>2, HeldIsNotOwed DEF TableTypes, Rows, Got, Pairs
<1>5. Held' = Held \ {<<r.webhook, r.event>>}
  BY <1>1, <1>2, RowReleases
<1> QED
  BY <1>3, <1>4, <1>5 DEF Ledger!Settle

LEMMA LateAcceptTakes ==
  ASSUME IInv, NEW w \in Webhooks, NEW e \in Events, LateAccept(w, e)
  PROVE  Ledger!Take(<<w, e>>)
<1>1. <<w, e>> \in Known
  BY DEF IInv, LateInv, LateAccept, Known, Pairs
<1>2. Got' = Got \cup {<<w, e>>}
  BY AcceptTakes DEF LateAccept, IInv, TypeOK
<1>3. UNCHANGED <<Known, Owed, CutOff, Held, Closed>>
  BY KnownStays, OwedStays, HeldStays, ClosedStays DEF LateAccept, dispatchVars, tableVars
<1> QED
  BY <1>1, <1>2, <1>3 DEF Ledger!Take

LEMMA ProcessEndsCrashes ==
  ASSUME IInv, ProcessEnds
  PROVE  Ledger!Crash
<1> USE DEF IInv, TypeOK
<1>1. ASSUME NEW v \in Webhooks, NEW d \in Events
      PROVE  ~InHand(d, v)' /\ (Lost(d, v)' <=> Lost(d, v) \/ InHand(d, v))
  BY DEF ProcessEnds, InHand, Lost, DispatchTypes
<1>2. Owed' = {} /\ CutOff' = CutOff \cup Owed
  BY <1>1 DEF Owed, CutOff, Pairs
<1>3. UNCHANGED <<Known, Held, Got, Closed>>
  BY KnownStays, HeldStays, GotStays, ClosedStays DEF ProcessEnds, tableVars, worldVars
<1> QED
  BY <1>2, <1>3 DEF Ledger!Crash

-----------------------------------------------------------------------------
(* The actions that leave the ledger alone. *)

LEMMA CheckPendingSame ==
  ASSUME IInv, NEW e \in Events, NEW w \in Webhooks, CheckPending(e, w)
  PROVE  Same
<1>1. ASSUME NEW v \in Webhooks, NEW d \in Events
      PROVE  (InHand(d, v)' <=> InHand(d, v)) /\ (Lost(d, v)' <=> Lost(d, v))
  BY DEF CheckPending, InHand, Lost, IInv, TypeOK, DispatchTypes
<1>2. Owed' = Owed /\ CutOff' = CutOff
  BY <1>1 DEF Owed, CutOff, Pairs
<1> QED
  BY <1>2, KnownStays, HeldStays, GotStays, ClosedStays
     DEF Same, CheckPending, tableVars, worldVars

LEMMA QuietSame ==
  ASSUME UNCHANGED <<phase, todo, targets, outbox, accepted, log>>
  PROVE  Same
  BY KnownStays, OwedStays, HeldStays, GotStays, ClosedStays DEF Same

LEMMA DrainQuiet ==
  ASSUME NEW t \in Timers,
         \/ StartDrain(t) \/ (\E w \in Webhooks : LoadBatch(t, w)) \/ DeleteFails(t)
         \/ CountPending(t) \/ TellRecovery(t) \/ TellOutage(t) \/ DrainFails(t)
  PROVE  Same
<1>1. UNCHANGED <<phase, todo, targets, outbox, accepted, log>>
  BY DEF StartDrain, LoadBatch, DeleteFails, CountPending, TellRecovery, TellOutage,
         DrainFails, dispatchVars, tableVars, worldVars
<1> QED
  BY <1>1, QuietSame

-----------------------------------------------------------------------------
(* The theorems. *)

LEMMA InitLedger == Init => Ledger!Init
  BY DEF Init, Ledger!Init, Known, Owed, Held, Got, Closed, CutOff, InHand, Kept, Taken,
         Copies, GivenUp, Lost, Pairs

LEMMA NextLedger == IInv /\ [Next]_vars => [Ledger!Next]_(Ledger!vars)
<1> SUFFICES ASSUME IInv, [Next]_vars PROVE Same \/ Ledger!Next
  BY DEF Same, Ledger!vars
<1>1. ASSUME NEW e \in Events, Receive(e) PROVE Ledger!Next
  BY <1>1, ReceiveOwes DEF Ledger!Next, Ledger!AllPairs, Pairs
<1>2. ASSUME NEW p \in Pairs,
             Ledger!GiveUp({p}) \/ Ledger!Take(p) \/ Ledger!Settle(p) \/ Ledger!Keep(p)
      PROVE  Ledger!Next
  BY <1>2 DEF Ledger!Next, Ledger!AllPairs, Pairs
<1>3. ASSUME NEW e \in Events, DispatchStep(e) PROVE Same \/ Ledger!Next
  <2>1. ASSUME NEW w \in Webhooks, CancelByPlugin(e, w) PROVE Ledger!Next
    <3>1. <<w, e>> \in Pairs
      BY DEF Pairs
    <3> QED
      BY <1>2, <2>1, <3>1, CancelByPluginGivesUp
  <2>2. ASSUME Post(e) PROVE Same \/ Ledger!Next
    <3>1. <<cur[e], e>> \in Pairs
      BY <2>2 DEF Post, IInv, TypeOK, DispatchTypes, DispatchInv, Pairs
    <3> QED
      BY <1>2, <2>2, <3>1, PostLedger
  <2>3. ASSUME PostUnrecorded(e) \/ Keep(e) PROVE Ledger!Next
    <3>1. <<cur[e], e>> \in Pairs
      BY <2>3, PostUnrecordedTakes, KeepKeeps DEF Pairs
    <3> QED
      BY <1>2, <2>3, <3>1, PostUnrecordedTakes, KeepKeeps
  <2> QED
    BY <1>3, <2>1, <2>2, <2>3, CheckPendingSame DEF DispatchStep
<1>4. ASSUME NEW t \in Timers, StartDrain(t) \/ DrainStep(t) PROVE Same \/ Ledger!Next
  <2>1. ASSUME Purge(t) PROVE Ledger!Next
    BY <2>1, PurgeGivesUp DEF Ledger!Next, Ledger!AllPairs, Pairs
  <2>2. ASSUME DropOverdue(t) \/ Replay(t) \/ DeleteDelivered(t) PROVE Same \/ Ledger!Next
    BY <1>2, <2>2, DropOverdueGivesUp, ReplayLedger, DeleteDeliveredSettles
  <2> QED
    BY <1>4, <2>1, <2>2, DrainQuiet DEF DrainStep
<1>5. ASSUME NEW w \in Webhooks, NEW e \in Events, LateAccept(w, e) PROVE Ledger!Next
  <2>1. <<w, e>> \in Pairs
    BY DEF Pairs
  <2> QED
    BY <1>2, <1>5, <2>1, LateAcceptTakes
<1>6. ASSUME RowAges \/ \E w \in Webhooks, new \in {"active", "inactive", "deleted"} :
                           UpdateWebhook(w, new)
      PROVE  Same
  <2>1. UNCHANGED <<phase, todo, targets, outbox, accepted, log>>
    BY <1>6 DEF RowAges, UpdateWebhook, dispatchVars, tableVars, worldVars
  <2> QED
    BY <2>1, QuietSame
<1>7. ASSUME ProcessEnds PROVE Ledger!Next
  BY <1>7, ProcessEndsCrashes DEF Ledger!Next
<1>8. CASE UNCHANGED vars
  BY <1>8, QuietSame DEF vars, dispatchVars, tableVars, worldVars
<1> QED
  BY <1>1, <1>3, <1>4, <1>5, <1>6, <1>7, <1>8 DEF Next

\* The ledger's pairs are always ones that were found.
THEOREM LedgerTypes == Ledger!Spec => []Ledger!TypeOK
<1>1. Ledger!Init => Ledger!TypeOK
  BY DEF Ledger!Init, Ledger!TypeOK
<1>2. Ledger!TypeOK /\ [Ledger!Next]_Ledger!vars => Ledger!TypeOK'
  <2> SUFFICES ASSUME Ledger!TypeOK, [Ledger!Next]_Ledger!vars PROVE Ledger!TypeOK'
    OBVIOUS
  <2> USE DEF Ledger!TypeOK
  <2>1. CASE \E S \in SUBSET Ledger!AllPairs : Ledger!Owe(S)
    BY <2>1 DEF Ledger!Owe
  <2>2. CASE \E S \in SUBSET Ledger!AllPairs : Ledger!GiveUp(S)
    BY <2>2 DEF Ledger!GiveUp
  <2>3. CASE \E p \in Ledger!AllPairs : Ledger!Keep(p) \/ Ledger!Take(p) \/ Ledger!Settle(p)
    BY <2>3 DEF Ledger!Keep, Ledger!Take, Ledger!Settle
  <2>4. CASE Ledger!Crash
    BY <2>4 DEF Ledger!Crash
  <2>5. CASE UNCHANGED Ledger!vars
    BY <2>5 DEF Ledger!vars
  <2> QED
    BY <2>1, <2>2, <2>3, <2>4, <2>5 DEF Ledger!Next
<1> QED
  BY <1>1, <1>2, PTL DEF Ledger!Spec

\* No pair is ever forgotten: whatever implements the ledger loses an event
\* only in a crash, and says so otherwise.
THEOREM LedgerLosesNothing == Ledger!Spec => []Ledger!NoSilentLoss
<1>1. Ledger!Init => Ledger!NoSilentLoss
  BY DEF Ledger!Init, Ledger!NoSilentLoss
<1>2. Ledger!NoSilentLoss /\ [Ledger!Next]_Ledger!vars => Ledger!NoSilentLoss'
  <2> SUFFICES ASSUME Ledger!NoSilentLoss, [Ledger!Next]_Ledger!vars PROVE Ledger!NoSilentLoss'
    OBVIOUS
  <2> USE DEF Ledger!NoSilentLoss
  <2>1. CASE \E S \in SUBSET Ledger!AllPairs : Ledger!Owe(S)
    BY <2>1 DEF Ledger!Owe
  <2>2. CASE \E S \in SUBSET Ledger!AllPairs : Ledger!GiveUp(S)
    BY <2>2 DEF Ledger!GiveUp
  <2>3. CASE \E p \in Ledger!AllPairs : Ledger!Keep(p) \/ Ledger!Take(p) \/ Ledger!Settle(p)
    BY <2>3 DEF Ledger!Keep, Ledger!Take, Ledger!Settle
  <2>4. CASE Ledger!Crash
    BY <2>4 DEF Ledger!Crash
  <2>5. CASE UNCHANGED Ledger!vars
    BY <2>5 DEF Ledger!vars
  <2> QED
    BY <2>1, <2>2, <2>3, <2>4, <2>5 DEF Ledger!Next
<1> QED
  BY <1>1, <1>2, PTL DEF Ledger!Spec

\* The gateway keeps the ledger's promises: whatever dispatch(), the drain, the
\* endpoint, the admin and the end of the process do, in any order.
THEOREM DeliveryRefinesLedger == Spec => ImplementsLedger
<1>1. Init => Ledger!Init
  BY InitLedger
<1>2. IInv /\ [Next]_vars => [Ledger!Next]_(Ledger!vars)
  BY NextLedger
<1> QED
  BY <1>1, <1>2, DeliveryInvariant, PTL DEF Spec, ImplementsLedger, Ledger!Spec

\* Every event a webhook was to get is still in hand, kept, taken in, logged as
\* given up on, or was cut off by the end of the process.
THEOREM DeliveryLosesNothing == Spec => []NoSilentLoss
<1>1. Ledger!Spec => []Ledger!NoSilentLoss
  BY LedgerLosesNothing
<1> QED
  BY <1>1, DeliveryRefinesLedger, PTL DEF ImplementsLedger, NoSilentLoss

-----------------------------------------------------------------------------
(* The order of a replay. *)

\* The batch that is replayed holds the oldest rows of its webhook, but for those that are gone;
\* what is kept meanwhile is younger.
BatchInv ==
    /\ IsFiniteSet(outbox)
    /\ \A t \in Timers : step[t] \in {"replay", "delete"} =>
          /\ rest[t] \subseteq entries[t]
          /\ \A r \in entries[t] :
                /\ r.webhook = now[t] /\ r.id < nextId
                /\ \A q \in outbox : q.webhook = r.webhook /\ q.id < r.id => q \in entries[t]

\* Rows go, and a replay that goes on has its batch still.
Narrows ==
    /\ outbox' \subseteq outbox /\ nextId' = nextId
    /\ \A t \in Timers : step'[t] \in {"replay", "delete"} =>
          /\ step[t] \in {"replay", "delete"} /\ rest'[t] \subseteq rest[t]
          /\ entries'[t] = entries[t] /\ now'[t] = now[t]

LEMMA BatchNarrows == ASSUME BatchInv, Narrows PROVE BatchInv'
<1>1. IsFiniteSet(outbox')
  BY FS_Subset DEF BatchInv, Narrows
<1>2. ASSUME NEW t \in Timers, step'[t] \in {"replay", "delete"}
      PROVE  /\ rest'[t] \subseteq entries'[t]
             /\ \A r \in entries'[t] :
                   /\ r.webhook = now'[t] /\ r.id < nextId'
                   /\ \A q \in outbox' : q.webhook = r.webhook /\ q.id < r.id => q \in entries'[t]
  BY <1>2 DEF BatchInv, Narrows
<1> QED
  BY <1>1, <1>2 DEF BatchInv

\* The drain does not move.
LEMMA StillNarrows ==
  ASSUME UNCHANGED <<drainVars, outbox, nextId>> PROVE Narrows
  BY DEF Narrows, drainVars

\* The drain of tick t leaves its replay, or goes on with less of it.
LEMMA StepNarrows ==
  ASSUME DrainTypes, NEW t \in Timers, NEW s, NEW some, some \subseteq rest[t],
         step' = [step EXCEPT ![t] = s], rest' = [rest EXCEPT ![t] = some],
         s \in {"replay", "delete"} => step[t] \in {"replay", "delete"} /\ UNCHANGED <<entries, now>>,
         \A u \in Timers : u # t => entries'[u] = entries[u] /\ now'[u] = now[u],
         outbox' \subseteq outbox, nextId' = nextId
  PROVE  Narrows
  BY DEF Narrows, DrainTypes

\* The drain of tick t leaves its replay.
LEMMA LeaveNarrows ==
  ASSUME DrainTypes, NEW t \in Timers, NEW s, s \notin {"replay", "delete"},
         step' = [step EXCEPT ![t] = s], rest' = [rest EXCEPT ![t] = {}],
         \A u \in Timers : u # t => entries'[u] = entries[u] /\ now'[u] = now[u],
         outbox' \subseteq outbox, nextId' = nextId
  PROVE  Narrows
  BY DEF Narrows, DrainTypes

\* What is kept is younger than what is replayed.
LEMMA KeepBatch == ASSUME IInv, BatchInv, NEW e \in Events, Keep(e) PROVE BatchInv'
<1> SUFFICES ASSUME NEW row, row = [id |-> nextId, webhook |-> cur[e], event |-> e] PROVE BatchInv'
  OBVIOUS
<1>1. /\ outbox' = outbox \cup {row} /\ nextId' = nextId + 1 /\ UNCHANGED <<step, rest, entries, now>>
      /\ row.id = nextId /\ nextId \in Nat
  BY DEF Keep, drainVars, IInv, TypeOK, TableTypes
<1>2. IsFiniteSet(outbox')
  <2>1. IsFiniteSet(outbox)
    BY DEF BatchInv
  <2>2. IsFiniteSet(outbox \cup {row})
    BY <2>1, FS_AddElement
  <2> QED
    BY <1>1, <2>2
<1>3. ASSUME NEW t \in Timers, step'[t] \in {"replay", "delete"}
      PROVE  /\ rest'[t] \subseteq entries'[t]
             /\ \A r \in entries'[t] :
                   /\ r.webhook = now'[t] /\ r.id < nextId'
                   /\ \A q \in outbox' : q.webhook = r.webhook /\ q.id < r.id => q \in entries'[t]
  <2>1. \A r \in entries[t] : r.id \in Nat
    BY DEF IInv, TypeOK, DrainTypes, Rows
  <2> QED
    BY <1>1, <1>3, <2>1 DEF BatchInv
<1> QED
  BY <1>2, <1>3 DEF BatchInv

\* The batch has all that is older than one of its rows.
LEMMA BatchIsOldest ==
  ASSUME IInv, IsFiniteSet(outbox), NEW w, NEW r \in Batch(w), NEW q \in RowsOf(w), q.id < r.id
  PROVE  q \in Batch(w)
<1> DEFINE Older(x) == {y \in RowsOf(w) : y.id < x.id}
<1>1. RowsOf(w) \subseteq outbox /\ \A x \in RowsOf(w) : x.id \in Nat
  BY DEF RowsOf, IInv, TypeOK, TableTypes, Rows
<1>2. IsFiniteSet(Older(r)) /\ IsFiniteSet(Older(q)) /\ Older(q) \subseteq Older(r)
  <2>1. r \in RowsOf(w)
    BY DEF Batch
  <2>2. Older(r) \subseteq outbox /\ Older(q) \subseteq outbox /\ Older(q) \subseteq Older(r)
    BY <1>1, <2>1
  <2> QED
    BY <2>2, FS_Subset
<1>3. Cardinality(Older(q)) <= Cardinality(Older(r))
  BY <1>2, FS_Subset
<1>4. Cardinality(Older(q)) \in Nat /\ Cardinality(Older(r)) \in Nat
  BY <1>2, FS_CardinalityType
<1>5. Cardinality(Older(r)) < BatchSize /\ BatchSize \in Nat
  BY DeliveryAssumption DEF Batch
<1>6. Cardinality(Older(q)) < BatchSize
  BY <1>3, <1>4, <1>5
<1> QED
  BY <1>6 DEF Batch

LEMMA LoadBatchBatch ==
  ASSUME IInv, BatchInv, NEW t \in Timers, NEW w \in Webhooks, LoadBatch(t, w) PROVE BatchInv'
<1>1. /\ outbox' = outbox /\ nextId' = nextId /\ IsFiniteSet(outbox)
      /\ now'[t] = w /\ entries'[t] = Batch(w) /\ rest'[t] = Batch(w)
      /\ \A u \in Timers \ {t} : /\ now'[u] = now[u] /\ entries'[u] = entries[u]
                                 /\ rest'[u] = rest[u] /\ step'[u] = step[u]
  BY DEF LoadBatch, tableVars, BatchInv, IInv, TypeOK, DrainTypes
<1>2. ASSUME NEW r \in Batch(w)
      PROVE  /\ r.webhook = w /\ r.id < nextId
             /\ \A q \in outbox : q.webhook = r.webhook /\ q.id < r.id => q \in Batch(w)
  <2>1. r \in outbox /\ r.webhook = w
    BY DEF Batch, RowsOf
  <2> QED
    BY <1>1, <2>1, BatchIsOldest DEF IInv, RowsInv, RowsOf
<1>3. ASSUME NEW u \in Timers, step'[u] \in {"replay", "delete"}
      PROVE  /\ rest'[u] \subseteq entries'[u]
             /\ \A r \in entries'[u] :
                   /\ r.webhook = now'[u] /\ r.id < nextId'
                   /\ \A q \in outbox' : q.webhook = r.webhook /\ q.id < r.id => q \in entries'[u]
  <2>1. CASE u = t
    BY <1>1, <1>2, <2>1
  <2>2. CASE u # t
    BY <1>1, <1>3, <2>2 DEF BatchInv
  <2> QED
    BY <2>1, <2>2
<1> QED
  BY <1>1, <1>3 DEF BatchInv

LEMMA EndOrNextNarrows ==
  ASSUME DrainTypes, NEW t \in Timers, EndOrNext(t), outbox' \subseteq outbox, nextId' = nextId
  PROVE  Narrows
<1>1. PICK s \in {"idle", "next"} : step' = [step EXCEPT ![t] = s]
  BY DEF EndOrNext
<1>2. /\ rest' = [rest EXCEPT ![t] = {}]
      /\ \A u \in Timers : u # t => entries'[u] = entries[u] /\ now'[u] = now[u]
  BY DEF EndOrNext, DrainTypes
<1> QED
  BY <1>1, <1>2, LeaveNarrows

LEMMA AdvanceNarrows ==
  ASSUME DrainTypes, NEW t \in Timers, step[t] \in {"replay", "delete"}, NEW r \in rest[t],
         Advance(t, r), outbox' \subseteq outbox, UNCHANGED <<entries, now, nextId>>
  PROVE  Narrows
<1>1. PICK s : step' = [step EXCEPT ![t] = s]
  BY DEF Advance
<1>2. rest' = [rest EXCEPT ![t] = rest[t] \ {r}]
  BY DEF Advance
<1> QED
  BY <1>1, <1>2, StepNarrows

LEMMA ReplayNarrows ==
  ASSUME IInv, NEW t \in Timers, Replay(t) PROVE Narrows
<1>1. PICK r \in rest[t], answer \in Answers : Answered(t, r, answer)
  BY DEF Replay
<1>2. step[t] = "replay" /\ UNCHANGED <<entries, now, nextId>> /\ DrainTypes
  BY DEF Replay, IInv, TypeOK
<1>3. CASE Drop(t, r)
  BY <1>2, <1>3, AdvanceNarrows DEF Drop
<1>4. CASE Advance(t, r) /\ UNCHANGED outbox
  BY <1>2, <1>4, AdvanceNarrows
<1>5. CASE step' = [step EXCEPT ![t] = "delete"] /\ UNCHANGED <<outbox, rest>>
  <2>1. rest' = [rest EXCEPT ![t] = rest[t]]
    BY <1>2, <1>5 DEF DrainTypes
  <2> QED
    BY <1>2, <1>5, <2>1, StepNarrows
<1>6. CASE /\ rest' = [rest EXCEPT ![t] = {}] /\ step' = [step EXCEPT ![t] = "count"]
           /\ UNCHANGED outbox
  BY <1>2, <1>6, LeaveNarrows
<1> QED
  BY <1>1, <1>3, <1>4, <1>5, <1>6 DEF Answered

LEMMA DrainNarrows ==
  ASSUME IInv, NEW t \in Timers, DrainStep(t), ~\E w \in Webhooks : LoadBatch(t, w) PROVE Narrows
<1>1. DrainTypes
  BY DEF IInv, TypeOK
<1>2. CASE Purge(t)
  <2>1. /\ step' = [step EXCEPT ![t] = "count"] /\ outbox' \subseteq outbox
        /\ UNCHANGED <<entries, now, rest, nextId>>
    BY <1>2 DEF Purge
  <2>2. rest' = [rest EXCEPT ![t] = rest[t]]
    BY <1>1, <2>1 DEF DrainTypes
  <2> QED
    BY <1>1, <2>1, <2>2, StepNarrows
<1>3. CASE DropOverdue(t)
  BY <1>1, <1>3, AdvanceNarrows DEF DropOverdue, Drop
<1>4. CASE Replay(t)
  BY <1>4, ReplayNarrows
<1>5. CASE DeleteDelivered(t)
  BY <1>1, <1>5, AdvanceNarrows DEF DeleteDelivered
<1>6. CASE DeleteFails(t)
  <2>1. /\ step' = [step EXCEPT ![t] = "count"] /\ rest' = [rest EXCEPT ![t] = {}]
        /\ UNCHANGED <<entries, now, outbox, nextId>>
    BY <1>6 DEF DeleteFails, tableVars
  <2> QED
    BY <1>1, <2>1, LeaveNarrows
<1>7. CASE CountPending(t)
  <2>1. UNCHANGED <<outbox, nextId>>
    BY <1>7 DEF CountPending, tableVars
  <2>2. CASE EndOrNext(t)
    BY <1>1, <2>1, <2>2, EndOrNextNarrows
  <2>3. CASE step' = [step EXCEPT ![t] = "tell"] /\ UNCHANGED <<now, entries, rest>>
    <3>1. rest' = [rest EXCEPT ![t] = rest[t]]
      BY <1>1, <2>3 DEF DrainTypes
    <3> QED
      BY <1>1, <2>1, <2>3, <3>1, StepNarrows
  <2> QED
    BY <1>7, <2>2, <2>3 DEF CountPending
<1>8. CASE TellRecovery(t) \/ TellOutage(t)
  BY <1>1, <1>8, EndOrNextNarrows DEF TellRecovery, TellOutage, tableVars
<1>9. CASE DrainFails(t)
  <2>1. /\ step' = [step EXCEPT ![t] = "idle"] /\ rest' = [rest EXCEPT ![t] = {}]
        /\ outbox' = outbox /\ nextId' = nextId
        /\ \A u \in Timers : u # t => entries'[u] = entries[u] /\ now'[u] = now[u]
    BY <1>1, <1>9 DEF DrainFails, tableVars, DrainTypes
  <2> QED
    BY <1>1, <2>1, LeaveNarrows
<1> QED
  BY <1>2, <1>3, <1>4, <1>5, <1>6, <1>7, <1>8, <1>9 DEF DrainStep

LEMMA BatchStep == IInv /\ BatchInv /\ [Next]_vars => BatchInv'
<1> SUFFICES ASSUME IInv, BatchInv, [Next]_vars PROVE BatchInv'
  OBVIOUS
<1>1. ASSUME NEW e \in Events, Keep(e) PROVE BatchInv'
  BY <1>1, KeepBatch
<1>2. ASSUME NEW t \in Timers, DrainStep(t) PROVE BatchInv'
  BY <1>2, LoadBatchBatch, DrainNarrows, BatchNarrows
<1>3. CASE UNCHANGED <<drainVars, outbox, nextId>>
  BY <1>3, StillNarrows, BatchNarrows
<1>4. ASSUME NEW e \in Events, Receive(e) PROVE BatchInv'
  BY <1>3, <1>4 DEF Receive, tableVars
<1>5. ASSUME NEW e \in Events, NEW w \in Webhooks, CancelByPlugin(e, w) \/ CheckPending(e, w)
      PROVE  BatchInv'
  BY <1>3, <1>5 DEF CancelByPlugin, CheckPending, tableVars
<1>6. ASSUME NEW e \in Events, Post(e) \/ PostUnrecorded(e) PROVE BatchInv'
  BY <1>3, <1>6 DEF Post, PostUnrecorded, tableVars
<1>7. ASSUME NEW t \in Timers, StartDrain(t) PROVE BatchInv'
  <2>1. step' = [step EXCEPT ![t] = "next"] /\ UNCHANGED <<rest, entries, now, outbox, nextId>>
    BY <1>7 DEF StartDrain, tableVars
  <2>2. rest' = [rest EXCEPT ![t] = rest[t]] /\ DrainTypes
    BY <2>1 DEF IInv, TypeOK, DrainTypes
  <2> QED
    BY <2>1, <2>2, StepNarrows, BatchNarrows
<1>8. ASSUME NEW w \in Webhooks, NEW e \in Events, LateAccept(w, e) PROVE BatchInv'
  BY <1>3, <1>8 DEF LateAccept, tableVars
<1>9. ASSUME NEW w \in Webhooks, NEW new \in {"active", "inactive", "deleted"},
             UpdateWebhook(w, new)
      PROVE  BatchInv'
  BY <1>3, <1>9 DEF UpdateWebhook, tableVars
<1>10. CASE RowAges
  BY <1>3, <1>10 DEF RowAges
<1>11. CASE ProcessEnds
  <2>1. Narrows
    BY <1>11 DEF ProcessEnds, tableVars, Narrows
  <2> QED
    BY <2>1, BatchNarrows
<1>12. CASE UNCHANGED vars
  BY <1>3, <1>12 DEF vars, tableVars
<1> QED
  BY <1>1, <1>2, <1>4, <1>5, <1>6, <1>7, <1>8, <1>9, <1>10, <1>11, <1>12 DEF Next, DispatchStep

LEMMA BatchInit == Init => BatchInv
  BY FS_EmptySet DEF Init, BatchInv

\* A row is replayed with a 2xx only after every older row of its webhook was tried in the pass
\* (webhook-outbox.service.ts:146-200).
THEOREM ReplayIsOldestFirst == Spec => ReplayOldestFirst
<1> DEFINE Tried(t) == step[t] = "replay" /\ step'[t] = "delete" =>
             \A r \in rest[t], q \in outbox :
                IsOldest(r, rest[t]) /\ q.webhook = r.webhook /\ q.id < r.id =>
                   q \in entries[t] \ rest[t]
<1>1. ASSUME IInv, BatchInv PROVE \A t \in Timers : Tried(t)
  <2> SUFFICES ASSUME NEW t \in Timers, step[t] = "replay", NEW r \in rest[t], NEW q \in outbox,
                      IsOldest(r, rest[t]), q.webhook = r.webhook, q.id < r.id
               PROVE  q \in entries[t] \ rest[t]
    OBVIOUS
  <2>1. r \in entries[t] /\ q \in entries[t]
    BY <1>1 DEF BatchInv
  <2>2. q.id \in Nat /\ r.id \in Nat
    BY <1>1, <2>1 DEF IInv, TypeOK, DrainTypes, Rows
  <2>3. q \notin rest[t]
    BY <2>2 DEF IsOldest
  <2> QED
    BY <2>1, <2>3
<1>2. IInv /\ BatchInv => [\A t \in Timers : Tried(t)]_vars
  BY <1>1
<1>3. Init => IInv /\ BatchInv
  BY InitIInv, BatchInit
<1>4. IInv /\ BatchInv /\ [Next]_vars => IInv' /\ BatchInv'
  BY NextIInv, BatchStep
<1> QED
  BY <1>2, <1>3, <1>4, PTL DEF Spec, ReplayOldestFirst

-----------------------------------------------------------------------------
(* How often an event can come. *)

\* The row that the drain has delivered and is about to delete.
Settling(r) == \E t \in Timers : step[t] = "delete" /\ r \in rest[t] /\ IsOldest(r, rest[t])

\* The event will still be sent to the webhook, if nothing goes wrong.
Open(w, e) ==
    \/ phase[e] = "new" \/ InHand(e, w)
    \/ \E r \in outbox : r.webhook = w /\ r.event = e /\ ~Settling(r)

\* 1 for what holds, to count with.
One(holds) == IF holds THEN 1 ELSE 0

\* The copies that have come, the one that will be sent and the one that is late are not more
\* than one and those that something that went wrong accounts for.
CopiesInv ==
    \A w \in Webhooks, e \in Events :
        Cardinality(Copies(w, e)) + One(Open(w, e)) + One(<<w, e>> \in late) <= 1 + faults + restarts

\* No event is about to be sent to a webhook that was not before.
NoneOpens == \A w \in Webhooks, e \in Events : Open(w, e)' => Open(w, e)

\* Something goes wrong, and a bound is spent on it.
GoesWrong == \/ faults' = faults + 1 /\ restarts' = restarts
             \/ faults' = faults /\ restarts' = restarts + 1

LEMMA CopiesFinite ==
  ASSUME WorldTypes, NEW w \in Webhooks, NEW e \in Events
  PROVE  /\ IsFiniteSet(Copies(w, e)) /\ Cardinality(Copies(w, e)) \in Nat
         /\ Len(accepted[w]) + 1 \notin Copies(w, e)
<1>1. accepted[w] \in Seq(Events)
  BY DEF WorldTypes
<1>2. Len(accepted[w]) \in Nat /\ DOMAIN accepted[w] = 1..Len(accepted[w])
  BY <1>1
<1>3. Copies(w, e) \subseteq 1..Len(accepted[w])
  BY <1>2 DEF Copies
<1>4. IsFiniteSet(1..Len(accepted[w]))
  BY <1>2, FS_Interval
<1>5. IsFiniteSet(Copies(w, e))
  BY <1>3, <1>4, FS_Subset
<1>6. Cardinality(Copies(w, e)) \in Nat
  BY <1>5, FS_CardinalityType
<1> QED
  BY <1>2, <1>3, <1>5, <1>6

\* The endpoint takes one event in: one copy more of that one.
LEMMA AcceptCopies ==
  ASSUME WorldTypes, NEW w \in Webhooks, NEW e \in Events, Accept(w, e),
         NEW v \in Webhooks, NEW d \in Events
  PROVE  Cardinality(Copies(v, d))' =
            Cardinality(Copies(v, d)) + (IF <<v, d>> = <<w, e>> THEN 1 ELSE 0)
<1> DEFINE k == Len(accepted[v]) + 1
<1>1. /\ accepted[w] \in Seq(Events) /\ accepted[v] \in Seq(Events)
      /\ accepted' = [accepted EXCEPT ![w] = Append(accepted[w], e)]
  BY DEF Accept, WorldTypes
<1>2. Cardinality(Copies(v, d)) \in Nat /\ IsFiniteSet(Copies(v, d)) /\ k \notin Copies(v, d)
  BY CopiesFinite
<1>3. CASE v # w
  <2>1. Copies(v, d)' = Copies(v, d)
    BY <1>1, <1>3 DEF Copies, WorldTypes
  <2> QED
    BY <1>2, <1>3, <2>1
<1>4. CASE v = w
  <2>1. accepted'[v] = Append(accepted[v], e)
    BY <1>1, <1>4 DEF WorldTypes
  <2>2. /\ DOMAIN accepted'[v] = 1..(Len(accepted[v]) + 1)
        /\ DOMAIN accepted[v] = 1..Len(accepted[v])
        /\ \A i \in 1..Len(accepted[v]) : accepted'[v][i] = accepted[v][i]
        /\ accepted'[v][Len(accepted[v]) + 1] = e
        /\ Len(accepted[v]) \in Nat
    BY <1>1, <2>1
  <2>3. 1..(Len(accepted[v]) + 1) = (1..Len(accepted[v])) \cup {k}
    BY <2>2
  <2>4. Copies(v, d) = {i \in 1..Len(accepted[v]) : accepted[v][i] = d}
    BY <2>2 DEF Copies
  <2>5. Copies(v, d)' = {i \in 1..(Len(accepted[v]) + 1) : accepted'[v][i] = d}
    BY <2>2 DEF Copies
  <2>6. CASE d = e
    <3>1. Copies(v, d)' = Copies(v, d) \cup {k}
      BY <2>2, <2>3, <2>4, <2>5, <2>6
    <3>2. Cardinality(Copies(v, d) \cup {k}) = Cardinality(Copies(v, d)) + 1
      BY <1>2, FS_AddElement
    <3> QED
      BY <1>4, <2>6, <3>1, <3>2
  <2>7. CASE d # e
    <3>1. Copies(v, d)' = Copies(v, d)
      BY <2>2, <2>3, <2>4, <2>5, <2>7
    <3> QED
      BY <1>2, <2>7, <3>1
  <2> QED
    BY <2>6, <2>7
<1> QED
  BY <1>3, <1>4

\* Nothing comes and nothing is about to be sent that was not.
LEMMA CopiesQuiet ==
  ASSUME IInv, CopiesInv, NoneOpens, UNCHANGED <<accepted, late, faults, restarts>>
  PROVE  CopiesInv'
<1> SUFFICES ASSUME NEW w \in Webhooks, NEW e \in Events
             PROVE  (Cardinality(Copies(w, e)) + One(Open(w, e)) + One(<<w, e>> \in late)
                       <= 1 + faults + restarts)'
  BY DEF CopiesInv
<1>1. Cardinality(Copies(w, e))' = Cardinality(Copies(w, e)) /\ Cardinality(Copies(w, e)) \in Nat
  BY CopiesFinite DEF Copies, IInv, TypeOK
<1>2. Cardinality(Copies(w, e)) + One(Open(w, e)) + One(<<w, e>> \in late) <= 1 + faults + restarts
  BY DEF CopiesInv
<1>3. Open(w, e)' => Open(w, e)
  BY DEF NoneOpens
<1>4. faults \in Nat /\ restarts \in Nat /\ faults' \in Nat /\ restarts' \in Nat
  BY DEF IInv, TypeOK, WorldTypes
<1>5. SUFFICES ASSUME NEW o \in {0, 1}, NEW p \in {0, 1}, NEW l \in {0, 1}, NEW m \in {0, 1},
                      NEW c \in Nat, NEW k \in Nat, NEW f \in Nat, NEW g \in Nat,
                      NEW r \in Nat, NEW q \in Nat,
                      o = One(Open(w, e)), p = One(Open(w, e))', l = One(<<w, e>> \in late),
                      m = One(<<w, e>> \in late)', c = Cardinality(Copies(w, e)),
                      k = Cardinality(Copies(w, e))', f = faults, g = faults',
                      r = restarts, q = restarts'
               PROVE  k + p + m <= 1 + g + q
  <2>1. One(Open(w, e)) \in {0, 1} /\ One(Open(w, e))' \in {0, 1}
    BY DEF One
  <2>2. One(<<w, e>> \in late) \in {0, 1} /\ One(<<w, e>> \in late)' \in {0, 1}
    BY DEF One
  <2>3. Cardinality(Copies(w, e)) \in Nat /\ Cardinality(Copies(w, e))' \in Nat
    BY <1>1
  <2> QED
    BY <1>4, <2>1, <2>2, <2>3
<1>6. c + o + l <= 1 + f + r
  BY <1>2, <1>4, <1>5
<1>7. k = c /\ p <= o /\ m = l /\ g = f /\ q = r
  BY <1>1, <1>3, <1>5 DEF One
<1> QED
  BY <1>6, <1>7

\* Something goes wrong: an event is about to be sent once more, or a request of it is late.
LEMMA CopiesPaid ==
  ASSUME IInv, CopiesInv, accepted' = accepted, GoesWrong, late' = late \/ NoneOpens
  PROVE  CopiesInv'
<1> SUFFICES ASSUME NEW w \in Webhooks, NEW e \in Events
             PROVE  (Cardinality(Copies(w, e)) + One(Open(w, e)) + One(<<w, e>> \in late)
                       <= 1 + faults + restarts)'
  BY DEF CopiesInv
<1>1. Cardinality(Copies(w, e))' = Cardinality(Copies(w, e)) /\ Cardinality(Copies(w, e)) \in Nat
  BY CopiesFinite DEF Copies, IInv, TypeOK
<1>2. Cardinality(Copies(w, e)) + One(Open(w, e)) + One(<<w, e>> \in late) <= 1 + faults + restarts
  BY DEF CopiesInv
<1>3. late' = late \/ (Open(w, e)' => Open(w, e))
  BY DEF NoneOpens
<1>4. faults \in Nat /\ restarts \in Nat /\ faults' \in Nat /\ restarts' \in Nat
  BY DEF IInv, TypeOK, WorldTypes, GoesWrong
<1>5. SUFFICES ASSUME NEW o \in {0, 1}, NEW p \in {0, 1}, NEW l \in {0, 1}, NEW m \in {0, 1},
                      NEW c \in Nat, NEW k \in Nat, NEW f \in Nat, NEW g \in Nat,
                      NEW r \in Nat, NEW q \in Nat,
                      o = One(Open(w, e)), p = One(Open(w, e))', l = One(<<w, e>> \in late),
                      m = One(<<w, e>> \in late)', c = Cardinality(Copies(w, e)),
                      k = Cardinality(Copies(w, e))', f = faults, g = faults',
                      r = restarts, q = restarts'
               PROVE  k + p + m <= 1 + g + q
  <2>1. One(Open(w, e)) \in {0, 1} /\ One(Open(w, e))' \in {0, 1}
    BY DEF One
  <2>2. One(<<w, e>> \in late) \in {0, 1} /\ One(<<w, e>> \in late)' \in {0, 1}
    BY DEF One
  <2>3. Cardinality(Copies(w, e)) \in Nat /\ Cardinality(Copies(w, e))' \in Nat
    BY <1>1
  <2> QED
    BY <1>4, <2>1, <2>2, <2>3
<1>6. c + o + l <= 1 + f + r
  BY <1>2, <1>4, <1>5
<1>7. k = c /\ ((g = f + 1 /\ q = r) \/ (g = f /\ q = r + 1))
  BY <1>1, <1>4, <1>5 DEF GoesWrong
<1>8. p <= o \/ m = l
  BY <1>3, <1>5 DEF One
<1> QED
  BY <1>6, <1>7, <1>8

\* A copy comes: the one that was to be sent or that was late, or something went wrong.
LEMMA CopiesGrow ==
  ASSUME IInv, CopiesInv, NoneOpens, NEW w \in Webhooks, NEW e \in Events, Accept(w, e),
         late' \subseteq late,
         \/ /\ UNCHANGED <<faults, restarts>>
            /\ \/ \A v \in Webhooks, d \in Events : v = w /\ d = e => Open(v, d) /\ ~Open(v, d)'
               \/ <<w, e>> \in late \ late'
         \/ GoesWrong
  PROVE  CopiesInv'
<1> SUFFICES ASSUME NEW v \in Webhooks, NEW d \in Events
             PROVE  (Cardinality(Copies(v, d)) + One(Open(v, d)) + One(<<v, d>> \in late)
                       <= 1 + faults + restarts)'
  BY DEF CopiesInv
<1>1. /\ Cardinality(Copies(v, d))' =
            Cardinality(Copies(v, d)) + (IF <<v, d>> = <<w, e>> THEN 1 ELSE 0)
      /\ Cardinality(Copies(v, d)) \in Nat
  BY AcceptCopies, CopiesFinite DEF IInv, TypeOK
<1>2. Cardinality(Copies(v, d)) + One(Open(v, d)) + One(<<v, d>> \in late) <= 1 + faults + restarts
  BY DEF CopiesInv
<1>3. (Open(v, d)' => Open(v, d)) /\ (<<v, d>> \in late' => <<v, d>> \in late)
  BY DEF NoneOpens
<1>4. faults \in Nat /\ restarts \in Nat /\ faults' \in Nat /\ restarts' \in Nat
  BY DEF IInv, TypeOK, WorldTypes, GoesWrong
<1>5. SUFFICES ASSUME NEW o \in {0, 1}, NEW p \in {0, 1}, NEW l \in {0, 1}, NEW m \in {0, 1},
                      NEW c \in Nat, NEW k \in Nat, NEW f \in Nat, NEW g \in Nat,
                      NEW r \in Nat, NEW q \in Nat,
                      o = One(Open(v, d)), p = One(Open(v, d))', l = One(<<v, d>> \in late),
                      m = One(<<v, d>> \in late)', c = Cardinality(Copies(v, d)),
                      k = Cardinality(Copies(v, d))', f = faults, g = faults',
                      r = restarts, q = restarts'
               PROVE  k + p + m <= 1 + g + q
  <2>1. One(Open(v, d)) \in {0, 1} /\ One(Open(v, d))' \in {0, 1}
    BY DEF One
  <2>2. One(<<v, d>> \in late) \in {0, 1} /\ One(<<v, d>> \in late)' \in {0, 1}
    BY DEF One
  <2>3. Cardinality(Copies(v, d))' \in Nat
    <3>1. SUFFICES ASSUME NEW n \in Nat, n = Cardinality(Copies(v, d))
                   PROVE  Cardinality(Copies(v, d))' \in Nat
      BY <1>1
    <3>2. n + 1 \in Nat /\ n + 0 = n
      OBVIOUS
    <3>3. Cardinality(Copies(v, d))' = n + 1 \/ Cardinality(Copies(v, d))' = n + 0
      BY <1>1, <3>1
    <3> QED
      BY <3>2, <3>3
  <2> QED
    BY <1>1, <1>4, <2>1, <2>2, <2>3
<1>6. c + o + l <= 1 + f + r
  BY <1>2, <1>4, <1>5
<1>7. p <= o /\ m <= l
  BY <1>3, <1>5 DEF One
<1>8. CASE <<v, d>> # <<w, e>>
  <2>1. k = c /\ f <= g /\ r <= q
    BY <1>1, <1>4, <1>5, <1>8 DEF GoesWrong
  <2> QED
    BY <1>6, <1>7, <2>1
<1>9. CASE <<v, d>> = <<w, e>>
  <2>1. k = c + 1 /\ v = w /\ d = e
    BY <1>1, <1>5, <1>9
  <2>2. CASE (g = f + 1 /\ q = r) \/ (g = f /\ q = r + 1)
    BY <1>6, <1>7, <2>1, <2>2
  <2>3. CASE f = g /\ r = q /\ Open(v, d) /\ ~Open(v, d)'
    <3>1. o = 1 /\ p = 0
      BY <1>5, <2>3 DEF One
    <3> QED
      BY <1>6, <1>7, <2>1, <2>3, <3>1
  <2>4. CASE f = g /\ r = q /\ <<w, e>> \in late \ late'
    <3>1. l = 1 /\ m = 0
      BY <1>5, <1>9, <2>4 DEF One
    <3> QED
      BY <1>6, <1>7, <2>1, <2>4, <3>1
  <2> QED
    BY <1>4, <1>5, <2>1, <2>2, <2>3, <2>4 DEF GoesWrong
<1> QED
  BY <1>8, <1>9

\* A dispatch() call goes on, or is through with a webhook.
LEMMA LoopNoneOpens ==
  ASSUME DispatchTypes, NEW e \in Events, NEW s, NEW some, some \subseteq todo[e], s # "new",
         s \in {"next", "keep", "post"} => phase[e] \in {"next", "keep", "post"},
         phase' = [phase EXCEPT ![e] = s], todo' = [todo EXCEPT ![e] = some],
         UNCHANGED <<outbox, step, rest>>
  PROVE  NoneOpens
  BY DEF NoneOpens, Open, InHand, Settling, IsOldest, DispatchTypes

\* The calls do not move, and neither do the rows nor the drain.
LEMMA StillNoneOpens ==
  ASSUME UNCHANGED <<phase, todo, outbox, step, rest>> PROVE NoneOpens
  BY DEF NoneOpens, Open, InHand, Settling, IsOldest

\* Rows go, and none of them was delivered already.
LEMMA RowsNoneOpens ==
  ASSUME UNCHANGED <<phase, todo>>, outbox' \subseteq outbox, \A t \in Timers : step[t] # "delete"
  PROVE  NoneOpens
<1>1. ASSUME NEW w \in Webhooks, NEW e \in Events, Open(w, e)' PROVE Open(w, e)
  <2>1. CASE phase'[e] = "new" \/ InHand(e, w)'
    BY <2>1 DEF Open, InHand
  <2>2. CASE \E r \in outbox' : r.webhook = w /\ r.event = e
    <3>1. PICK r \in outbox : r.webhook = w /\ r.event = e
      BY <2>2
    <3>2. ~Settling(r)
      BY DEF Settling
    <3> QED
      BY <3>1, <3>2 DEF Open
  <2> QED
    BY <1>1, <2>1, <2>2 DEF Open
<1> QED
  BY <1>1 DEF NoneOpens

\* While one drain replays, none has a delivered row to delete.
LEMMA NoneSettles ==
  ASSUME DrainInv, NEW t \in Timers, step[t] \notin {"idle", "delete"}
  PROVE  \A u \in Timers : step[u] # "delete"
  BY DEF DrainInv

LEMMA FinishCloses ==
  ASSUME IInv, NEW e \in Events, NEW w \in Webhooks, w \in todo[e], Finish(e, w),
         phase[e] \in {"next", "keep", "post"}, UNCHANGED <<outbox, step, rest>>
  PROVE  /\ NoneOpens
         /\ \A v \in Webhooks, d \in Events : v = w /\ d = e => Open(v, d) /\ ~Open(v, d)'
<1>1. PICK s \in {"done", "next"} : phase' = [phase EXCEPT ![e] = s]
  BY DEF Finish
<1>2. todo' = [todo EXCEPT ![e] = todo[e] \ {w}] /\ DispatchTypes
  BY DEF Finish, IInv, TypeOK
<1>3. NoneOpens
  BY <1>1, <1>2, LoopNoneOpens
<1>4. Open(w, e)
  BY DEF Open, InHand
<1>5. \A r \in outbox : ~(r.webhook = w /\ r.event = e)
  BY DEF IInv, RowsInv
<1>6. ASSUME NEW v \in Webhooks, NEW d \in Events, v = w, d = e PROVE ~Open(v, d)'
  BY <1>1, <1>2, <1>5, <1>6 DEF Open, InHand, DispatchTypes
<1> QED
  BY <1>3, <1>4, <1>6

\* The answer of a direct attempt that failed opens nothing.
LEMMA FailedNoneOpens ==
  ASSUME IInv, NEW e \in Events, phase[e] = "post", NEW answer, AttemptFailed(e, cur[e], answer),
         UNCHANGED <<outbox, step, rest>>
  PROVE  NoneOpens
<1>1. cur[e] \in todo[e] /\ cur[e] \in Webhooks /\ DispatchTypes
  BY DEF IInv, DispatchInv, TypeOK, DispatchTypes
<1>2. CASE UNCHANGED <<phase, todo>>
  BY <1>2, StillNoneOpens
<1>3. CASE Finish(e, cur[e])
  BY <1>1, <1>3, FinishCloses
<1>4. CASE phase' = [phase EXCEPT ![e] = "keep"] /\ UNCHANGED todo
  <2>1. todo' = [todo EXCEPT ![e] = todo[e]]
    BY <1>1, <1>4 DEF DispatchTypes
  <2> QED
    BY <1>1, <1>4, <2>1, LoopNoneOpens
<1> QED
  BY <1>2, <1>3, <1>4 DEF AttemptFailed

-----------------------------------------------------------------------------
(* The steps of dispatch(). *)

LEMMA ReceiveCopies ==
  ASSUME IInv, CopiesInv, NEW e \in Events, Receive(e) PROVE CopiesInv'
<1>1. PICK some : todo' = [todo EXCEPT ![e] = some]
  BY DEF Receive
<1>2. PICK s \in {"done", "next"} : phase' = [phase EXCEPT ![e] = s]
  BY DEF Receive
<1>3. phase[e] = "new" /\ UNCHANGED <<outbox, step, rest, accepted, late, faults, restarts>>
  BY DEF Receive, drainVars, tableVars, worldVars, budgetVars
<1>4. NoneOpens
  BY <1>1, <1>2, <1>3 DEF NoneOpens, Open, InHand, Settling, IsOldest, IInv, TypeOK, DispatchTypes
<1> QED
  BY <1>3, <1>4, CopiesQuiet

LEMMA BeforeCopies ==
  ASSUME IInv, CopiesInv, NEW e \in Events, NEW w \in Webhooks,
         CancelByPlugin(e, w) \/ CheckPending(e, w)
  PROVE  CopiesInv'
<1>1. /\ UNCHANGED <<outbox, step, rest, accepted, late, faults, restarts>>
      /\ phase[e] = "next" /\ w \in todo[e] /\ DispatchTypes
  BY DEF CancelByPlugin, CheckPending, drainVars, tableVars, worldVars, budgetVars, IInv, TypeOK
<1>2. CASE CancelByPlugin(e, w)
  <2>1. NoneOpens
    BY <1>1, <1>2, FinishCloses DEF CancelByPlugin
  <2> QED
    BY <1>1, <2>1, CopiesQuiet
<1>3. CASE CheckPending(e, w)
  <2>1. PICK s \in {"keep", "post"} : phase' = [phase EXCEPT ![e] = s]
    BY <1>3 DEF CheckPending
  <2>2. todo' = [todo EXCEPT ![e] = todo[e]]
    BY <1>1, <1>3 DEF CheckPending, DispatchTypes
  <2>3. NoneOpens
    BY <1>1, <2>1, <2>2, LoopNoneOpens
  <2> QED
    BY <1>1, <2>3, CopiesQuiet
<1> QED
  BY <1>2, <1>3

LEMMA PostCopies ==
  ASSUME IInv, CopiesInv, NEW e \in Events, Post(e) PROVE CopiesInv'
<1>1. PICK answer \in Answers :
         /\ Reaches(cur[e], e, answer)
         /\ IF answer = "ok"
            THEN Finish(e, cur[e]) /\ UNCHANGED log
            ELSE AttemptFailed(e, cur[e], answer)
  BY DEF Post
<1>2. /\ phase[e] = "post" /\ UNCHANGED <<outbox, step, rest, restarts>>
      /\ cur[e] \in todo[e] /\ cur[e] \in Webhooks
  BY DEF Post, drainVars, tableVars, IInv, DispatchInv, TypeOK, DispatchTypes
<1>3. CASE answer = "ok"
  <2>1. Accept(cur[e], e) /\ UNCHANGED <<late, faults, restarts>> /\ Finish(e, cur[e])
    BY <1>1, <1>2, <1>3 DEF Reaches
  <2>2. /\ NoneOpens
        /\ \A v \in Webhooks, d \in Events : v = cur[e] /\ d = e => Open(v, d) /\ ~Open(v, d)'
    BY <1>2, <2>1, FinishCloses
  <2> QED
    BY <1>2, <2>1, <2>2, CopiesGrow
<1>4. CASE answer # "ok"
  <2>1. NoneOpens
    BY <1>1, <1>2, <1>4, FailedNoneOpens
  <2>2. CASE UNCHANGED <<accepted, late, faults>>
    BY <1>2, <2>1, <2>2, CopiesQuiet
  <2>3. CASE accepted' = accepted /\ faults' = faults + 1
    BY <1>2, <2>1, <2>3, CopiesPaid DEF GoesWrong
  <2> QED
    BY <1>1, <1>4, <2>2, <2>3 DEF Reaches
<1> QED
  BY <1>3, <1>4

LEMMA PostUnrecordedCopies ==
  ASSUME IInv, CopiesInv, NEW e \in Events, PostUnrecorded(e) PROVE CopiesInv'
<1>1. /\ phase[e] = "post" /\ UNCHANGED <<outbox, step, rest>> /\ cur[e] \in Webhooks
      /\ Accept(cur[e], e) /\ AttemptFailed(e, cur[e], "silence") /\ late' = late /\ GoesWrong
  BY DEF PostUnrecorded, drainVars, tableVars, IInv, DispatchInv, TypeOK, DispatchTypes, GoesWrong
<1>2. NoneOpens
  BY <1>1, FailedNoneOpens
<1> QED
  BY <1>1, <1>2, CopiesGrow

LEMMA KeepCopies ==
  ASSUME IInv, CopiesInv, NEW e \in Events, Keep(e) PROVE CopiesInv'
<1>1. /\ phase[e] = "keep" /\ UNCHANGED <<step, rest, accepted, late, faults, restarts>>
      /\ cur[e] \in todo[e] /\ cur[e] \in Webhooks /\ DispatchTypes
      /\ outbox' = outbox \cup {[id |-> nextId, webhook |-> cur[e], event |-> e]}
  BY DEF Keep, drainVars, worldVars, budgetVars, IInv, DispatchInv, TypeOK, DispatchTypes
<1>2. PICK s \in {"done", "next"} : phase' = [phase EXCEPT ![e] = s]
  BY DEF Keep, Finish
<1>3. todo' = [todo EXCEPT ![e] = todo[e] \ {cur[e]}]
  BY DEF Keep, Finish
<1>4. ASSUME NEW w \in Webhooks, NEW d \in Events, Open(w, d)' PROVE Open(w, d)
  <2>1. CASE phase'[d] = "new" \/ InHand(d, w)'
    BY <1>1, <1>2, <1>3, <2>1 DEF Open, InHand, DispatchTypes
  <2>2. CASE \E r \in outbox' : r.webhook = w /\ r.event = d /\ ~Settling(r)'
    <3>1. PICK r \in outbox' : r.webhook = w /\ r.event = d /\ ~Settling(r)'
      BY <2>2
    <3>2. CASE r \in outbox
      <4>1. ~Settling(r)
        BY <1>1, <3>1 DEF Settling, IsOldest
      <4> QED
        BY <3>1, <3>2, <4>1 DEF Open
    <3>3. CASE r \notin outbox
      <4>1. w = cur[e] /\ d = e
        BY <1>1, <3>1, <3>3
      <4> QED
        BY <1>1, <4>1 DEF Open, InHand
    <3> QED
      BY <3>2, <3>3
  <2> QED
    BY <1>4, <2>1, <2>2 DEF Open
<1>5. NoneOpens
  BY <1>4 DEF NoneOpens
<1> QED
  BY <1>1, <1>5, CopiesQuiet

-----------------------------------------------------------------------------
(* The steps of the drain. *)

LEMMA ReplayCopies ==
  ASSUME IInv, CopiesInv, NEW t \in Timers, Replay(t) PROVE CopiesInv'
<1>1. PICK r \in rest[t], answer \in Answers :
         IsOldest(r, rest[t]) /\ Reaches(r.webhook, r.event, answer) /\ Answered(t, r, answer)
  BY DEF Replay
<1>2. /\ step[t] = "replay" /\ UNCHANGED <<phase, todo, restarts>> /\ r \in outbox
      /\ r.webhook \in Webhooks /\ r.event \in Events /\ DrainTypes
      /\ r.webhook \notin todo[r.event] /\ phase[r.event] # "new"
  BY DEF Replay, dispatchVars, IInv, DrainInv, RowsInv, DispatchInv, TypeOK, TableTypes, DrainTypes,
         Rows
<1>3. \A u \in Timers : step[u] # "delete"
  BY <1>2, NoneSettles DEF IInv
<1>4. outbox' \subseteq outbox
  BY <1>1 DEF Answered, Drop
<1>5. NoneOpens
  BY <1>2, <1>3, <1>4, RowsNoneOpens
<1>6. CASE answer = "ok"
  <2>1. /\ Accept(r.webhook, r.event) /\ UNCHANGED <<late, faults, restarts, outbox, rest>>
        /\ step'[t] = "delete"
    BY <1>1, <1>2, <1>6 DEF Reaches, Answered, IsPermanentFailure, StopsReplay, DrainTypes
  <2>2. Open(r.webhook, r.event)
    BY <1>2, <1>3 DEF Open, Settling
  <2>3. ASSUME NEW q \in outbox, q.webhook = r.webhook, q.event = r.event PROVE Settling(q)'
    <3>1. q = r
      BY <1>2, <2>3 DEF IInv, RowsInv
    <3> QED
      BY <1>1, <2>1, <3>1 DEF Settling, IsOldest
  <2>4. ASSUME NEW v \in Webhooks, NEW d \in Events, v = r.webhook, d = r.event
        PROVE  Open(v, d) /\ ~Open(v, d)'
    <3>1. Open(v, d)
      BY <2>2, <2>4
    <3>2. ~(\E q \in outbox' : q.webhook = v /\ q.event = d /\ ~Settling(q)')
      BY <2>1, <2>3, <2>4
    <3>3. phase'[d] # "new" /\ ~InHand(d, v)'
      BY <1>2, <2>4 DEF InHand
    <3> QED
      BY <3>1, <3>2, <3>3 DEF Open
  <2>5. \A v \in Webhooks, d \in Events : v = r.webhook /\ d = r.event => Open(v, d) /\ ~Open(v, d)'
    BY <2>4
  <2> QED
    BY <1>2, <1>5, <2>1, <2>5, CopiesGrow
<1>7. CASE answer # "ok"
  <2>1. CASE UNCHANGED <<accepted, late, faults>>
    BY <1>2, <1>5, <2>1, CopiesQuiet
  <2>2. CASE accepted' = accepted /\ faults' = faults + 1
    BY <1>2, <1>5, <2>2, CopiesPaid DEF GoesWrong
  <2> QED
    BY <1>1, <1>7, <2>1, <2>2 DEF Reaches
<1> QED
  BY <1>6, <1>7

LEMMA DeleteDeliveredCopies ==
  ASSUME IInv, CopiesInv, NEW t \in Timers, DeleteDelivered(t) PROVE CopiesInv'
<1>1. PICK r \in rest[t] : IsOldest(r, rest[t]) /\ outbox' = outbox \ {r}
  BY DEF DeleteDelivered
<1>2. /\ step[t] = "delete" /\ rest[t] \subseteq outbox
      /\ UNCHANGED <<phase, todo, accepted, late, faults, restarts>>
      /\ \A q \in outbox : q.id \in Nat
  BY DEF DeleteDelivered, dispatchVars, worldVars, budgetVars, IInv, DrainInv, TypeOK, TableTypes, Rows
<1>3. ASSUME NEW q \in outbox, q # r PROVE ~Settling(q)
  <2> SUFFICES ASSUME NEW u \in Timers, step[u] = "delete", q \in rest[u], IsOldest(q, rest[u])
               PROVE  FALSE
    BY DEF Settling
  <2>1. u = t
    BY <1>2 DEF IInv, DrainInv
  <2>2. q.id <= r.id /\ r.id <= q.id
    BY <1>1, <2>1 DEF IsOldest
  <2>3. q.id = r.id
    BY <1>1, <1>2, <2>2
  <2> QED
    BY <1>1, <1>2, <1>3, <2>3 DEF IInv, RowsInv
<1>4. ASSUME NEW w \in Webhooks, NEW e \in Events, Open(w, e)' PROVE Open(w, e)
  <2>1. CASE phase'[e] = "new" \/ InHand(e, w)'
    BY <1>2, <2>1 DEF Open, InHand
  <2>2. CASE \E q \in outbox' : q.webhook = w /\ q.event = e
    BY <1>1, <1>3, <2>2 DEF Open
  <2> QED
    BY <1>4, <2>1, <2>2 DEF Open
<1>5. NoneOpens
  BY <1>4 DEF NoneOpens
<1> QED
  BY <1>2, <1>5, CopiesQuiet

LEMMA DrainCopies ==
  ASSUME IInv, CopiesInv, NEW t \in Timers, DrainStep(t) PROVE CopiesInv'
<1> USE DEF dispatchVars, drainVars, outageVars, tableVars, worldVars, budgetVars
<1>1. ASSUME step[t] \notin {"idle", "delete"}, UNCHANGED <<phase, todo>>, outbox' \subseteq outbox,
             UNCHANGED <<accepted, late, faults, restarts>>
      PROVE  CopiesInv'
  BY <1>1, NoneSettles, RowsNoneOpens, CopiesQuiet DEF IInv
<1>2. ASSUME NEW w \in Webhooks, LoadBatch(t, w) PROVE CopiesInv'
  BY <1>1, <1>2 DEF LoadBatch
<1>3. CASE Purge(t)
  BY <1>1, <1>3 DEF Purge
<1>4. CASE DropOverdue(t)
  BY <1>1, <1>4 DEF DropOverdue, Drop
<1>5. CASE Replay(t)
  BY <1>5, ReplayCopies
<1>6. CASE DeleteDelivered(t)
  BY <1>6, DeleteDeliveredCopies
<1>7. CASE DeleteFails(t) \/ DrainFails(t)
  <2>1. accepted' = accepted /\ late' = late /\ faults' = faults + 1 /\ restarts' = restarts
    BY <1>7 DEF DeleteFails, DrainFails
  <2> QED
    BY <2>1, CopiesPaid DEF GoesWrong
<1>8. CASE CountPending(t)
  BY <1>1, <1>8 DEF CountPending
<1>9. CASE TellRecovery(t) \/ TellOutage(t)
  BY <1>1, <1>9 DEF TellRecovery, TellOutage
<1> QED
  BY <1>2, <1>3, <1>4, <1>5, <1>6, <1>7, <1>8, <1>9 DEF DrainStep

LEMMA StartDrainCopies ==
  ASSUME IInv, CopiesInv, NEW t \in Timers, StartDrain(t) PROVE CopiesInv'
<1>1. UNCHANGED <<phase, todo, outbox, accepted, late, faults, restarts>> /\ ~draining
  BY DEF StartDrain, dispatchVars, tableVars, worldVars, budgetVars
<1>2. \A u \in Timers : step[u] # "delete"
  BY <1>1 DEF IInv, DrainInv
<1>3. NoneOpens
  BY <1>1, <1>2, RowsNoneOpens
<1> QED
  BY <1>1, <1>3, CopiesQuiet

-----------------------------------------------------------------------------
(* The rest of the world. *)

LEMMA LateAcceptCopies ==
  ASSUME IInv, CopiesInv, NEW w \in Webhooks, NEW e \in Events, LateAccept(w, e)
  PROVE  CopiesInv'
<1>1. /\ UNCHANGED <<phase, todo, outbox, step, rest, faults, restarts>> /\ Accept(w, e)
      /\ <<w, e>> \in late \ late' /\ late' \subseteq late
  BY DEF LateAccept, dispatchVars, drainVars, tableVars, budgetVars
<1>2. NoneOpens
  BY <1>1, StillNoneOpens
<1> QED
  BY <1>1, <1>2, CopiesGrow

LEMMA ProcessEndsCopies ==
  ASSUME IInv, CopiesInv, ProcessEnds PROVE CopiesInv'
<1>1. accepted' = accepted /\ late' = late /\ faults' = faults /\ restarts' = restarts + 1
  BY DEF ProcessEnds, worldVars
<1> QED
  BY <1>1, CopiesPaid DEF GoesWrong

LEMMA CopiesStep == IInv /\ CopiesInv /\ [Next]_vars => CopiesInv'
<1> SUFFICES ASSUME IInv, CopiesInv, [Next]_vars PROVE CopiesInv'
  OBVIOUS
<1>1. CASE UNCHANGED <<phase, todo, outbox, step, rest, accepted, late, faults, restarts>>
  BY <1>1, StillNoneOpens, CopiesQuiet
<1>2. ASSUME NEW e \in Events, Receive(e) \/ DispatchStep(e) PROVE CopiesInv'
  BY <1>2, ReceiveCopies, BeforeCopies, PostCopies, PostUnrecordedCopies, KeepCopies DEF DispatchStep
<1>3. ASSUME NEW t \in Timers, StartDrain(t) \/ DrainStep(t) PROVE CopiesInv'
  BY <1>3, StartDrainCopies, DrainCopies
<1>4. ASSUME NEW w \in Webhooks, NEW e \in Events, LateAccept(w, e) PROVE CopiesInv'
  BY <1>4, LateAcceptCopies
<1>5. ASSUME NEW w \in Webhooks, NEW new \in {"active", "inactive", "deleted"},
             UpdateWebhook(w, new)
      PROVE  CopiesInv'
  BY <1>1, <1>5 DEF UpdateWebhook, dispatchVars, drainVars, tableVars, worldVars
<1>6. CASE RowAges
  BY <1>1, <1>6 DEF RowAges, dispatchVars, drainVars, worldVars, budgetVars
<1>7. CASE ProcessEnds
  BY <1>7, ProcessEndsCopies
<1>8. CASE UNCHANGED vars
  BY <1>1, <1>8 DEF vars, dispatchVars, drainVars, tableVars, worldVars, budgetVars
<1> QED
  BY <1>2, <1>3, <1>4, <1>5, <1>6, <1>7, <1>8 DEF Next

LEMMA CopiesInit == Init => CopiesInv
<1> SUFFICES ASSUME Init, NEW w \in Webhooks, NEW e \in Events
             PROVE  Cardinality(Copies(w, e)) + One(Open(w, e)) + One(<<w, e>> \in late)
                       <= 1 + faults + restarts
  BY DEF CopiesInv
<1>1. accepted[w] = << >> /\ late = {} /\ faults = 0 /\ restarts = 0
  BY DEF Init
<1>2. Copies(w, e) = {}
  BY <1>1 DEF Copies
<1>3. Cardinality(Copies(w, e)) = 0
  BY <1>2, FS_EmptySet
<1>4. One(Open(w, e)) \in {0, 1} /\ One(<<w, e>> \in late) = 0
  BY <1>1 DEF One
<1> QED
  BY <1>1, <1>3, <1>4

\* However the endpoint answers and whenever the process ends, an event comes at most once more than
\* something went wrong that the gateway cannot see through (webhook-outbox.service.ts:92-112).
THEOREM CopiesAreAccountedFor == Spec => []NoSpuriousDuplicate
<1>1. IInv /\ CopiesInv => NoSpuriousDuplicate
  <2> SUFFICES ASSUME IInv, CopiesInv, NEW w \in Webhooks, NEW e \in Events
               PROVE  Cardinality(Copies(w, e)) <= 1 + faults + restarts
    BY DEF NoSpuriousDuplicate
  <2>1. Cardinality(Copies(w, e)) \in Nat /\ faults \in Nat /\ restarts \in Nat
    BY CopiesFinite DEF IInv, TypeOK, WorldTypes
  <2>2. Cardinality(Copies(w, e)) + One(Open(w, e)) + One(<<w, e>> \in late) <= 1 + faults + restarts
    BY DEF CopiesInv
  <2>3. One(Open(w, e)) \in {0, 1} /\ One(<<w, e>> \in late) \in {0, 1}
    BY DEF One
  <2> QED
    BY <2>1, <2>2, <2>3
<1>2. Init => IInv /\ CopiesInv
  BY InitIInv, CopiesInit
<1>3. IInv /\ CopiesInv /\ [Next]_vars => IInv' /\ CopiesInv'
  BY NextIInv, CopiesStep
<1> QED
  BY <1>1, <1>2, <1>3, PTL DEF Spec

=============================================================================
