-------------------------- MODULE SessionLifecycle --------------------------
(***************************************************************************)
(* One WhatsApp session of the gateway (session.service.ts) and the engine *)
(* instances it runs (baileys.adapter.ts, whatsapp-web-js.adapter.ts).     *)
(* A call (start, stop, restart, relink, delete, a reconnect timer, the    *)
(* recovery from a logout) runs from one await to the next in one action,  *)
(* and calls interleave at every await.  An engine that was taken out of   *)
(* the map may still be connecting: nothing stops it, and only isCurrent() *)
(* keeps its events away from the session.  Writes of the session's row    *)
(* take effect in the order they are issued (one connection).              *)
(***************************************************************************)
EXTENDS Naturals, FiniteSets

CONSTANTS Engines,      \* engine instances alive at once
          Calls,        \* calls in flight at once
          Kinds,        \* engine types of the deployments to cover
          NoEngine,     \* no engine is registered
          MaxAttempts,  \* reconnectStates' maxAttempts
          MaxRequests,  \* bound: requests and restarts of the gateway
          MaxDrops, MaxLogins, MaxFaults  \* bounds: connection losses, scans, failed queries and wipes

ASSUME EngineAssumption == NoEngine \notin Engines /\ Engines # {}
ASSUME CallAssumption == Calls # {}
ASSUME KindAssumption == Kinds \subseteq {"baileys", "wwjs"} /\ Kinds # {}
ASSUME BoundAssumption ==
    /\ {MaxAttempts, MaxRequests, MaxDrops, MaxLogins, MaxFaults} \subseteq Nat
    /\ MaxLogins >= 1    \* a session can be there with its login from the start

VARIABLES
    kind,      \* the engine type configured, fixed
    row,       \* the session's row: there, status, and whether a phone is linked
    login,     \* the login saved on disk (0: none); logins are numbered as made
    revoked,   \* logins WhatsApp has unlinked
    engine,    \* the engine instances
    current,   \* engines.get(id)
    retry,     \* reconnectStates.get(id)
    lost,      \* timers still armed whose state boot() has replaced
    call,      \* the calls in flight
    asked,     \* history: what the last caller asked for, "up" or "down"
    alone,     \* history: no other call or timer was about when it did
    broken,    \* history: a call has failed that the service does not retry
    wipedTo,   \* history: every login up to this one has been wiped
    used       \* what is used up of the bounds

vars == <<kind, row, login, revoked, engine, current, retry, lost, call,
          asked, alone, broken, wipedTo, used>>
history == <<asked, alone, broken, wipedTo>>

Statuses == {"created", "initializing", "qr_ready", "authenticating", "ready",
             "disconnected", "failed"}
Requested == {"start", "stop", "restart", "relink", "delete"}
Jobs == Requested \cup {"reconnect", "recover"}

Rows == [there : BOOLEAN, status : Statuses, linked : BOOLEAN]
Instances == [phase : {"gone", "registered", "loading", "up", "closed"}, status : Statuses,
              creds : 0..MaxLogins, qr : {"none", "pending", "shown"}]
RetryStates == [kept : BOOLEAN, attempts : 0..(MaxAttempts + 1), timer : BOOLEAN]

Idle == [job |-> "none", at |-> "idle", of |-> NoEngine]
Gone == [phase |-> "gone", status |-> "disconnected", creds |-> 0, qr |-> "none"]
NoRetry == [kept |-> FALSE, attempts |-> 0, timer |-> FALSE]

AllIdle == \A c \in Calls : call[c].at = "idle"
Others(c) == {d \in Calls \ {c} : call[d].at # "idle"}
Orphans == {e \in Engines \ {current} : engine[e].phase # "gone"}
Use(counter) == used' = [used EXCEPT ![counter] = @ + 1]

Init ==
    /\ kind \in Kinds
    /\ \/ row = [there |-> TRUE, status |-> "created", linked |-> FALSE] /\ login = 0
       \/ row = [there |-> TRUE, status |-> "disconnected", linked |-> TRUE] /\ login = 1
    /\ revoked = {}
    /\ engine = [e \in Engines |-> Gone]
    /\ current = NoEngine
    /\ retry = NoRetry
    /\ lost = 0
    /\ call = [c \in Calls |-> Idle]
    /\ asked = "down" /\ alone = TRUE /\ broken = FALSE /\ wipedTo = 0
    /\ used = [requests |-> 0, drops |-> 0, logins |-> login, faults |-> 0]

----------------------------------------------------------------------------
(* Helpers: each is what a private method of the service does to its part. *)

\* updateStatus: an UPDATE of a row that is gone changes nothing.
Written(status) == IF row.there THEN [row EXCEPT !.status = status] ELSE row

\* Mutants: the attempts grow past the slow interval; the retries end there.
ScheduledUncapped(immediate) ==
    IF ~retry.kept THEN retry
    ELSE [retry EXCEPT !.timer = TRUE, !.attempts = IF immediate THEN @ ELSE @ + 1]
ScheduledWhileFast(immediate) ==
    IF ~retry.kept THEN retry
    ELSE [retry EXCEPT !.timer = immediate \/ retry.attempts < MaxAttempts,
                       !.attempts = IF immediate \/ @ > MaxAttempts THEN @ ELSE @ + 1]

\* scheduleReconnect: with no state it does nothing; a fresh timer replaces
\* the old one; past the last attempt the row turns FAILED, and it goes on.
Scheduled(immediate) ==
    IF ~retry.kept THEN retry
    ELSE [retry EXCEPT !.timer = TRUE,
                       !.attempts = IF immediate \/ @ > MaxAttempts THEN @ ELSE @ + 1]

GivesUpFast(immediate) == retry.kept /\ ~immediate /\ retry.attempts = MaxAttempts
ScheduleReconnect(status, immediate) ==
    /\ retry' = Scheduled(immediate)
    /\ row' = Written(IF GivesUpFast(immediate) THEN "failed" ELSE status)

\* destroy: Baileys has nothing to close before its socket exists, and
\* whatsapp-web.js nothing before initialize() has made its client.
IsComing(e) == \/ \E c \in Calls : call[c].at = "setting" /\ call[c].of = e
               \/ kind = "baileys" /\ engine[e].phase = "loading"
Destroyed(e) == IF IsComing(e) THEN engine[e] ELSE Gone

\* teardownEngine: out of the map first, then destroyed.
TearDown ==
    /\ current' = NoEngine
    /\ engine' = [e \in Engines |-> IF e = current THEN Destroyed(e) ELSE engine[e]]

\* The callbacks: only the registered engine's events reach the row.
OnStateChanged(e, status) == row' = IF current = e THEN Written(status) ELSE row

OnReady(e) ==
    IF current = e
    THEN /\ row' = IF row.there THEN [row EXCEPT !.status = "ready", !.linked = TRUE] ELSE row
         /\ retry' = IF retry.kept THEN [retry EXCEPT !.attempts = 0] ELSE retry
    ELSE UNCHANGED <<row, retry>>

Goto(c, place) == call' = [call EXCEPT ![c].at = place]
Return(c) == call' = [call EXCEPT ![c] = Idle]

----------------------------------------------------------------------------
(* Calls, from one await to the next. *)

Request(c, job) ==
    /\ call[c] = Idle
    /\ used.requests < MaxRequests
    /\ Use("requests")
    /\ call' = [call EXCEPT ![c] = [job |-> job, at |-> "finding", of |-> NoEngine]]
    /\ UNCHANGED <<kind, row, login, revoked, engine, current, retry, lost, history>>

Find(c) ==
    /\ call[c].at = "finding"
    /\ row.there
    /\ Goto(c, "found")
    /\ UNCHANGED <<kind, row, login, revoked, engine, current, retry, lost, history, used>>

\* The catch blocks: a reconnect is scheduled again, a recovery only says
\* FAILED, and a request answers its caller with the error.
Caught(c) ==
    /\ Return(c)
    /\ CASE call[c].job = "reconnect" -> ScheduleReconnect(row.status, FALSE)
         [] call[c].job = "recover" -> row' = Written("failed") /\ UNCHANGED retry
         [] OTHER -> UNCHANGED <<row, retry>>
    /\ broken' = (broken \/ call[c].job # "reconnect")

NotFound(c) ==
    /\ call[c].at = "finding"
    /\ \/ ~row.there /\ UNCHANGED used
       \/ used.faults < MaxFaults /\ Use("faults")
    /\ Caught(c)
    /\ UNCHANGED <<kind, login, revoked, engine, current, lost, asked, alone, wipedTo>>

\* What a call does before its first await after findOne: note who asked for
\* what, cancel the retries, take the engine down.
IsRefused(c) ==
    /\ call[c].job = "start"
    /\ current # NoEngine
    /\ engine[current].status \notin {"failed", "disconnected"}

\* Mutant: stop forgets the armed timer.
CancelReconnectButOnStop(c) ==
    retry' = CASE call[c].job \in {"reconnect", "stop"} -> retry
               [] call[c].job = "recover" -> [retry EXCEPT !.timer = FALSE]
               [] OTHER -> NoRetry

CancelReconnect(c) ==
    retry' = CASE call[c].job = "reconnect" -> retry
               [] call[c].job = "recover" -> [retry EXCEPT !.timer = FALSE]
               [] call[c].job = "start" /\ current = NoEngine -> retry
               [] OTHER -> NoRetry

Begin(c) ==
    /\ call[c].at = "found"
    /\ ~IsRefused(c)
    /\ CancelReconnect(c)
    /\ TearDown
    /\ Goto(c, "torn")
    /\ IF call[c].job \in Requested
       THEN /\ asked' = IF call[c].job \in {"stop", "delete"} THEN "down" ELSE "up"
            /\ alone' = /\ row.there /\ Others(c) = {} /\ lost = 0 /\ Orphans = {}
                       /\ login \notin 1..wipedTo
            /\ broken' = FALSE
       ELSE /\ alone' = (alone /\ Others(c) = {})
            /\ UNCHANGED <<asked, broken>>
    /\ UNCHANGED <<kind, row, login, revoked, lost, wipedTo, used>>

Refuse(c) ==
    /\ call[c].at = "found"
    /\ IsRefused(c)
    /\ Return(c)
    /\ UNCHANGED <<kind, row, login, revoked, engine, current, retry, lost, history, used>>

Wiped == login' = 0 /\ wipedTo' = used.logins

\* Mutant: the login is wiped before the engine is torn down.
ClearAuthStateFirst(c) ==
    /\ call[c].at = "finding" /\ row.there
    /\ call[c].job \in {"relink", "recover", "delete"}
    /\ Wiped
    /\ Goto(c, "found")
    /\ UNCHANGED <<kind, row, revoked, engine, current, retry, lost, asked, alone, broken, used>>

ClearAuthState(c) ==
    /\ call[c].at = "torn"
    /\ call[c].job \in {"relink", "recover", "delete"}
    /\ Wiped
    /\ Goto(c, "wiped")
    /\ UNCHANGED <<kind, row, revoked, engine, current, retry, lost, asked, alone, broken, used>>

\* A wipe that fails is noted as an error and the call goes on.  What is left
\* is the same when a save of the login that is under way outlives the wipe.
ClearAuthStateFails(c) ==
    /\ call[c].at = "torn"
    /\ call[c].job \in {"relink", "recover", "delete"}
    /\ used.faults < MaxFaults /\ Use("faults")
    /\ Goto(c, "wiped")
    /\ UNCHANGED <<kind, row, login, revoked, engine, current, retry, lost, history>>

Delete(c) ==
    /\ call[c].at = "wiped" /\ call[c].job = "delete"
    /\ row' = [there |-> FALSE, status |-> "created", linked |-> FALSE]
    /\ Return(c)
    /\ UNCHANGED <<kind, login, revoked, engine, current, retry, lost, history, used>>

Stop(c) ==
    /\ call[c].at = "torn" /\ call[c].job = "stop"
    /\ row' = Written("disconnected")
    /\ Return(c)
    /\ UNCHANGED <<kind, login, revoked, engine, current, retry, lost, history, used>>

\* The row cannot be written, or removed: it says what it said before, and the
\* caller gets the error.
LastWriteFails(c) ==
    /\ \/ call[c].at = "wiped" /\ call[c].job = "delete"
       \/ call[c].at = "torn" /\ call[c].job = "stop"
    /\ used.faults < MaxFaults /\ Use("faults")
    /\ Return(c)
    /\ broken' = TRUE
    /\ UNCHANGED <<kind, row, login, revoked, engine, current, retry, lost, asked, alone, wipedTo>>

\* boot and the first half of initializeEngine: whatever is in the map is
\* replaced, and so is the retry state, with its timer still running.
Boots(c) == \/ call[c].at = "torn" /\ call[c].job \in {"start", "restart", "reconnect"}
            \/ call[c].at = "wiped" /\ call[c].job \in {"relink", "recover"}

ResetRetry(c) ==
    IF call[c].job \in Requested
    THEN /\ retry' = [NoRetry EXCEPT !.kept = TRUE]
         /\ lost' = IF retry.timer THEN lost + 1 ELSE lost
    ELSE UNCHANGED <<retry, lost>>

Created == [Gone EXCEPT !.phase = "registered"]

Register(e) ==
    /\ engine[e].phase = "gone"
    /\ engine' = [x \in Engines |->
           IF x = e THEN Created
           ELSE IF x = current /\ engine[x].phase \notin {"loading", "up"} /\ ~IsComing(x)
           THEN Gone ELSE engine[x]]
    /\ current' = e

Boot(c) ==
    /\ Boots(c)
    /\ ResetRetry(c)
    /\ row' = Written("initializing")
    /\ \E e \in Engines :
        /\ Register(e)
        /\ call' = [call EXCEPT ![c].at = "setting", ![c].of = e]
    /\ alone' = (alone /\ Others(c) = {})
    /\ UNCHANGED <<kind, login, revoked, asked, broken, wipedTo, used>>

\* The status cannot be written: the engine stays in the map, never started.
BootFails(c) ==
    /\ Boots(c)
    /\ used.faults < MaxFaults /\ Use("faults")
    /\ \E e \in Engines : Register(e)
    /\ IF call[c].job \in Requested
       THEN ResetRetry(c) /\ UNCHANGED row /\ Return(c) /\ broken' = TRUE
       ELSE Caught(c) /\ UNCHANGED lost
    /\ UNCHANGED <<kind, login, revoked, asked, alone, wipedTo>>

\* whatsapp-web.js has a client, and a status, as soon as it is told to start.
ReportsStart == kind = "wwjs"

\* engine.initialize: Baileys reads the saved login and asks for the current
\* version; whatsapp-web.js makes its client at once and reports it.
Initialize(c) ==
    LET e == call[c].of IN
    /\ call[c].at = "setting"
    /\ engine' = [engine EXCEPT ![e].phase = "loading", ![e].creds = login,
                                ![e].status = IF ReportsStart THEN "initializing" ELSE @]
    /\ IF ReportsStart THEN OnStateChanged(e, "initializing") ELSE UNCHANGED row
    /\ Return(c)
    /\ UNCHANGED <<kind, login, revoked, current, retry, lost, history, used>>

Step(c) ==
    \/ Find(c) \/ NotFound(c) \/ Begin(c) \/ Refuse(c)
    \/ ClearAuthState(c) \/ ClearAuthStateFails(c)
    \/ Delete(c) \/ Stop(c) \/ LastWriteFails(c)
    \/ Boot(c) \/ BootFails(c) \/ Initialize(c)

----------------------------------------------------------------------------
(* Timers, and the events of an engine. *)

TimerFires(c) ==
    /\ call[c] = Idle
    /\ \/ retry.timer /\ retry' = [retry EXCEPT !.timer = FALSE] /\ UNCHANGED lost
       \/ lost > 0 /\ lost' = lost - 1 /\ UNCHANGED retry
    /\ call' = [call EXCEPT ![c] = [job |-> "reconnect", at |-> "finding", of |-> NoEngine]]
    /\ UNCHANGED <<kind, row, login, revoked, engine, current, history, used>>

Connects(e) ==
    /\ engine[e].phase = "loading"
    /\ engine' = [engine EXCEPT ![e].phase = "up"]
    /\ UNCHANGED <<kind, row, login, revoked, current, retry, lost, call, history, used>>

\* initialize() throws; what isCurrent() lets through is recorded and retried.
InitializeFails(e) ==
    /\ engine[e].phase = "loading"
    /\ used.drops < MaxDrops /\ Use("drops")
    /\ IF current = e
       THEN /\ engine' = [engine EXCEPT ![e].phase = "closed", ![e].status = "failed", ![e].creds = 0]
            /\ ScheduleReconnect("failed", FALSE)
       ELSE engine' = [engine EXCEPT ![e] = Gone] /\ UNCHANGED <<retry, row>>
    /\ UNCHANGED <<kind, login, revoked, current, lost, call, history>>

\* A QR code arrives when there is no login to resume; it is turned into an
\* image first, and the image is kept whatever happens to the connection.
QrCode(e) ==
    /\ engine[e].phase = "up" /\ engine[e].creds = 0 /\ engine[e].qr = "none"
    /\ engine' = [engine EXCEPT ![e].qr = "pending"]
    /\ UNCHANGED <<kind, row, login, revoked, current, retry, lost, call, history, used>>

OnQRCode(e) == OnStateChanged(e, "qr_ready")

QrReady(e) ==
    /\ engine[e].qr = "pending"
    /\ engine' = [engine EXCEPT ![e].qr = "shown", ![e].status = "qr_ready"]
    /\ OnQRCode(e)
    /\ UNCHANGED <<kind, login, revoked, current, retry, lost, call, history, used>>

\* The connection closes: the adapter's status, then handleDisconnected.
Closed(e) ==
    engine' = [engine EXCEPT
        ![e] = IF current = e
               THEN [@ EXCEPT !.phase = "closed", !.status = "disconnected", !.creds = 0]
               ELSE Gone]

\* Mutant: no isCurrent().
HandleAnyDisconnected(e, immediate) == ScheduleReconnect("disconnected", immediate)

HandleDisconnected(e, immediate) ==
    IF current = e
    THEN ScheduleReconnect("disconnected", immediate)
    ELSE UNCHANGED <<row, retry>>

\* Someone scans the code: a new login.  Baileys is then asked to restart
\* (515); whatsapp-web.js goes on to log in.
Scan(e) ==
    /\ engine[e].phase = "up" /\ engine[e].qr = "shown" /\ engine[e].creds = 0
    /\ used.logins < MaxLogins /\ Use("logins")
    /\ login' = used.logins + 1
    /\ IF kind = "baileys"
       THEN Closed(e) /\ HandleDisconnected(e, TRUE)
       ELSE /\ engine' = [engine EXCEPT ![e].creds = used.logins + 1,
                                        ![e].status = "authenticating", ![e].qr = "none"]
            /\ OnStateChanged(e, "authenticating")
            /\ UNCHANGED retry
    /\ UNCHANGED <<kind, revoked, current, lost, call, history>>

CanOpen(e) == /\ engine[e].phase = "up" /\ engine[e].status # "ready"
              /\ engine[e].creds # 0 /\ engine[e].creds \notin revoked

Open(e) ==
    /\ CanOpen(e)
    /\ engine' = [engine EXCEPT ![e].status = "ready", ![e].qr = "none"]
    /\ OnReady(e)
    /\ UNCHANGED <<kind, login, revoked, current, lost, call, history, used>>

\* creds.update: a connected Baileys socket writes its login to the disk.
SaveCreds(e) ==
    /\ kind = "baileys"
    /\ engine[e].phase = "up" /\ engine[e].creds \notin {0, login}
    /\ login' = engine[e].creds
    /\ UNCHANGED <<kind, row, revoked, engine, current, retry, lost, call, history, used>>

Drop(e) ==
    /\ engine[e].phase = "up"
    /\ used.drops < MaxDrops /\ Use("drops")
    /\ Closed(e)
    /\ HandleDisconnected(e, FALSE)
    /\ UNCHANGED <<kind, login, revoked, current, lost, call, history>>

Revoke ==
    /\ used.logins > 0 /\ used.logins \notin revoked
    /\ used.drops < MaxDrops /\ Use("drops")
    /\ revoked' = revoked \cup {used.logins}
    /\ UNCHANGED <<kind, row, login, engine, current, retry, lost, call, history>>

\* Close code 401, LOGOUT or auth_failure: recoverFromLogout runs as a call.
LoggedOut(e) ==
    /\ engine[e].phase = "up" /\ engine[e].creds \in revoked
    /\ Closed(e)
    /\ IF current = e
       THEN \E c \in Calls :
              /\ call[c] = Idle
              /\ call' = [call EXCEPT ![c] = [job |-> "recover", at |-> "finding", of |-> NoEngine]]
              /\ row' = Written("disconnected")
       ELSE UNCHANGED <<call, row>>
    /\ UNCHANGED <<kind, login, revoked, current, retry, lost, history, used>>

EngineEvent(e) ==
    \/ Connects(e) \/ InitializeFails(e) \/ QrCode(e) \/ QrReady(e) \/ Scan(e)
    \/ Open(e) \/ SaveCreds(e) \/ Drop(e) \/ LoggedOut(e)

\* The container restarts: memory is gone, the row is reset, and a session
\* with a phone is started before any request is served.
Bootstrap ==
    /\ used.requests < MaxRequests /\ Use("requests")
    /\ engine' = [e \in Engines |-> Gone]
    /\ current' = NoEngine /\ retry' = NoRetry /\ lost' = 0
    /\ row' = IF row.status \in {"ready", "initializing", "qr_ready", "authenticating"}
              THEN Written("disconnected") ELSE row
    /\ \E c \in Calls :
        call' = [d \in Calls |-> IF d = c /\ row.there /\ row.linked
                                 THEN [job |-> "start", at |-> "finding", of |-> NoEngine]
                                 ELSE Idle]
    /\ asked' = "down" /\ alone' = TRUE /\ broken' = FALSE
    /\ UNCHANGED <<kind, login, revoked, wipedTo>>

Next ==
    \/ \E c \in Calls : (\E job \in Requested : Request(c, job)) \/ Step(c) \/ TimerFires(c)
    \/ \E e \in Engines : EngineEvent(e)
    \/ Revoke
    \/ Bootstrap

Fairness ==
    /\ \A c \in Calls :
        /\ WF_vars(Find(c)) /\ WF_vars(Begin(c)) /\ WF_vars(Refuse(c))
        /\ WF_vars(ClearAuthState(c)) /\ WF_vars(Stop(c)) /\ WF_vars(Delete(c))
        /\ WF_vars(Boot(c)) /\ WF_vars(Initialize(c)) /\ WF_vars(NotFound(c))
    /\ WF_vars(\E c \in Calls : TimerFires(c))
    /\ \A e \in Engines : WF_vars(Connects(e)) /\ WF_vars(QrCode(e)) /\ WF_vars(QrReady(e))
                          /\ WF_vars(Open(e)) /\ WF_vars(LoggedOut(e))

Spec == Init /\ [][Next]_vars /\ Fairness

----------------------------------------------------------------------------
(* Properties *)

\* Every variable has its type.
TypeOK ==
    /\ kind \in Kinds
    /\ row \in Rows
    /\ login \in 0..MaxLogins /\ wipedTo \in 0..MaxLogins
    /\ revoked \subseteq 1..MaxLogins
    /\ engine \in [Engines -> Instances]
    /\ current \in Engines \cup {NoEngine}
    /\ retry \in RetryStates
    /\ lost \in Nat
    /\ call \in [Calls -> [job : Jobs \cup {"none"},
                           at : {"idle", "finding", "found", "torn", "wiped", "setting"},
                           of : Engines \cup {NoEngine}]]
    /\ asked \in {"up", "down"} /\ alone \in BOOLEAN /\ broken \in BOOLEAN

\* A session that was stopped or deleted by a call that ran alone stays down:
\* no engine, no timer armed, and, unless its last query failed, a row that
\* says so (stop, delete, cancelReconnect, teardownEngine).
StopSticks ==
    asked = "down" /\ alone /\ AllIdle =>
        /\ current = NoEngine
        /\ ~retry.timer /\ lost = 0
        /\ row.there /\ ~broken => row.status \notin {"initializing", "qr_ready", "authenticating", "ready"}

\* When no call is in flight, the calls so far ran one at a time and none
\* failed halfway, the row says READY exactly when the registered engine is:
\* what the dashboard, the API and the senders go by.
RowTellsTheTruth ==
    AllIdle /\ alone /\ ~broken /\ row.there =>
        (row.status = "ready" <=> current # NoEngine /\ engine[current].status = "ready")

\* A wiped login comes back to the disk only from an engine that nobody
\* registered any more: relink, delete and the recovery from a logout all
\* tear the engine down before they wipe.
OnlyOrphansRestoreLogins ==
    [][login' \in 1..wipedTo /\ login' # login /\ alone => Orphans # {}]_vars

\* A session someone wants up, whose connection is down, is up again or shows
\* a code to scan in the end, whatever drops, logouts and failed attempts
\* come: nobody has to notice and click Reconnect, unless a call that the
\* service does not retry failed, or calls overlapped.
KeepsTrying ==
    asked = "up" ~> \/ \E e \in Engines : current = e
                          /\ (engine[e].status = "ready" \/ engine[e].qr = "shown")
                    \/ asked = "down" \/ broken \/ ~alone

\* POST /sessions/:id/stop: "Stop a session and disconnect WhatsApp"
\* (session.controller.ts).  Once stop or delete is done, no engine of the
\* session has a connection to WhatsApp.
StopDisconnects ==
    asked = "down" /\ AllIdle => \A e \in Engines : engine[e].phase # "up"
=============================================================================
