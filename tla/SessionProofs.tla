--------------------------- MODULE SessionProofs ---------------------------
(* What TLAPS proves of SessionLifecycle, for any engines, calls, kinds and  *)
(* bounds: a session that was stopped stays down, its row tells the truth    *)
(* about its engine, and only engines left over bring wiped logins back.     *)
EXTENDS SessionLifecycle, TLAPS

\* Where a call is at work on the session: past its first reads, or not asked for by anybody.
Past(c) == call[c].at \in {"torn", "wiped", "setting"}
Works(c) == Past(c) \/ (call[c].at # "idle" /\ call[c].job \notin Requested)

\* The registered engine, if there is one, brings no event that starts a call or arms a timer.
Dead == current # NoEngine => /\ engine[current].phase \notin {"loading", "up"}
                              /\ engine[current].status # "ready"

\* Types, those of what TypeOK leaves open included.
Shape ==
    /\ TypeOK
    /\ used \in [requests : Nat, drops : Nat, logins : 0..MaxLogins, faults : Nat]
    /\ wipedTo <= used.logins
    /\ retry.timer => retry.kept
    /\ \A c \in Calls : call[c].at = "setting" => call[c].of \in Engines

\* A session whose retries are kept has an engine, or a call that will make one.
WillBoot(c) ==
    \/ call[c].at = "torn" /\ call[c].job \notin {"stop", "delete"}
    \/ call[c].at = "wiped" /\ call[c].job \in {"relink", "recover"}
Booting == retry.kept /\ current = NoEngine => \E c \in Calls : WillBoot(c)

\* One call at a time works on the session, and no timer can start another meanwhile.
OneWorks ==
    /\ lost = 0
    /\ \A c, d \in Calls : Works(c) /\ Works(d) => c = d
    /\ \A c \in Calls : Works(c) => ~retry.timer /\ Dead
    /\ retry.timer => Dead
    /\ \A c \in Calls : call[c].at \in {"torn", "wiped"} => current = NoEngine
    /\ \A c \in Calls : call[c].at = "setting" =>
          /\ current = call[c].of
          /\ engine[current].status = "disconnected" /\ engine[current].qr = "none"

IsReady == current # NoEngine /\ engine[current].status = "ready"

\* The row and the engine agree whenever no call is between taking one down and putting one up.
Truth ==
    ~broken /\ row.there =>
        /\ (\A c \in Calls : call[c].at \notin {"torn", "wiped"}) => (row.status = "ready" <=> IsReady)
        /\ \A c \in Calls : call[c].at = "torn" /\ call[c].job = "reconnect" => row.status # "ready"

Active == {"initializing", "qr_ready", "authenticating", "ready"}

\* A session asked to be down has no engine; what is in flight are requests that have not begun
\* and the one that takes it down, whose last query may fail.
Stopped ==
    asked = "down" =>
        /\ current = NoEngine /\ ~retry.timer
        /\ \A c \in Calls : call[c].at # "idle" =>
              call[c].job \in Requested /\ (Past(c) => call[c].job \in {"stop", "delete"})
        /\ ~broken /\ row.there /\ (\A c \in Calls : ~Past(c)) => row.status \notin Active

\* At most one engine is left over; a wiped login that has come back is that one's; and the
\* registered engine has the login that is saved, or none, or one that was never wiped.
LeftOver ==
    /\ \A o, p \in Orphans : o = p
    /\ login \in 1..wipedTo => \A o \in Orphans : engine[o].creds = login
    /\ current # NoEngine => engine[current].creds \in {0, login} \/ engine[current].creds > wipedTo

IInv == Shape /\ Booting /\ (alone => OneWorks /\ Truth /\ Stopped /\ LeftOver)

-----------------------------------------------------------------------------
(* What the pieces of a step do to the parts of the state.                   *)

CallRecords == [job : Jobs \cup {"none"},
                at : {"idle", "finding", "found", "torn", "wiped", "setting"},
                of : Engines \cup {NoEngine}]

\* One engine becomes the instance i; the others stay what they are.
Turns(e, i) ==
    /\ engine' \in [Engines -> Instances]
    /\ engine'[e] = i
    /\ \A x \in Engines \ {e} : engine'[x] = engine[x]

\* The row is given a status, if it is there.
RowSays(status) ==
    /\ row' \in Rows /\ row'.there = row.there
    /\ row.there => row'.status = status

\* A timer is armed when the retries are kept.
RetryArmed ==
    /\ retry' \in RetryStates /\ retry'.kept = retry.kept
    /\ retry'.timer => retry'.kept

\* The records that several of the updates make, with names the lemmas can take them by.
Closing(i, s) == [i EXCEPT !.phase = "closed", !.status = s, !.creds = 0]
Loading(i, k, s) == [i EXCEPT !.phase = "loading", !.creds = k, !.status = s]
Shown(i) == [i EXCEPT !.qr = "shown", !.status = "qr_ready"]
Scanned(i, k) == [i EXCEPT !.creds = k, !.status = "authenticating", !.qr = "none"]
Opened(i) == [i EXCEPT !.status = "ready", !.qr = "none"]
Armed(r, t, a) == [r EXCEPT !.timer = t, !.attempts = a]
Linked(r, t) == [r EXCEPT !.status = "ready", !.linked = t]
Setting(r, e) == [r EXCEPT !.at = "setting", !.of = e]

LEMMA InstanceEnds ==
    ASSUME NEW i \in Instances, NEW k, NEW s
    PROVE  /\ Closing(i, s) = [phase |-> "closed", status |-> s, creds |-> 0, qr |-> i.qr]
           /\ Loading(i, k, s) = [phase |-> "loading", status |-> s, creds |-> k, qr |-> i.qr]
<1> DEFINE a == [i EXCEPT !.phase = "closed"]
           b == [a EXCEPT !.status = s]
           c == [i EXCEPT !.phase = "loading"]
           d == [c EXCEPT !.creds = k]
<1>1. /\ a = [phase |-> "closed", status |-> i.status, creds |-> i.creds, qr |-> i.qr]
      /\ c = [phase |-> "loading", status |-> i.status, creds |-> i.creds, qr |-> i.qr]
    BY DEF Instances
<1> HIDE DEF a, c
<1>2. /\ b = [phase |-> "closed", status |-> s, creds |-> i.creds, qr |-> i.qr]
      /\ d = [phase |-> "loading", status |-> i.status, creds |-> k, qr |-> i.qr]
    BY <1>1
<1> HIDE DEF b, d
<1>3. /\ [b EXCEPT !.creds = 0] = [phase |-> "closed", status |-> s, creds |-> 0, qr |-> i.qr]
      /\ [d EXCEPT !.status = s] = [phase |-> "loading", status |-> s, creds |-> k, qr |-> i.qr]
    BY <1>2
<1> QED
    BY <1>3 DEF a, b, c, d, Closing, Loading

LEMMA InstanceGoesOn ==
    ASSUME NEW i \in Instances, NEW k
    PROVE  /\ Shown(i) = [phase |-> i.phase, status |-> "qr_ready", creds |-> i.creds, qr |-> "shown"]
           /\ Opened(i) = [phase |-> i.phase, status |-> "ready", creds |-> i.creds, qr |-> "none"]
           /\ Scanned(i, k) = [phase |-> i.phase, status |-> "authenticating", creds |-> k, qr |-> "none"]
<1> DEFINE a == [i EXCEPT !.qr = "shown"]
           b == [i EXCEPT !.status = "ready"]
           c == [i EXCEPT !.creds = k]
           d == [c EXCEPT !.status = "authenticating"]
<1>1. /\ a = [phase |-> i.phase, status |-> i.status, creds |-> i.creds, qr |-> "shown"]
      /\ b = [phase |-> i.phase, status |-> "ready", creds |-> i.creds, qr |-> i.qr]
      /\ c = [phase |-> i.phase, status |-> i.status, creds |-> k, qr |-> i.qr]
    BY DEF Instances
<1> HIDE DEF a, b, c
<1>2. d = [phase |-> i.phase, status |-> "authenticating", creds |-> k, qr |-> i.qr]
    BY <1>1
<1> HIDE DEF d
<1>3. /\ [a EXCEPT !.status = "qr_ready"] = [phase |-> i.phase, status |-> "qr_ready", creds |-> i.creds, qr |-> "shown"]
      /\ [b EXCEPT !.qr = "none"] = [phase |-> i.phase, status |-> "ready", creds |-> i.creds, qr |-> "none"]
      /\ [d EXCEPT !.qr = "none"] = [phase |-> i.phase, status |-> "authenticating", creds |-> k, qr |-> "none"]
    BY <1>1, <1>2
<1> QED
    BY <1>3 DEF a, b, c, d, Shown, Opened, Scanned

LEMMA RetryAndRow ==
    ASSUME NEW r \in RetryStates, NEW o \in Rows, NEW t, NEW n
    PROVE  /\ Armed(r, t, n) = [kept |-> r.kept, attempts |-> n, timer |-> t]
           /\ Linked(o, t) = [there |-> o.there, status |-> "ready", linked |-> t]
<1> DEFINE a == [r EXCEPT !.timer = t]
           b == [o EXCEPT !.status = "ready"]
<1>1. /\ a = [kept |-> r.kept, attempts |-> r.attempts, timer |-> t]
      /\ b = [there |-> o.there, status |-> "ready", linked |-> o.linked]
    BY DEF RetryStates, Rows
<1> HIDE DEF a, b
<1>2. /\ [a EXCEPT !.attempts = n] = [kept |-> r.kept, attempts |-> n, timer |-> t]
      /\ [b EXCEPT !.linked = t] = [there |-> o.there, status |-> "ready", linked |-> t]
    BY <1>1
<1> QED
    BY <1>1, <1>2 DEF a, b, Armed, Linked

LEMMA CallSets ==
    ASSUME NEW r \in CallRecords, NEW e
    PROVE  Setting(r, e) = [job |-> r.job, at |-> "setting", of |-> e]
<1> DEFINE a == [r EXCEPT !.at = "setting"]
<1>1. a = [job |-> r.job, at |-> "setting", of |-> r.of]
    BY DEF CallRecords
<1> HIDE DEF a
<1>2. [a EXCEPT !.of = e] = [job |-> r.job, at |-> "setting", of |-> e]
    BY <1>1
<1> QED
    BY <1>2 DEF a, Setting

\* What cancelling, resetting and firing leave of the retries.
LEMMA RetryValues ==
    ASSUME retry \in RetryStates
    PROVE  /\ LET r == [retry EXCEPT !.timer = FALSE]
              IN r \in RetryStates /\ r.kept = retry.kept /\ ~r.timer
           /\ LET r == [NoRetry EXCEPT !.kept = TRUE]
              IN r \in RetryStates /\ r.kept /\ ~r.timer
           /\ NoRetry \in RetryStates /\ ~NoRetry.kept /\ ~NoRetry.timer
<1>1. NoRetry \in RetryStates /\ ~NoRetry.kept /\ ~NoRetry.timer
    BY BoundAssumption DEF NoRetry, RetryStates
<1>2. LET r == [retry EXCEPT !.timer = FALSE]
      IN r \in RetryStates /\ r.kept = retry.kept /\ ~r.timer
    BY DEF RetryStates
<1>3. LET r == [NoRetry EXCEPT !.kept = TRUE] IN r \in RetryStates /\ r.kept /\ ~r.timer
    BY <1>1 DEF RetryStates
<1> QED
    BY <1>1, <1>2, <1>3

LEMMA ResetEffect ==
    ASSUME Shape, NEW c \in Calls, ResetRetry(c)
    PROVE  /\ retry' \in RetryStates /\ (retry'.timer => retry'.kept) /\ lost' \in Nat
           /\ ~retry.timer => lost' = lost /\ ~retry'.timer
<1>1. CASE call[c].job \in Requested
    <2>1. retry' = [NoRetry EXCEPT !.kept = TRUE]
        BY <1>1 DEF ResetRetry
    <2>2. retry' \in RetryStates /\ retry'.kept /\ ~retry'.timer
        BY <2>1, RetryValues DEF Shape, TypeOK
    <2>3. lost' = IF retry.timer THEN lost + 1 ELSE lost
        BY <1>1 DEF ResetRetry
    <2>4. lost' \in Nat /\ (~retry.timer => lost' = lost)
        BY <2>3 DEF Shape, TypeOK
    <2> QED
        BY <2>2, <2>4
<1>2. CASE call[c].job \notin Requested
    BY <1>2 DEF ResetRetry, Shape, TypeOK
<1> QED
    BY <1>1, <1>2

LEMMA TurnsTo ==
    ASSUME Shape, NEW e \in Engines, NEW i \in Instances, engine' = [engine EXCEPT ![e] = i]
    PROVE  Turns(e, i)
    BY DEF Shape, TypeOK, Turns

LEMMA WrittenType ==
    ASSUME row \in Rows, NEW status \in Statuses, row' = Written(status)
    PROVE  RowSays(status)
    BY DEF Written, Rows, RowSays

LEMMA ScheduledType ==
    ASSUME retry \in RetryStates, row \in Rows, retry.timer => retry.kept, NEW immediate \in BOOLEAN,
           retry' = Scheduled(immediate)
    PROVE  RetryArmed
<1> DEFINE n == IF immediate \/ retry.attempts > MaxAttempts THEN retry.attempts
                ELSE retry.attempts + 1
<1>1. n \in 0..(MaxAttempts + 1)
    BY BoundAssumption DEF RetryStates
<1>2. retry.kept => retry' = Armed(retry, TRUE, n)
    BY DEF Scheduled, Armed
<1>3. ~retry.kept => retry' = retry
    BY DEF Scheduled
<1> HIDE DEF n
<1>4. Armed(retry, TRUE, n) = [kept |-> retry.kept, attempts |-> n, timer |-> TRUE]
    <2> DEFINE yes == TRUE
    <2> HIDE DEF yes
    <2>1. Armed(retry, yes, n) = [kept |-> retry.kept, attempts |-> n, timer |-> yes]
        BY RetryAndRow
    <2> QED
        BY <2>1 DEF yes
<1>5. CASE retry.kept
    <2>1. retry' = [kept |-> TRUE, attempts |-> n, timer |-> TRUE]
        BY <1>2, <1>4, <1>5 DEF RetryStates
    <2> QED
        BY <1>1, <1>5, <2>1 DEF RetryArmed, RetryStates
<1>6. CASE ~retry.kept
    BY <1>3, <1>6 DEF RetryArmed
<1> QED
    BY <1>5, <1>6

LEMMA ScheduleType ==
    ASSUME Shape, NEW status \in Statuses, NEW immediate \in BOOLEAN,
           ScheduleReconnect(status, immediate)
    PROVE  RetryArmed /\ (RowSays(status) \/ RowSays("failed"))
<1>1. RetryArmed
    BY ScheduledType DEF ScheduleReconnect, Shape, TypeOK
<1>2. CASE GivesUpFast(immediate)
    BY <1>1, <1>2, WrittenType DEF ScheduleReconnect, Shape, TypeOK, Statuses
<1>3. CASE ~GivesUpFast(immediate)
    BY <1>1, <1>3, WrittenType DEF ScheduleReconnect, Shape, TypeOK
<1> QED
    BY <1>2, <1>3

LEMMA CallMoves ==
    ASSUME Shape, NEW c \in Calls, NEW place \in {"idle", "finding", "found", "torn", "wiped"},
           Goto(c, place)
    PROVE  /\ call' \in [Calls -> CallRecords]
           /\ call'[c].at = place /\ call'[c].job = call[c].job
           /\ \A d \in Calls \ {c} : call'[d] = call[d]
    BY DEF Shape, TypeOK, Goto, CallRecords

LEMMA CallReturns ==
    ASSUME Shape, NEW c \in Calls, Return(c)
    PROVE  /\ call' \in [Calls -> CallRecords]
           /\ call'[c] = Idle /\ call'[c].at = "idle"
           /\ \A d \in Calls \ {c} : call'[d] = call[d]
    BY DEF Shape, TypeOK, Return, CallRecords, Idle

LEMMA CaughtEffect ==
    ASSUME Shape, NEW c \in Calls, Caught(c)
    PROVE  /\ row' \in Rows /\ row'.there = row.there /\ RetryArmed /\ broken' \in BOOLEAN
           /\ row.there /\ row'.status = "ready" => row.status = "ready"
           /\ row.there /\ row'.status \in Active => row.status \in Active
           /\ call[c].job # "reconnect" => retry' = retry /\ broken'
           /\ call[c].job = "reconnect" => broken' = broken
           /\ call[c].job \notin {"reconnect", "recover"} => row' = row
<1>1. row.status \in Statuses /\ row \in Rows
    BY DEF Shape, TypeOK, Rows
<1>2. CASE call[c].job = "reconnect"
    <2>1. ScheduleReconnect(row.status, FALSE) /\ broken' = broken
        BY <1>2 DEF Caught, Shape, TypeOK
    <2>2. RetryArmed /\ (RowSays(row.status) \/ RowSays("failed"))
        BY <1>1, <2>1, ScheduleType
    <2> QED
        BY <1>2, <2>1, <2>2 DEF RowSays, Shape, TypeOK, Active
<1>3. CASE call[c].job = "recover"
    <2>1. row' = Written("failed") /\ retry' = retry /\ broken' = TRUE
        BY <1>3 DEF Caught
    <2>2. RowSays("failed")
        BY <1>1, <2>1, WrittenType DEF Statuses
    <2> QED
        BY <1>3, <2>1, <2>2 DEF RowSays, RetryArmed, Shape, TypeOK, Active
<1>4. CASE call[c].job \notin {"reconnect", "recover"}
    <2>1. row' = row /\ retry' = retry /\ broken' = TRUE
        BY <1>4 DEF Caught
    <2> QED
        BY <1>1, <1>4, <2>1 DEF RetryArmed, Shape, TypeOK
<1> QED
    BY <1>2, <1>3, <1>4

\* The events of an engine.
LEMMA ClosedEffect ==
    ASSUME Shape, NEW e \in Engines, Closed(e)
    PROVE  Turns(e, IF current = e THEN [phase |-> "closed", status |-> "disconnected",
                                         creds |-> 0, qr |-> engine[e].qr]
                    ELSE Gone)
<1>1. engine[e] \in Instances
    BY DEF Shape, TypeOK
<1>2. CASE current = e
    <2>1. engine' = [engine EXCEPT ![e] = Closing(engine[e], "disconnected")]
        BY <1>2 DEF Closed, Closing
    <2>2. engine' = [engine EXCEPT ![e] = [phase |-> "closed", status |-> "disconnected",
                                           creds |-> 0, qr |-> engine[e].qr]]
        BY <1>1, <2>1, InstanceEnds
    <2>3. [phase |-> "closed", status |-> "disconnected", creds |-> 0, qr |-> engine[e].qr] \in Instances
        BY <1>1, BoundAssumption DEF Instances, Statuses
    <2> QED
        BY <1>2, <2>2, <2>3, TurnsTo
<1>3. CASE current # e
    <2>1. engine' = [engine EXCEPT ![e] = Gone]
        BY <1>3 DEF Closed
    <2>2. Gone \in Instances
        BY BoundAssumption DEF Instances, Statuses, Gone
    <2> QED
        BY <1>3, <2>1, <2>2, TurnsTo
<1> QED
    BY <1>2, <1>3

LEMMA InitializeEffect ==
    ASSUME Shape, NEW c \in Calls, Initialize(c)
    PROVE  /\ call[c].of \in Engines
           /\ Turns(call[c].of, [phase |-> "loading",
                                 status |-> IF ReportsStart THEN "initializing" ELSE engine[call[c].of].status,
                                 creds |-> login, qr |-> engine[call[c].of].qr])
           /\ row' = row \/ (ReportsStart /\ current = call[c].of /\ RowSays("initializing"))
           /\ (ReportsStart /\ current = call[c].of => RowSays("initializing"))
<1> DEFINE e == call[c].of
           s == IF ReportsStart THEN "initializing" ELSE engine[e].status
           i == [phase |-> "loading", status |-> s, creds |-> login, qr |-> engine[e].qr]
<1>1. e \in Engines
    BY DEF Shape, Initialize
<1>2. engine[e] \in Instances /\ row \in Rows
    BY <1>1 DEF Shape, TypeOK
<1>3. engine' = [engine EXCEPT ![e].phase = "loading", ![e].creds = login, ![e].status = s]
    BY DEF Initialize
<1>4. engine' = [engine EXCEPT ![e] = Loading(engine[e], login, s)]
    BY <1>1, <1>3 DEF Shape, TypeOK, Loading
<1>5. Loading(engine[e], login, s) = i
    BY <1>2, InstanceEnds
<1>6. i \in Instances
    BY <1>2 DEF Instances, Shape, TypeOK, Statuses
<1>7. Turns(e, i)
    <2> HIDE DEF i, s
    <2> QED BY <1>1, <1>4, <1>5, <1>6, TurnsTo
<1>8. IF ReportsStart THEN OnStateChanged(e, "initializing") ELSE row' = row
    BY DEF Initialize
<1>9. row' = row \/ (ReportsStart /\ current = e /\ RowSays("initializing"))
    BY <1>2, <1>8, WrittenType DEF OnStateChanged, Statuses
<1>10. ReportsStart /\ current = e => RowSays("initializing")
    BY <1>2, <1>8, WrittenType DEF OnStateChanged, Statuses
<1> QED
    BY <1>1, <1>7, <1>9, <1>10

LEMMA InitializeFailsEffect ==
    ASSUME Shape, NEW e \in Engines, InitializeFails(e)
    PROVE  /\ current = e => /\ Turns(e, [phase |-> "closed", status |-> "failed", creds |-> 0, qr |-> engine[e].qr])
                             /\ RowSays("failed") /\ RetryArmed
           /\ current # e => Turns(e, Gone) /\ row' = row /\ retry' = retry
<1>1. engine[e] \in Instances
    BY DEF Shape, TypeOK
<1>2. ASSUME current = e
      PROVE  /\ Turns(e, [phase |-> "closed", status |-> "failed", creds |-> 0, qr |-> engine[e].qr])
             /\ RowSays("failed") /\ RetryArmed
    <2>1. /\ engine' = [engine EXCEPT ![e].phase = "closed", ![e].status = "failed", ![e].creds = 0]
          /\ ScheduleReconnect("failed", FALSE)
        BY <1>2 DEF InitializeFails
    <2>2. engine' = [engine EXCEPT ![e] = Closing(engine[e], "failed")]
        BY <2>1 DEF Shape, TypeOK, Closing
    <2>3. engine' = [engine EXCEPT ![e] = [phase |-> "closed", status |-> "failed", creds |-> 0, qr |-> engine[e].qr]]
        BY <1>1, <2>2, InstanceEnds
    <2>4. [phase |-> "closed", status |-> "failed", creds |-> 0, qr |-> engine[e].qr] \in Instances
        BY <1>1, BoundAssumption DEF Instances, Statuses
    <2>5. Turns(e, [phase |-> "closed", status |-> "failed", creds |-> 0, qr |-> engine[e].qr])
        BY <2>3, <2>4, TurnsTo
    <2>6. RowSays("failed") /\ RetryArmed
        BY <2>1, ScheduleType DEF Statuses
    <2> QED
        BY <2>5, <2>6
<1>3. ASSUME current # e PROVE Turns(e, Gone) /\ row' = row /\ retry' = retry
    <2>1. engine' = [engine EXCEPT ![e] = Gone] /\ row' = row /\ retry' = retry
        BY <1>3 DEF InitializeFails
    <2>2. Gone \in Instances
        BY BoundAssumption DEF Instances, Statuses, Gone
    <2> QED
        BY <2>1, <2>2, TurnsTo
<1> QED
    BY <1>2, <1>3

LEMMA QrReadyEffect ==
    ASSUME Shape, NEW e \in Engines, QrReady(e)
    PROVE  /\ Turns(e, [phase |-> engine[e].phase, status |-> "qr_ready", creds |-> engine[e].creds, qr |-> "shown"])
           /\ current = e => RowSays("qr_ready")
           /\ current # e => row' = row
<1>1. engine[e] \in Instances /\ row \in Rows
    BY DEF Shape, TypeOK
<1>2. engine' = [engine EXCEPT ![e] = Shown(engine[e])]
    BY DEF Shape, TypeOK, QrReady, Shown
<1>3. engine' = [engine EXCEPT ![e] = [phase |-> engine[e].phase, status |-> "qr_ready",
                                       creds |-> engine[e].creds, qr |-> "shown"]]
    BY <1>1, <1>2, InstanceGoesOn
<1>4. [phase |-> engine[e].phase, status |-> "qr_ready", creds |-> engine[e].creds, qr |-> "shown"] \in Instances
    BY <1>1 DEF Instances, Statuses
<1>5. Turns(e, [phase |-> engine[e].phase, status |-> "qr_ready", creds |-> engine[e].creds, qr |-> "shown"])
    BY <1>3, <1>4, TurnsTo
<1>6. current = e => RowSays("qr_ready")
    BY <1>1, WrittenType DEF QrReady, OnQRCode, OnStateChanged, Statuses
<1>7. current # e => row' = row
    BY DEF QrReady, OnQRCode, OnStateChanged
<1> QED
    BY <1>5, <1>6, <1>7

LEMMA ScanEffect ==
    ASSUME Shape, NEW e \in Engines, Scan(e)
    PROVE  /\ login' = used.logins + 1 /\ login' \in 0..MaxLogins
           /\ kind = "baileys" =>
                /\ Closed(e)
                /\ current = e => RetryArmed /\ (RowSays("disconnected") \/ RowSays("failed"))
                /\ current # e => row' = row /\ retry' = retry
           /\ kind # "baileys" =>
                /\ Turns(e, [phase |-> engine[e].phase, status |-> "authenticating", creds |-> login', qr |-> "none"])
                /\ current = e => RowSays("authenticating")
                /\ current # e => row' = row
                /\ retry' = retry
<1>1. engine[e] \in Instances /\ row \in Rows
    BY DEF Shape, TypeOK
<1>2. login' = used.logins + 1 /\ login' \in 0..MaxLogins
    BY BoundAssumption DEF Scan, Shape
<1>3. ASSUME kind = "baileys"
      PROVE  /\ Closed(e)
             /\ current = e => RetryArmed /\ (RowSays("disconnected") \/ RowSays("failed"))
             /\ current # e => row' = row /\ retry' = retry
    <2>1. Closed(e) /\ HandleDisconnected(e, TRUE)
        BY <1>3 DEF Scan
    <2>2. current = e => RetryArmed /\ (RowSays("disconnected") \/ RowSays("failed"))
        BY <2>1, ScheduleType DEF HandleDisconnected, Statuses
    <2> QED
        BY <2>1, <2>2 DEF HandleDisconnected
<1>4. ASSUME kind # "baileys"
      PROVE  /\ Turns(e, [phase |-> engine[e].phase, status |-> "authenticating", creds |-> login', qr |-> "none"])
             /\ current = e => RowSays("authenticating")
             /\ current # e => row' = row
             /\ retry' = retry
    <2>1. /\ engine' = [engine EXCEPT ![e].creds = login', ![e].status = "authenticating", ![e].qr = "none"]
          /\ OnStateChanged(e, "authenticating") /\ retry' = retry
        BY <1>2, <1>4 DEF Scan
    <2>2. engine' = [engine EXCEPT ![e] = Scanned(engine[e], login')]
        BY <2>1 DEF Shape, TypeOK, Scanned
    <2>3. engine' = [engine EXCEPT ![e] = [phase |-> engine[e].phase, status |-> "authenticating", creds |-> login', qr |-> "none"]]
        BY <1>1, <2>2, InstanceGoesOn
    <2>4. [phase |-> engine[e].phase, status |-> "authenticating", creds |-> login', qr |-> "none"] \in Instances
        BY <1>1, <1>2 DEF Instances, Statuses
    <2>5. Turns(e, [phase |-> engine[e].phase, status |-> "authenticating", creds |-> login', qr |-> "none"])
        BY <2>3, <2>4, TurnsTo
    <2>6. current = e => RowSays("authenticating")
        BY <1>1, <2>1, WrittenType DEF OnStateChanged, Statuses
    <2> QED
        BY <2>1, <2>5, <2>6 DEF OnStateChanged
<1> QED
    BY <1>2, <1>3, <1>4

LEMMA OpenEffect ==
    ASSUME Shape, NEW e \in Engines, Open(e)
    PROVE  /\ Turns(e, [phase |-> engine[e].phase, status |-> "ready", creds |-> engine[e].creds, qr |-> "none"])
           /\ current = e => RowSays("ready")
           /\ current # e => row' = row
           /\ retry' \in RetryStates /\ retry'.kept = retry.kept /\ retry'.timer = retry.timer
<1>1. engine[e] \in Instances /\ row \in Rows /\ retry \in RetryStates
    BY DEF Shape, TypeOK
<1>2. engine' = [engine EXCEPT ![e] = Opened(engine[e])]
    BY DEF Shape, TypeOK, Open, Opened
<1>3. engine' = [engine EXCEPT ![e] = [phase |-> engine[e].phase, status |-> "ready",
                                       creds |-> engine[e].creds, qr |-> "none"]]
    BY <1>1, <1>2, InstanceGoesOn
<1>4. [phase |-> engine[e].phase, status |-> "ready", creds |-> engine[e].creds, qr |-> "none"] \in Instances
    BY <1>1 DEF Instances, Statuses
<1>5. Turns(e, [phase |-> engine[e].phase, status |-> "ready", creds |-> engine[e].creds, qr |-> "none"])
    BY <1>3, <1>4, TurnsTo
<1>6. current = e => RowSays("ready")
    <2> SUFFICES ASSUME current = e PROVE RowSays("ready")
        OBVIOUS
    <2>1. row' = IF row.there THEN [row EXCEPT !.status = "ready", !.linked = TRUE] ELSE row
        BY DEF Open, OnReady
    <2>2. row.there => row' = Linked(row, TRUE)
        BY <2>1 DEF Linked
    <2>3. Linked(row, TRUE) = [there |-> row.there, status |-> "ready", linked |-> TRUE]
        BY <1>1, RetryAndRow
    <2>4. row.there => row' = [there |-> TRUE, status |-> "ready", linked |-> TRUE]
        BY <1>1, <2>2, <2>3 DEF Rows
    <2> QED
        BY <1>1, <2>1, <2>4 DEF RowSays, Rows, Statuses
<1>7. current # e => row' = row
    BY DEF Open, OnReady
<1>8. retry' \in RetryStates /\ retry'.kept = retry.kept /\ retry'.timer = retry.timer
    BY <1>1, BoundAssumption DEF Open, OnReady, RetryStates
<1> QED
    BY <1>5, <1>6, <1>7, <1>8

LEMMA DropEffect ==
    ASSUME Shape, NEW e \in Engines, Drop(e)
    PROVE  /\ Closed(e)
           /\ current = e => RetryArmed /\ (RowSays("disconnected") \/ RowSays("failed"))
           /\ current # e => row' = row /\ retry' = retry
    BY ScheduleType DEF Drop, HandleDisconnected, Statuses

LEMMA LoggedOutEffect ==
    ASSUME Shape, NEW e \in Engines, LoggedOut(e)
    PROVE  /\ Closed(e)
           /\ current = e => /\ RowSays("disconnected") /\ call' \in [Calls -> CallRecords]
                             /\ \E c \in Calls :
                                  /\ call[c] = Idle
                                  /\ call'[c] = [job |-> "recover", at |-> "finding", of |-> NoEngine]
                                  /\ \A d \in Calls \ {c} : call'[d] = call[d]
           /\ current # e => row' = row /\ call' = call
<1>1. row \in Rows
    BY DEF Shape, TypeOK
<1>2. ASSUME current = e
      PROVE  /\ RowSays("disconnected") /\ call' \in [Calls -> CallRecords]
             /\ \E c \in Calls :
                  /\ call[c] = Idle
                  /\ call'[c] = [job |-> "recover", at |-> "finding", of |-> NoEngine]
                  /\ \A d \in Calls \ {c} : call'[d] = call[d]
    <2>1. PICK c \in Calls :
              /\ call[c] = Idle
              /\ call' = [call EXCEPT ![c] = [job |-> "recover", at |-> "finding", of |-> NoEngine]]
              /\ row' = Written("disconnected")
        BY <1>2 DEF LoggedOut
    <2>2. RowSays("disconnected")
        BY <1>1, <2>1, WrittenType DEF Statuses
    <2> QED
        BY <2>1, <2>2 DEF Shape, TypeOK, CallRecords, Jobs
<1> QED
    BY <1>2 DEF LoggedOut

-----------------------------------------------------------------------------
(* Types.                                                                    *)

LEMMA ShapeInit == Init => Shape
<1> SUFFICES ASSUME Init PROVE Shape
    OBVIOUS
<1>1. login \in 0..MaxLogins
    BY BoundAssumption DEF Init
<1>4. row \in Rows
    <2>1. /\ [there |-> TRUE, status |-> "created", linked |-> FALSE] \in Rows
          /\ [there |-> TRUE, status |-> "disconnected", linked |-> TRUE] \in Rows
        BY DEF Rows, Statuses
    <2> QED
        BY <2>1 DEF Init
<1>2. Gone \in Instances /\ NoRetry \in RetryStates /\ ~NoRetry.timer
    BY BoundAssumption DEF Gone, NoRetry, Instances, RetryStates, Statuses
<1>5. used \in [requests : Nat, drops : Nat, logins : 0..MaxLogins, faults : Nat]
      /\ used.logins = login /\ wipedTo = 0 /\ wipedTo \in 0..MaxLogins
    BY <1>1, BoundAssumption DEF Init
<1>6. Idle \in CallRecords
    BY DEF Idle, CallRecords
<1>3. \A c \in Calls : call[c].at = "idle"
    BY DEF Init, Idle
<1> QED
    <2>1. asked \in {"up", "down"} /\ alone \in BOOLEAN /\ broken \in BOOLEAN
        BY DEF Init
    <2>2. call \in [Calls -> CallRecords] /\ engine \in [Engines -> Instances]
        BY <1>2, <1>6 DEF Init
    <2>3. TypeOK
        BY <1>1, <1>2, <1>4, <1>5, <2>1, <2>2 DEF Init, TypeOK, CallRecords
    <2>4. wipedTo <= used.logins
        BY <1>1, <1>5, BoundAssumption
    <2>5. ~retry.timer
        BY <1>2 DEF Init
    <2> QED
        BY <1>3, <1>5, <2>3, <2>4, <2>5 DEF Shape

LEMMA ShapeStep ==
    ASSUME Shape, [Next]_vars PROVE Shape'
<1> USE EngineAssumption, BoundAssumption DEF Shape, Use
<1>1. ASSUME NEW c \in Calls, NEW job \in Requested, Request(c, job) PROVE Shape'
    BY <1>1 DEF Request, TypeOK, history, Jobs, Requested
<1>2. ASSUME NEW c \in Calls, Find(c) PROVE Shape'
    BY <1>2, CallMoves DEF Find, TypeOK, history, CallRecords
<1>3. ASSUME NEW c \in Calls, NotFound(c) PROVE Shape'
    <2>1. Caught(c) /\ Return(c)
        BY <1>3 DEF NotFound, Caught
    <2> QED
        BY <1>3, <2>1, CallReturns, CaughtEffect DEF NotFound, TypeOK, RetryArmed, CallRecords
<1>4. ASSUME NEW c \in Calls, Begin(c) PROVE Shape'
    <2>1. retry' \in RetryStates /\ (retry'.timer => retry'.kept)
        BY <1>4, RetryValues DEF Begin, TypeOK, CancelReconnect
    <2>2. engine' \in [Engines -> Instances] /\ current' = NoEngine
        BY <1>4 DEF Begin, TearDown, TypeOK, Destroyed, Gone, Instances, Statuses
    <2>3. Goto(c, "torn") /\ asked' \in {"up", "down"} /\ alone' \in BOOLEAN /\ broken' \in BOOLEAN
        BY <1>4 DEF Begin, TypeOK
    <2> QED
        BY <1>4, <2>1, <2>2, <2>3, CallMoves DEF Begin, TypeOK, CallRecords
<1>5. ASSUME NEW c \in Calls, Refuse(c) PROVE Shape'
    BY <1>5, CallReturns DEF Refuse, TypeOK, history, CallRecords
<1>6. ASSUME NEW c \in Calls, ClearAuthState(c) PROVE Shape'
    BY <1>6, CallMoves DEF ClearAuthState, TypeOK, history, CallRecords, Wiped
<1>7. ASSUME NEW c \in Calls, Delete(c) PROVE Shape'
    BY <1>7, CallReturns DEF Delete, TypeOK, history, CallRecords, Rows, Statuses
<1>8. ASSUME NEW c \in Calls, Stop(c) PROVE Shape'
    BY <1>8, CallReturns, WrittenType DEF Stop, RowSays, TypeOK, history, CallRecords, Statuses
<1>9. ASSUME NEW c \in Calls, Boot(c) PROVE Shape'
    <2>1. retry' \in RetryStates /\ (retry'.timer => retry'.kept) /\ lost' \in Nat
        BY <1>9, ResetEffect DEF Boot
    <2>2. row' \in Rows
        BY <1>9, WrittenType DEF Boot, RowSays, TypeOK, Statuses
    <2>3. PICK e \in Engines : /\ Register(e)
                               /\ call' = [call EXCEPT ![c].at = "setting", ![c].of = e]
        BY <1>9 DEF Boot
    <2>4. engine' \in [Engines -> Instances] /\ current' \in Engines
        BY <2>3 DEF Register, TypeOK, Created, Gone, Instances, Statuses
    <2>5. call' \in [Calls -> CallRecords] /\ \A d \in Calls : call'[d].at = "setting" => call'[d].of \in Engines
        <3>1. call' = [call EXCEPT ![c] = Setting(call[c], e)]
            BY <2>3 DEF TypeOK, Setting
        <3>2. Setting(call[c], e) = [job |-> call[c].job, at |-> "setting", of |-> e]
            BY CallSets DEF TypeOK, CallRecords
        <3> QED
            BY <3>1, <3>2 DEF TypeOK, CallRecords
    <2> QED
        BY <1>9, <2>1, <2>2, <2>4, <2>5 DEF Boot, TypeOK, CallRecords
<1>10. ASSUME NEW c \in Calls, BootFails(c) PROVE Shape'
    <2>1. /\ retry' \in RetryStates /\ (retry'.timer => retry'.kept) /\ lost' \in Nat /\ row' \in Rows
          /\ Return(c) /\ broken' \in BOOLEAN
        <3>1. CASE call[c].job \in Requested
            BY <1>10, <3>1, ResetEffect DEF BootFails, TypeOK
        <3>2. CASE call[c].job \notin Requested
            <4>1. Caught(c) /\ lost' = lost
                BY <1>10, <3>2 DEF BootFails
            <4> QED
                BY <4>1, CaughtEffect DEF Caught, RetryArmed, TypeOK
        <3> QED
            BY <3>1, <3>2
    <2>2. engine' \in [Engines -> Instances] /\ current' \in Engines
        BY <1>10 DEF BootFails, Register, TypeOK, Created, Gone, Instances, Statuses
    <2> QED
        BY <1>10, <2>1, <2>2, CallReturns DEF BootFails, TypeOK, CallRecords
<1>11. ASSUME NEW c \in Calls, Initialize(c) PROVE Shape'
    <2>1. engine' \in [Engines -> Instances] /\ row' \in Rows
        BY <1>11, InitializeEffect DEF Turns, RowSays, TypeOK
    <2> QED
        BY <1>11, <2>1, CallReturns DEF Initialize, TypeOK, history, CallRecords
<1>12. ASSUME NEW c \in Calls, TimerFires(c) PROVE Shape'
    <2>3. retry' \in RetryStates /\ (retry'.timer => retry'.kept) /\ lost' \in Nat
        <3>1. CASE retry.timer /\ retry' = [retry EXCEPT !.timer = FALSE] /\ lost' = lost
            BY <3>1, RetryValues DEF TypeOK
        <3>2. CASE lost > 0 /\ lost' = lost - 1 /\ retry' = retry
            BY <3>2 DEF TypeOK
        <3> QED
            BY <1>12, <3>1, <3>2 DEF TimerFires
    <2> QED
        BY <1>12, <2>3 DEF TimerFires, TypeOK, history, Jobs
<1>13. ASSUME NEW e \in Engines, Connects(e) PROVE Shape'
    BY <1>13 DEF Connects, TypeOK, history, Instances
<1>14. ASSUME NEW e \in Engines, InitializeFails(e) PROVE Shape'
    <2>1. /\ engine' \in [Engines -> Instances] /\ row' \in Rows /\ retry' \in RetryStates
          /\ retry'.timer => retry'.kept
        BY <1>14, InitializeFailsEffect DEF Turns, RowSays, RetryArmed, TypeOK
    <2> QED
        BY <1>14, <2>1 DEF InitializeFails, TypeOK, history
<1>15. ASSUME NEW e \in Engines, QrCode(e) PROVE Shape'
    BY <1>15 DEF QrCode, TypeOK, history, Instances
<1>16. ASSUME NEW e \in Engines, QrReady(e) PROVE Shape'
    BY <1>16, QrReadyEffect DEF QrReady, Turns, RowSays, TypeOK, history
<1>17. ASSUME NEW e \in Engines, Scan(e) PROVE Shape'
    <2>1. engine' \in [Engines -> Instances] /\ row' \in Rows /\ retry' \in RetryStates
          /\ (retry'.timer => retry'.kept) /\ login' \in 0..MaxLogins
        BY <1>17, ScanEffect, ClosedEffect DEF Turns, RowSays, RetryArmed, TypeOK
    <2> QED
        BY <1>17, <2>1 DEF Scan, TypeOK, history
<1>18. ASSUME NEW e \in Engines, Open(e) PROVE Shape'
    BY <1>18, OpenEffect DEF Open, Turns, RowSays, TypeOK, history
<1>19. ASSUME NEW e \in Engines, SaveCreds(e) PROVE Shape'
    BY <1>19 DEF SaveCreds, TypeOK, history, Instances
<1>20. ASSUME NEW e \in Engines, Drop(e) PROVE Shape'
    <2>1. engine' \in [Engines -> Instances] /\ row' \in Rows /\ retry' \in RetryStates
          /\ (retry'.timer => retry'.kept)
        BY <1>20, DropEffect, ClosedEffect DEF Turns, RowSays, RetryArmed, TypeOK
    <2> QED
        BY <1>20, <2>1 DEF Drop, TypeOK, history
<1>21. ASSUME Revoke PROVE Shape'
    <2>1. used.logins \in 1..MaxLogins /\ used'.logins = used.logins
          /\ used' \in [requests : Nat, drops : Nat, logins : 0..MaxLogins, faults : Nat]
        BY <1>21 DEF Revoke
    <2>2. revoked' \subseteq 1..MaxLogins
        BY <1>21, <2>1 DEF Revoke, TypeOK
    <2> QED
        BY <1>21, <2>1, <2>2 DEF Revoke, TypeOK, history
<1>22. ASSUME NEW e \in Engines, LoggedOut(e) PROVE Shape'
    <2>1. engine' \in [Engines -> Instances] /\ row' \in Rows
        BY <1>22, LoggedOutEffect, ClosedEffect DEF Turns, RowSays, TypeOK
    <2>2. call' \in [Calls -> CallRecords]
          /\ \A d \in Calls : call'[d].at = "setting" => call'[d] = call[d]
        <3>1. CASE current = e
            BY <1>22, <3>1, LoggedOutEffect
        <3>2. CASE current # e
            BY <1>22, <3>2, LoggedOutEffect DEF TypeOK, CallRecords
        <3> QED
            BY <3>1, <3>2
    <2> QED
        BY <1>22, <2>1, <2>2 DEF LoggedOut, TypeOK, history, CallRecords
<1>23. ASSUME Bootstrap PROVE Shape'
    <2>1. row' \in Rows
        BY <1>23, WrittenType DEF Bootstrap, RowSays, TypeOK, Statuses
    <2>2. Gone \in Instances /\ NoRetry \in RetryStates /\ ~NoRetry.timer
        BY DEF Gone, NoRetry, Instances, RetryStates, Statuses
    <2>3. call' \in [Calls -> CallRecords] /\ \A d \in Calls : call'[d].at # "setting"
        BY <1>23 DEF Bootstrap, CallRecords, Idle, Jobs, Requested
    <2>4. /\ used' \in [requests : Nat, drops : Nat, logins : 0..MaxLogins, faults : Nat]
          /\ used'.logins = used.logins /\ lost' = 0 /\ current' = NoEngine
          /\ engine' = [e \in Engines |-> Gone] /\ retry' = NoRetry
          /\ UNCHANGED <<kind, login, revoked, wipedTo>>
          /\ asked' = "down" /\ alone' = TRUE /\ broken' = FALSE
        BY <1>23 DEF Bootstrap
    <2> QED
        BY <2>1, <2>2, <2>3, <2>4 DEF TypeOK, CallRecords
<1>24. CASE UNCHANGED vars
    BY <1>24 DEF vars, TypeOK
<1>25. ASSUME NEW c \in Calls, ClearAuthStateFails(c) PROVE Shape'
    BY <1>25, CallMoves DEF ClearAuthStateFails, TypeOK, history, CallRecords
<1>26. ASSUME NEW c \in Calls, LastWriteFails(c) PROVE Shape'
    BY <1>26, CallReturns DEF LastWriteFails, TypeOK, CallRecords
<1> QED
    BY <1>25, <1>26, <1>1, <1>2, <1>3, <1>4, <1>5, <1>6, <1>7, <1>8, <1>9, <1>10, <1>11, <1>12, <1>13, <1>14,
       <1>15, <1>16, <1>17, <1>18, <1>19, <1>20, <1>21, <1>22, <1>23, <1>24
    DEF Next, Step, EngineEvent

-----------------------------------------------------------------------------
(* The rest of the invariant, one action after the other.                    *)

Rest == Booting /\ (alone => OneWorks /\ Truth /\ Stopped /\ LeftOver)

LEMMA RestInit == Init => Rest
<1> SUFFICES ASSUME Init PROVE Rest
    OBVIOUS
<1>1. \A c \in Calls : call[c].at = "idle"
    BY DEF Init, Idle
<1>2. current = NoEngine /\ ~retry.timer /\ ~retry.kept /\ lost = 0 /\ wipedTo = 0
    BY DEF Init, NoRetry
<1>3. row.status \notin Active
    BY DEF Init, Active
<1>4. Orphans = {}
    BY DEF Init, Orphans, Gone
<1>5. OneWorks
    BY <1>1, <1>2 DEF OneWorks, Works, Past, Dead
<1>6. Truth
    BY <1>1, <1>2, <1>3 DEF Truth, IsReady, Active
<1>7. Stopped
    BY <1>1, <1>2, <1>3 DEF Stopped
<1>8. LeftOver
    BY <1>2, <1>4 DEF LeftOver
<1> QED
    BY <1>2, <1>5, <1>6, <1>7, <1>8 DEF Rest, Booting

\* A call comes, looks further or goes, and nothing else changes.
LEMMA CallComesOrGoes ==
    ASSUME Shape, Rest, NEW c \in Calls,
           \A d \in Calls \ {c} : call'[d] = call[d],
           ~Past(c), call'[c].at \in {"idle", "finding", "found"},
           call'[c].at # "idle" =>
               \/ call'[c].job \in Requested
               \/ call[c].at # "idle" /\ call'[c].job = call[c].job,
           UNCHANGED <<row, login, engine, current, retry, lost, asked, alone, broken, wipedTo>>
    PROVE  Rest'
<1>1. \A d \in Calls : /\ Past(d)' <=> Past(d)
                       /\ Works(d)' => Works(d)
                       /\ WillBoot(d)' <=> WillBoot(d)
                       /\ Past(d) => call'[d] = call[d]
    BY DEF Past, Works, WillBoot
<1>2. Booting'
    BY <1>1 DEF Rest, Booting
<1>3. alone => OneWorks'
    <2> SUFFICES ASSUME OneWorks PROVE OneWorks'
        BY DEF Rest
    <2>1. Dead' <=> Dead
        BY DEF Dead
    <2> QED
        BY <1>1, <2>1 DEF OneWorks, Past
<1>4. alone => Truth'
    BY <1>1 DEF Rest, Truth, IsReady, Past
<1>5. alone => Stopped'
    BY <1>1 DEF Rest, Stopped
<1>6. alone => LeftOver'
    BY DEF Rest, LeftOver, Orphans
<1> QED
    BY <1>2, <1>3, <1>4, <1>5, <1>6 DEF Rest

LEMMA RestRequest ==
    ASSUME Shape, Rest, NEW c \in Calls, NEW job \in Requested, Request(c, job)
    PROVE  Rest'
<1>1. /\ call'[c] = [job |-> job, at |-> "finding", of |-> NoEngine]
      /\ \A d \in Calls \ {c} : call'[d] = call[d]
    BY DEF Request, Shape, TypeOK
<1>2. ~Past(c)
    BY DEF Past, Request, Idle
<1> QED
    BY <1>1, <1>2, CallComesOrGoes DEF Request, history

LEMMA RestFind ==
    ASSUME Shape, Rest, NEW c \in Calls, Find(c)
    PROVE  Rest'
<1>1. /\ call'[c].at = "found" /\ call'[c].job = call[c].job
      /\ \A d \in Calls \ {c} : call'[d] = call[d]
    BY CallMoves DEF Find
<1>2. ~Past(c)
    BY DEF Past, Find
<1> QED
    BY <1>1, <1>2, CallComesOrGoes DEF Find, history

LEMMA RestRefuse ==
    ASSUME Shape, Rest, NEW c \in Calls, Refuse(c)
    PROVE  Rest'
<1>1. /\ call'[c].at = "idle" /\ \A d \in Calls \ {c} : call'[d] = call[d]
    BY CallReturns DEF Refuse
<1>2. ~Past(c)
    BY DEF Past, Refuse
<1> QED
    BY <1>1, <1>2, CallComesOrGoes DEF Refuse, history

\* The session is not found: the catch blocks.
LEMMA RestNotFound ==
    ASSUME Shape, Rest, NEW c \in Calls, NotFound(c)
    PROVE  Rest'
<1>1. /\ Caught(c) /\ Return(c) /\ call[c].at = "finding"
      /\ UNCHANGED <<login, engine, current, lost, asked, alone, wipedTo>>
    BY DEF NotFound, Caught
<1>2. /\ call'[c].at = "idle" /\ \A d \in Calls \ {c} : call'[d] = call[d]
    BY <1>1, CallReturns
<1>3. \A d \in Calls : /\ Past(d)' <=> Past(d)
                       /\ Works(d)' => Works(d) /\ d # c
                       /\ WillBoot(d)' <=> WillBoot(d)
                       /\ Past(d) => call'[d] = call[d]
    BY <1>1, <1>2 DEF Past, Works, WillBoot
<1>4. Booting'
    BY <1>1, <1>3, CaughtEffect DEF Rest, Booting, RetryArmed
<1>5. Dead' <=> Dead
    BY <1>1 DEF Dead
<1>6. CASE call[c].job = "reconnect"
    <2>1. Works(c) /\ call[c].job \notin Requested
        BY <1>1, <1>6 DEF Works, Requested
    <2>2. ASSUME alone PROVE OneWorks' /\ Truth' /\ Stopped' /\ LeftOver'
        <3>1. OneWorks /\ Truth /\ Stopped /\ LeftOver
            BY <2>2 DEF Rest
        <3>2. Dead /\ \A d \in Calls : Works(d) => d = c
            BY <2>1, <3>1 DEF OneWorks
        <3>3. OneWorks'
            BY <1>1, <1>3, <1>5, <3>1, <3>2 DEF OneWorks, Past, Works
        <3>4. Truth'
            <4>1. \A d \in Calls : call[d].at \notin {"torn", "wiped"}
                BY <1>1, <3>2 DEF Works, Past
            <4>2. ~IsReady /\ (IsReady' <=> IsReady)
                BY <1>1, <3>2 DEF IsReady, Dead
            <4>3. ~broken' /\ row'.there => row'.status # "ready"
                BY <1>1, <1>6, <3>1, <4>1, <4>2, CaughtEffect DEF Truth
            <4> QED
                BY <4>2, <4>3 DEF Truth
        <3>5. Stopped'
            BY <1>1, <2>1, <3>1 DEF Stopped
        <3>6. LeftOver'
            BY <1>1, <3>1 DEF LeftOver, Orphans
        <3> QED
            BY <3>3, <3>4, <3>5, <3>6
    <2> QED
        BY <1>1, <1>4, <2>2 DEF Rest
<1>7. CASE call[c].job # "reconnect"
    <2>1. retry' = retry /\ broken'
        BY <1>1, <1>7, CaughtEffect
    <2>2. ASSUME alone PROVE OneWorks' /\ Truth' /\ Stopped' /\ LeftOver'
        <3>1. OneWorks /\ Truth /\ Stopped /\ LeftOver
            BY <2>2 DEF Rest
        <3>2. OneWorks'
            BY <1>1, <1>3, <1>5, <2>1, <3>1 DEF OneWorks, Past
        <3>3. Truth'
            BY <2>1 DEF Truth
        <3>4. Stopped'
            <4>1. asked = "down" => row' = row
                BY <1>1, <1>7, <3>1, CaughtEffect DEF Stopped, Requested
            <4> QED
                BY <1>1, <1>2, <1>3, <2>1, <3>1, <4>1 DEF Stopped
        <3>5. LeftOver'
            BY <1>1, <3>1 DEF LeftOver, Orphans
        <3> QED
            BY <3>2, <3>3, <3>4, <3>5
    <2> QED
        BY <1>1, <1>4, <2>2 DEF Rest
<1> QED
    BY <1>6, <1>7

\* A call takes the engine down.
LEMMA RestBegin ==
    ASSUME Shape, Rest, NEW c \in Calls, Begin(c)
    PROVE  Rest'
<1>1. /\ call[c].at = "found" /\ Goto(c, "torn") /\ TearDown /\ CancelReconnect(c)
      /\ UNCHANGED <<row, login, lost, wipedTo>>
    BY DEF Begin
<1>2. /\ call'[c].at = "torn" /\ call'[c].job = call[c].job
      /\ \A d \in Calls \ {c} : call'[d] = call[d]
    BY <1>1, CallMoves
<1>3. /\ current' = NoEngine
      /\ \A x \in Engines : IF x = current THEN engine'[x] = Destroyed(x) ELSE engine'[x] = engine[x]
    BY <1>1 DEF TearDown
<1>5. /\ retry'.kept => call[c].job \notin {"stop", "delete"}
      /\ call[c].job \in Requested /\ ~(call[c].job = "start" /\ current = NoEngine) => ~retry'.timer
      /\ call[c].job = "start" /\ current = NoEngine => retry' = retry
      /\ call[c].job = "reconnect" => retry' = retry
      /\ call[c].job \notin Requested \cup {"reconnect"} => ~retry'.timer
    BY <1>1, RetryValues DEF CancelReconnect, Shape, TypeOK, Requested
<1>6. Booting'
    <2>1. retry'.kept => WillBoot(c)'
        BY <1>2, <1>5 DEF WillBoot
    <2> QED
        BY <2>1 DEF Booting
<1>7. SUFFICES ASSUME alone' PROVE OneWorks' /\ Truth' /\ Stopped' /\ LeftOver'
    BY <1>6 DEF Rest
<1>8. \A d \in Calls \ {c} : call[d].at = "idle"
    BY <1>7 DEF Begin, Others, Shape, TypeOK
<1>9. \A d \in Calls : d # c => ~Past(d)' /\ ~Works(d)' /\ ~WillBoot(d)
    BY <1>2, <1>8 DEF Past, Works, WillBoot
<1>10. Dead'
    BY <1>3 DEF Dead
<1>11. ~retry'.timer /\ lost' = 0
    <2>1. CASE call[c].job \in Requested
        <3>1. lost = 0
            BY <1>7, <2>1 DEF Begin
        <3>2. current = NoEngine => ~retry.kept
            BY <1>1, <1>9 DEF Rest, Booting, WillBoot
        <3> QED
            BY <1>1, <1>5, <2>1, <3>1, <3>2 DEF Shape
    <2>2. CASE call[c].job \notin Requested
        <3>1. alone /\ Works(c)
            BY <1>1, <1>7, <2>2 DEF Begin, Works
        <3>2. ~retry.timer /\ lost = 0
            BY <3>1 DEF Rest, OneWorks
        <3> QED
            BY <1>1, <1>5, <2>2, <3>2
    <2> QED
        BY <2>1, <2>2
<1>12. OneWorks'
    BY <1>2, <1>3, <1>9, <1>10, <1>11 DEF OneWorks, Past
<1>13. Truth'
    <2>1. call[c].job = "reconnect" => alone /\ Works(c) /\ broken' = broken
        BY <1>1, <1>7 DEF Begin, Works, Requested
    <2>2. alone /\ Works(c) /\ ~broken /\ row.there => row.status # "ready"
        <3> SUFFICES ASSUME alone, Works(c), ~broken, row.there PROVE row.status # "ready"
            OBVIOUS
        <3>1. OneWorks /\ Truth
            BY DEF Rest
        <3>2. ~IsReady
            BY <3>1 DEF OneWorks, Dead, IsReady
        <3>3. \A d \in Calls : call[d].at \notin {"torn", "wiped"}
            BY <1>1, <1>8
        <3> QED
            BY <3>1, <3>2, <3>3 DEF Truth
    <2> QED
        BY <1>1, <1>2, <1>8, <2>1, <2>2 DEF Truth
<1>14. Stopped'
    <2>1. asked' = "down" => call[c].job \in {"stop", "delete"}
        <3>1. CASE call[c].job \in Requested
            BY <3>1 DEF Begin
        <3>2. CASE call[c].job \notin Requested
            <4>1. alone /\ asked' = asked /\ call[c].at # "idle"
                BY <1>1, <1>7, <3>2 DEF Begin
            <4> QED
                BY <3>2, <4>1 DEF Rest, Stopped
        <3> QED
            BY <3>1, <3>2
    <2>2. Past(c)'
        BY <1>2 DEF Past
    <2> QED
        BY <1>2, <1>3, <1>8, <1>11, <2>1, <2>2 DEF Stopped, Requested, Past
<1>15. LeftOver'
    <2>1. CASE call[c].job \in Requested
        <3>1. Orphans = {} /\ login \notin 1..wipedTo
            BY <1>7, <2>1 DEF Begin
        <3>2. Orphans' \subseteq {current}
            BY <1>3, <3>1 DEF Orphans
        <3> QED
            BY <1>1, <1>3, <3>1, <3>2 DEF LeftOver
    <2>2. CASE call[c].job \notin Requested
        <3>1. alone /\ Works(c)
            BY <1>1, <1>7, <2>2 DEF Begin, Works
        <3>2. Dead /\ LeftOver
            BY <3>1 DEF Rest, OneWorks
        <3>3. \A d \in Calls : call[d].at # "setting"
            BY <1>1, <1>8
        <3>4. current \in Engines => engine'[current] = Gone
            BY <1>3, <3>2, <3>3, EngineAssumption DEF Destroyed, IsComing, Dead
        <3>5. Orphans' \subseteq Orphans /\ \A o \in Orphans : engine'[o] = engine[o]
            BY <1>3, <3>4 DEF Orphans, Gone
        <3> QED
            BY <1>1, <1>3, <3>2, <3>5 DEF LeftOver
    <2> QED
        BY <2>1, <2>2
<1> QED
    BY <1>12, <1>13, <1>14, <1>15

\* The login is wiped, or not, with the engine down.
LEMMA RestClearAuthState ==
    ASSUME Shape, Rest, NEW c \in Calls, ClearAuthState(c) \/ ClearAuthStateFails(c)
    PROVE  Rest'
<1>1. /\ call[c].at = "torn" /\ call[c].job \in {"relink", "recover", "delete"}
      /\ login' = 0 \/ UNCHANGED <<login, wipedTo>>
      /\ UNCHANGED <<row, engine, current, retry, lost, asked, alone, broken>>
    BY DEF ClearAuthState, ClearAuthStateFails, Wiped, history
<1>2. /\ call'[c].at = "wiped" /\ call'[c].job = call[c].job
      /\ \A d \in Calls \ {c} : call'[d] = call[d]
    BY CallMoves DEF ClearAuthState, ClearAuthStateFails
<1>3. \A d \in Calls : /\ Past(d)' <=> Past(d)
                       /\ Works(d)' <=> Works(d)
                       /\ WillBoot(d) => WillBoot(d)'
    BY <1>1, <1>2 DEF Past, Works, WillBoot
<1>4. Booting'
    BY <1>1, <1>3 DEF Rest, Booting
<1>5. SUFFICES ASSUME alone PROVE OneWorks' /\ Truth' /\ Stopped' /\ LeftOver'
    BY <1>1, <1>4 DEF Rest
<1>6. OneWorks /\ Truth /\ Stopped /\ LeftOver
    BY <1>5 DEF Rest
<1>7. current = NoEngine
    BY <1>1, <1>6 DEF OneWorks
<1>8. OneWorks'
    BY <1>1, <1>2, <1>3, <1>6 DEF OneWorks, Dead
<1>9. Truth'
    BY <1>1, <1>2, <1>6 DEF Truth
<1>10. Stopped'
    BY <1>1, <1>2, <1>3, <1>6 DEF Stopped
<1>11. LeftOver'
    BY <1>1, <1>6, <1>7 DEF LeftOver, Orphans
<1> QED
    BY <1>8, <1>9, <1>10, <1>11

\* The session is down: stopped, or its row deleted, or the query for it failed.
LEMMA RestEnds ==
    ASSUME Shape, Rest, NEW c \in Calls, Return(c), call[c].at \in {"torn", "wiped"},
           call[c].job \in {"stop", "delete"}, call[c].at = "wiped" => call[c].job = "delete",
           row' \in Rows, broken' \/ (row'.there => row'.status = "disconnected" /\ broken' = broken),
           UNCHANGED <<login, engine, current, retry, lost, asked, alone, wipedTo>>
    PROVE  Rest'
<1>1. /\ call'[c].at = "idle" /\ \A d \in Calls \ {c} : call'[d] = call[d]
    BY CallReturns
<1>2. \A d \in Calls : /\ Past(d)' => Past(d) /\ call'[d] = call[d]
                       /\ Works(d)' => Works(d) /\ call'[d] = call[d]
                       /\ WillBoot(d) => WillBoot(d)'
    BY <1>1 DEF Past, Works, WillBoot
<1>3. Booting'
    BY <1>2 DEF Rest, Booting
<1>4. SUFFICES ASSUME alone PROVE OneWorks' /\ Truth' /\ Stopped' /\ LeftOver'
    BY <1>3 DEF Rest
<1>5. OneWorks /\ Truth /\ Stopped /\ LeftOver
    BY <1>4 DEF Rest
<1>6. current = NoEngine /\ Works(c)
    BY <1>5 DEF OneWorks, Works, Past
<1>7. OneWorks'
    BY <1>1, <1>2, <1>5 DEF OneWorks, Dead
<1>8. Truth'
    <2>1. \A d \in Calls : ~(call'[d].at = "torn")
        BY <1>1, <1>5, <1>6 DEF OneWorks, Works, Past
    <2> QED
        BY <1>6, <2>1 DEF Truth, IsReady
<1>9. Stopped'
    BY <1>1, <1>2, <1>5 DEF Stopped, Active
<1>10. LeftOver'
    BY <1>5 DEF LeftOver, Orphans
<1> QED
    BY <1>7, <1>8, <1>9, <1>10

LEMMA RestStop ==
    ASSUME Shape, Rest, NEW c \in Calls, Stop(c)
    PROVE  Rest'
<1>1. RowSays("disconnected")
    BY WrittenType DEF Stop, Shape, TypeOK, Statuses
<1> QED
    BY <1>1, RestEnds DEF Stop, history, RowSays

LEMMA RestDelete ==
    ASSUME Shape, Rest, NEW c \in Calls, Delete(c)
    PROVE  Rest'
<1>1. row' \in Rows /\ ~row'.there
    BY DEF Delete, Rows, Statuses
<1> QED
    BY <1>1, RestEnds DEF Delete, history

LEMMA RestLastWriteFails ==
    ASSUME Shape, Rest, NEW c \in Calls, LastWriteFails(c)
    PROVE  Rest'
<1>1. row' \in Rows
    BY DEF LastWriteFails, Shape, TypeOK
<1> QED
    BY <1>1, RestEnds DEF LastWriteFails

\* An engine is put up by the only call that works on the session, or is not.
LEMMA RegisterEffect ==
    ASSUME Shape, NEW e \in Engines, Register(e), current = NoEngine
    PROVE  /\ current' = e /\ engine[e].phase = "gone"
           /\ engine'[e] = [phase |-> "registered", status |-> "disconnected", creds |-> 0, qr |-> "none"]
           /\ \A x \in Engines \ {e} : engine'[x] = engine[x]
           /\ Orphans' = Orphans
<1>1. Created = [phase |-> "registered", status |-> "disconnected", creds |-> 0, qr |-> "none"]
    BY DEF Created, Gone
<1>2. /\ current' = e /\ engine[e].phase = "gone"
      /\ engine'[e] = Created
      /\ \A x \in Engines \ {e} : engine'[x] = engine[x]
    BY EngineAssumption DEF Register
<1> QED
    <2>1. Orphans = {x \in Engines : engine[x].phase # "gone"}
        BY EngineAssumption DEF Orphans
    <2>2. Orphans' = {x \in Engines \ {e} : engine'[x].phase # "gone"}
        BY <1>2 DEF Orphans
    <2>3. Orphans' = Orphans
        BY <1>2, <2>1, <2>2
    <2> QED
        BY <1>1, <1>2, <2>3

LEMMA RestBoot ==
    ASSUME Shape, Rest, NEW c \in Calls, Boot(c)
    PROVE  Rest'
<1>1. PICK e \in Engines : /\ Register(e)
                           /\ call' = [call EXCEPT ![c].at = "setting", ![c].of = e]
    BY DEF Boot
<1>2. current' = e
    BY <1>1 DEF Register
<1>3. Booting'
    BY <1>2, EngineAssumption DEF Booting
<1>4. SUFFICES ASSUME alone' PROVE OneWorks' /\ Truth' /\ Stopped' /\ LeftOver'
    BY <1>3 DEF Rest
<1>5. alone /\ \A d \in Calls \ {c} : call[d].at = "idle"
    BY <1>4 DEF Boot, Others, Shape, TypeOK
<1>6. OneWorks /\ Truth /\ Stopped /\ LeftOver
    BY <1>5 DEF Rest
<1>7. call[c].at \in {"torn", "wiped"} /\ call[c].job \notin {"stop", "delete"}
    BY DEF Boot, Boots
<1>8. current = NoEngine /\ Works(c) /\ ~retry.timer /\ lost = 0
    BY <1>6, <1>7 DEF OneWorks, Works, Past
<1>9. /\ call'[c].at = "setting" /\ call'[c].job = call[c].job /\ call'[c].of = e
      /\ \A d \in Calls \ {c} : call'[d] = call[d]
    <2>1. call' = [call EXCEPT ![c] = Setting(call[c], e)]
        BY <1>1 DEF Shape, TypeOK, Setting
    <2>2. Setting(call[c], e) = [job |-> call[c].job, at |-> "setting", of |-> e]
        BY CallSets DEF Shape, TypeOK, CallRecords
    <2> QED
        BY <2>1, <2>2 DEF Shape, TypeOK
<1>10. ~retry'.timer /\ lost' = 0
    BY <1>8, ResetEffect DEF Boot
<1>11. /\ engine'[e] = [phase |-> "registered", status |-> "disconnected", creds |-> 0, qr |-> "none"]
       /\ Orphans' = Orphans /\ e \notin Orphans
       /\ \A x \in Engines \ {e} : engine'[x] = engine[x]
    BY <1>1, <1>8, RegisterEffect DEF Orphans
<1>12. RowSays("initializing") /\ UNCHANGED <<login, asked, broken, wipedTo>>
    BY WrittenType DEF Boot, Shape, TypeOK, Statuses
<1>13. OneWorks'
    <2>1. Dead'
        BY <1>2, <1>11 DEF Dead
    <2> QED
        BY <1>2, <1>5, <1>9, <1>10, <1>11, <2>1 DEF OneWorks, Works, Past
<1>14. Truth'
    BY <1>2, <1>5, <1>9, <1>11, <1>12 DEF Truth, IsReady, RowSays
<1>15. Stopped'
    BY <1>6, <1>7, <1>12 DEF Stopped, Past
<1>16. LeftOver'
    <2>1. \A o \in Orphans : engine'[o] = engine[o]
        BY <1>11 DEF Orphans
    <2> QED
        BY <1>2, <1>6, <1>11, <1>12, <2>1 DEF LeftOver
<1> QED
    BY <1>13, <1>14, <1>15, <1>16

LEMMA RestBootFails ==
    ASSUME Shape, Rest, NEW c \in Calls, BootFails(c)
    PROVE  Rest'
<1>1. PICK e \in Engines : Register(e)
    BY DEF BootFails
<1>2. current' = e
    BY <1>1 DEF Register
<1>3. Booting'
    BY <1>2, EngineAssumption DEF Booting
<1>4. SUFFICES ASSUME alone PROVE OneWorks' /\ Truth' /\ Stopped' /\ LeftOver'
    BY <1>3 DEF Rest, BootFails
<1>5. OneWorks /\ Truth /\ Stopped /\ LeftOver
    BY <1>4 DEF Rest
<1>6. /\ call[c].at \in {"torn", "wiped"} /\ call[c].job \notin {"stop", "delete"}
      /\ UNCHANGED <<login, asked, alone, wipedTo>>
    BY DEF BootFails, Boots
<1>7. current = NoEngine /\ Works(c) /\ ~retry.timer /\ lost = 0
    BY <1>5, <1>6 DEF OneWorks, Works, Past
<1>8. /\ engine'[e] = [phase |-> "registered", status |-> "disconnected", creds |-> 0, qr |-> "none"]
      /\ Orphans' = Orphans /\ e \notin Orphans
      /\ \A x \in Engines \ {e} : engine'[x] = engine[x]
    BY <1>1, <1>7, RegisterEffect DEF Orphans
<1>9. Return(c) /\ lost' = 0
    <2>1. CASE call[c].job \in Requested
        BY <1>7, <2>1, ResetEffect DEF BootFails
    <2>2. CASE call[c].job \notin Requested
        BY <1>7, <2>2 DEF BootFails, Caught
    <2> QED
        BY <2>1, <2>2
<1>10. /\ call'[c].at = "idle" /\ \A d \in Calls \ {c} : call'[d] = call[d]
    BY <1>9, CallReturns
<1>11. \A d \in Calls : ~Works(d)' /\ ~Past(d)'
    BY <1>5, <1>7, <1>10 DEF OneWorks, Works, Past
<1>12. Dead' /\ ~IsReady'
    BY <1>2, <1>8 DEF Dead, IsReady
<1>13. OneWorks'
    BY <1>9, <1>11, <1>12 DEF OneWorks, Works, Past
<1>14. Truth'
    <2>1. CASE call[c].job # "reconnect"
        <3>1. broken'
            <4>1. CASE call[c].job \in Requested
                BY <4>1 DEF BootFails
            <4>2. CASE call[c].job \notin Requested
                BY <2>1, <4>2, CaughtEffect DEF BootFails
            <4> QED
                BY <4>1, <4>2
        <3> QED
            BY <3>1 DEF Truth
    <2>2. CASE call[c].job = "reconnect"
        <3>1. Caught(c) /\ call[c].at = "torn"
            BY <2>2 DEF BootFails, Boots, Requested
        <3>2. ~broken' /\ row'.there => row'.status # "ready"
            BY <1>5, <2>2, <3>1, CaughtEffect DEF Truth
        <3> QED
            BY <1>11, <1>12, <3>2 DEF Truth, Past
    <2> QED
        BY <2>1, <2>2
<1>15. Stopped'
    BY <1>5, <1>6 DEF Stopped, Past
<1>16. LeftOver'
    <2>1. \A o \in Orphans : engine'[o] = engine[o]
        BY <1>8 DEF Orphans
    <2> QED
        BY <1>2, <1>5, <1>6, <1>8, <2>1 DEF LeftOver
<1> QED
    BY <1>13, <1>14, <1>15, <1>16

\* The engine is told to start.
LEMMA RestInitialize ==
    ASSUME Shape, Rest, NEW c \in Calls, Initialize(c)
    PROVE  Rest'
<1> DEFINE e == call[c].of
<1>1. /\ call[c].at = "setting" /\ Return(c)
      /\ UNCHANGED <<login, current, retry, lost, asked, alone, broken, wipedTo>>
    BY DEF Initialize, history
<1>2. /\ call'[c].at = "idle" /\ \A d \in Calls \ {c} : call'[d] = call[d]
    BY <1>1, CallReturns
<1>3. /\ e \in Engines
      /\ Turns(e, [phase |-> "loading", status |-> IF ReportsStart THEN "initializing" ELSE engine[e].status,
                   creds |-> login, qr |-> engine[e].qr])
      /\ row' = row \/ (ReportsStart /\ current = e /\ RowSays("initializing"))
      /\ (ReportsStart /\ current = e => RowSays("initializing"))
    BY InitializeEffect
<1>4. \A d \in Calls : /\ Past(d)' => Past(d) /\ call'[d] = call[d]
                       /\ Works(d)' => Works(d) /\ call'[d] = call[d]
                       /\ WillBoot(d) => WillBoot(d)'
    BY <1>1, <1>2 DEF Past, Works, WillBoot
<1>5. Booting'
    BY <1>1, <1>4 DEF Rest, Booting
<1>6. SUFFICES ASSUME alone PROVE OneWorks' /\ Truth' /\ Stopped' /\ LeftOver'
    BY <1>1, <1>5 DEF Rest
<1>7. OneWorks /\ Truth /\ Stopped /\ LeftOver
    BY <1>6 DEF Rest
<1>8. Works(c) /\ current = e /\ ~retry.timer /\ engine[e].status = "disconnected"
    BY <1>1, <1>7 DEF OneWorks, Works, Past
<1>9. \A d \in Calls : ~Works(d)' /\ ~Past(d)'
    BY <1>2, <1>4, <1>7, <1>8 DEF OneWorks, Works, Past
<1>10. engine'[e] = [phase |-> "loading", status |-> IF ReportsStart THEN "initializing" ELSE "disconnected",
                     creds |-> login, qr |-> engine[e].qr]
    BY <1>3, <1>8 DEF Turns
<1>11. ~IsReady /\ ~IsReady'
    BY <1>1, <1>3, <1>8, <1>10 DEF IsReady
<1>12. OneWorks'
    BY <1>1, <1>7, <1>8, <1>9 DEF OneWorks, Works, Past
<1>13. Truth'
    <2>1. \A d \in Calls : call[d].at \notin {"torn", "wiped"}
        BY <1>1, <1>7, <1>8 DEF OneWorks, Works, Past
    <2>2. ~broken /\ row.there => row.status # "ready"
        BY <1>7, <1>11, <2>1 DEF Truth
    <2>3. ~broken /\ row'.there => row'.status # "ready"
        BY <1>3, <2>2 DEF RowSays
    <2> QED
        BY <1>1, <1>9, <1>11, <2>3 DEF Truth, Past
<1>14. Stopped'
    BY <1>1, <1>3, <1>7, <1>8, EngineAssumption DEF Stopped
<1>15. LeftOver'
    BY <1>1, <1>3, <1>7, <1>8, <1>10 DEF LeftOver, Orphans, Turns
<1> QED
    BY <1>12, <1>13, <1>14, <1>15

\* A timer fires: a reconnect begins.
LEMMA RestTimerFires ==
    ASSUME Shape, Rest, NEW c \in Calls, TimerFires(c)
    PROVE  Rest'
<1>1. /\ call[c] = Idle
      /\ call'[c] = [job |-> "reconnect", at |-> "finding", of |-> NoEngine]
      /\ \A d \in Calls \ {c} : call'[d] = call[d]
      /\ UNCHANGED <<row, login, engine, current, asked, alone, broken, wipedTo>>
    BY DEF TimerFires, history, Shape, TypeOK
<1>2. \A d \in Calls : /\ Past(d)' <=> Past(d)
                       /\ d # c => (Works(d)' <=> Works(d))
                       /\ ~Works(c)
                       /\ WillBoot(d)' <=> WillBoot(d)
                       /\ Past(d) => call'[d] = call[d]
    BY <1>1 DEF Past, Works, WillBoot, Idle
<1>3. retry'.kept = retry.kept
    BY RetryValues DEF TimerFires, Shape, TypeOK
<1>4. Booting'
    BY <1>1, <1>2, <1>3 DEF Rest, Booting
<1>5. SUFFICES ASSUME alone PROVE OneWorks' /\ Truth' /\ Stopped' /\ LeftOver'
    BY <1>1, <1>4 DEF Rest
<1>6. OneWorks /\ Truth /\ Stopped /\ LeftOver
    BY <1>5 DEF Rest
<1>7. retry.timer /\ ~retry'.timer /\ lost' = 0
    <2>1. lost = 0
        BY <1>6 DEF OneWorks
    <2>2. retry.timer /\ retry' = [retry EXCEPT !.timer = FALSE] /\ lost' = lost
        BY <2>1 DEF TimerFires
    <2> QED
        BY <2>1, <2>2, RetryValues DEF Shape, TypeOK
<1>8. Dead' /\ \A d \in Calls : ~Works(d)
    BY <1>1, <1>6, <1>7 DEF OneWorks, Dead
<1>9. OneWorks'
    BY <1>1, <1>2, <1>7, <1>8 DEF OneWorks, Works, Past
<1>10. Truth'
    BY <1>1, <1>2, <1>6, <1>8 DEF Truth, IsReady, Works, Past
<1>11. Stopped'
    BY <1>1, <1>6, <1>7 DEF Stopped
<1>12. LeftOver'
    BY <1>1, <1>6 DEF LeftOver, Orphans
<1> QED
    BY <1>9, <1>10, <1>11, <1>12

\* An engine that is not registered any more goes on, or ends.
LEMMA OrphanMoves ==
    ASSUME Shape, Rest, NEW e \in Engines, current # e, NEW i, Turns(e, i),
           i.phase = "gone" \/ (engine[e].phase # "gone" /\ i.creds = engine[e].creds),
           UNCHANGED <<row, login, current, retry, lost, call, asked, alone, broken, wipedTo>>
    PROVE  Rest'
<1>1. engine'[e] = i /\ \A x \in Engines \ {e} : engine'[x] = engine[x]
    BY DEF Turns
<1>2. \A c \in Calls : (Past(c)' <=> Past(c)) /\ (Works(c)' <=> Works(c)) /\ (WillBoot(c)' <=> WillBoot(c))
    BY DEF Past, Works, WillBoot
<1>3. current \in Engines => engine'[current] = engine[current]
    BY <1>1
<1>4. current # NoEngine => current \in Engines
    BY DEF Shape, TypeOK
<1>5. (Dead' <=> Dead) /\ (IsReady' <=> IsReady)
    BY <1>3, <1>4 DEF Dead, IsReady
<1>6. Booting'
    BY <1>2 DEF Rest, Booting
<1>7. SUFFICES ASSUME alone PROVE OneWorks' /\ Truth' /\ Stopped' /\ LeftOver'
    BY <1>6 DEF Rest
<1>8. OneWorks /\ Truth /\ Stopped /\ LeftOver
    BY <1>7 DEF Rest
<1>9. OneWorks'
    BY <1>1, <1>2, <1>3, <1>5, <1>8 DEF OneWorks, Shape
<1>10. Truth'
    BY <1>5, <1>8 DEF Truth
<1>11. Stopped'
    BY <1>2, <1>8 DEF Stopped
<1>12. LeftOver'
    <2>1. Orphans' \subseteq Orphans /\ \A o \in Orphans' : engine'[o].creds = engine[o].creds
        BY <1>1 DEF Orphans
    <2> QED
        BY <1>3, <1>4, <1>8, <2>1 DEF LeftOver
<1> QED
    BY <1>9, <1>10, <1>11, <1>12

\* The registered engine goes on, or closes and has a timer armed.
LEMMA CurrentMoves ==
    ASSUME Shape, Rest, NEW e \in Engines, current = e, NEW i, Turns(e, i),
           ~Dead \/ engine[e].qr = "pending",
           retry'.kept = retry.kept, retry'.timer => retry.timer \/ ~Dead,
           \/ i.phase \notin {"loading", "up"} /\ i.status # "ready"
           \/ ~Dead /\ (retry'.timer => retry.timer),
           row'.there = row.there,
           \/ row' = row /\ (i.status = "ready" <=> engine[e].status = "ready")
           \/ row.there => (row'.status = "ready" <=> i.status = "ready"),
           \/ login' = login /\ i.creds \in {0, engine[e].creds}
           \/ login' \notin 1..wipedTo /\ i.creds \in {0, login'},
           UNCHANGED <<current, lost, call, asked, alone, broken, wipedTo>>
    PROVE  Rest'
<1>1. engine'[e] = i /\ \A x \in Engines \ {e} : engine'[x] = engine[x]
    BY DEF Turns
<1>2. \A c \in Calls : (Past(c)' <=> Past(c)) /\ (Works(c)' <=> Works(c)) /\ (WillBoot(c)' <=> WillBoot(c))
    BY DEF Past, Works, WillBoot
<1>3. current # NoEngine
    BY EngineAssumption
<1>4. Booting'
    BY <1>3 DEF Booting
<1>5. SUFFICES ASSUME alone PROVE OneWorks' /\ Truth' /\ Stopped' /\ LeftOver'
    BY <1>4 DEF Rest
<1>6. OneWorks /\ Truth /\ Stopped /\ LeftOver
    BY <1>5 DEF Rest
<1>7. \A c \in Calls : call[c].at \notin {"torn", "wiped", "setting"}
    <2>1. \A c \in Calls : call[c].at \notin {"torn", "wiped"}
        BY <1>3, <1>6 DEF OneWorks
    <2>2. ASSUME NEW c \in Calls, call[c].at = "setting" PROVE FALSE
        <3>1. Works(c) /\ engine[e].qr = "none"
            BY <1>6, <2>2 DEF OneWorks, Works, Past
        <3> QED
            BY <1>6, <3>1 DEF OneWorks
    <2> QED
        BY <2>1, <2>2
<1>8. ~Dead => ~retry.timer /\ \A c \in Calls : ~Works(c)
    BY <1>6 DEF OneWorks
<1>9. OneWorks'
    <2>1. (i.phase \notin {"loading", "up"} /\ i.status # "ready") => Dead'
        BY <1>1 DEF Dead
    <2>2. \A c \in Calls : Works(c) => ~retry'.timer /\ Dead'
        BY <1>6, <1>8, <2>1 DEF OneWorks
    <2>3. retry'.timer => Dead'
        BY <1>8, <2>1
    <2> QED
        BY <1>2, <1>6, <1>7, <2>2, <2>3 DEF OneWorks
<1>10. Truth'
    <2>1. IsReady' <=> i.status = "ready"
        BY <1>1, <1>3 DEF IsReady
    <2>2. ~broken /\ row.there => (row.status = "ready" <=> engine[e].status = "ready")
        BY <1>3, <1>6, <1>7 DEF Truth, IsReady
    <2> QED
        BY <1>7, <2>1, <2>2 DEF Truth
<1>11. Stopped'
    BY <1>3, <1>6 DEF Stopped
<1>12. LeftOver'
    <2>1. Orphans' = Orphans /\ \A o \in Orphans : engine'[o] = engine[o]
        BY <1>1 DEF Orphans
    <2>2. i.creds \in Nat /\ login' \in Nat => (login' \notin 1..wipedTo => login' = 0 \/ login' > wipedTo)
        BY DEF Shape, TypeOK
    <2>3. CASE login' = login /\ i.creds \in {0, engine[e].creds}
        <3>1. engine'[e].creds \in {0, login'} \/ engine'[e].creds > wipedTo
            BY <1>1, <1>3, <1>6, <2>3 DEF LeftOver
        <3> QED
            BY <1>6, <2>1, <2>3, <3>1 DEF LeftOver
    <2>4. CASE login' \notin 1..wipedTo /\ i.creds \in {0, login'}
        BY <1>1, <1>6, <2>1, <2>4 DEF LeftOver
    <2> QED
        BY <2>3, <2>4
<1> QED
    BY <1>9, <1>10, <1>11, <1>12

\* The phases in which the registered engine is not dead.
LEMMA NotDead ==
    ASSUME Shape, current \in Engines, engine[current].phase \in {"loading", "up"}
    PROVE  ~Dead
    BY EngineAssumption DEF Dead

LEMMA RestConnects ==
    ASSUME Shape, Rest, NEW e \in Engines, Connects(e)
    PROVE  Rest'
<1> DEFINE i == [phase |-> "up", status |-> engine[e].status, creds |-> engine[e].creds, qr |-> engine[e].qr]
<1>1. /\ engine[e].phase = "loading" /\ engine[e] \in Instances
      /\ UNCHANGED <<row, login, current, retry, lost, call, asked, alone, broken, wipedTo>>
    BY DEF Connects, history, Shape, TypeOK
<1>2. Turns(e, i)
    <2>1. i \in Instances
        BY <1>1 DEF Instances
    <2>2. engine' = [engine EXCEPT ![e] = i]
        <3>1. engine' = [engine EXCEPT ![e] = [engine[e] EXCEPT !.phase = "up"]]
            BY DEF Connects, Shape, TypeOK
        <3>2. [engine[e] EXCEPT !.phase = "up"] = i
            BY <1>1 DEF Instances
        <3> QED
            BY <3>1, <3>2
    <2> QED
        BY <2>1, <2>2, TurnsTo
<1>3. i.phase = "up" /\ i.status = engine[e].status /\ i.creds = engine[e].creds
    OBVIOUS
<1> HIDE DEF i
<1>4. CASE current = e
    BY <1>1, <1>2, <1>3, <1>4, NotDead, CurrentMoves
<1>5. CASE current # e
    BY <1>1, <1>2, <1>3, <1>5, OrphanMoves
<1> QED
    BY <1>4, <1>5

LEMMA RestInitializeFails ==
    ASSUME Shape, Rest, NEW e \in Engines, InitializeFails(e)
    PROVE  Rest'
<1>1. /\ engine[e].phase = "loading"
      /\ UNCHANGED <<login, current, lost, call, asked, alone, broken, wipedTo>>
    BY DEF InitializeFails, history
<1>2. CASE current = e
    <2> DEFINE i == [phase |-> "closed", status |-> "failed", creds |-> 0, qr |-> engine[e].qr]
    <2>1. Turns(e, i) /\ RowSays("failed") /\ RetryArmed
        BY <1>2, InitializeFailsEffect
    <2>2. i.phase = "closed" /\ i.status = "failed" /\ i.creds = 0
        OBVIOUS
    <2> HIDE DEF i
    <2>3. ~Dead
        BY <1>1, <1>2, NotDead
    <2> QED
        BY <1>1, <1>2, <2>1, <2>2, <2>3, CurrentMoves DEF RowSays, RetryArmed
<1>3. CASE current # e
    <2>1. Turns(e, Gone) /\ row' = row /\ retry' = retry
        BY <1>3, InitializeFailsEffect
    <2>2. Gone.phase = "gone"
        BY DEF Gone
    <2> QED
        BY <1>1, <1>3, <2>1, <2>2, OrphanMoves
<1> QED
    BY <1>2, <1>3

LEMMA RestQrCode ==
    ASSUME Shape, Rest, NEW e \in Engines, QrCode(e)
    PROVE  Rest'
<1> DEFINE i == [phase |-> engine[e].phase, status |-> engine[e].status, creds |-> engine[e].creds, qr |-> "pending"]
<1>1. /\ engine[e].phase = "up" /\ engine[e] \in Instances
      /\ UNCHANGED <<row, login, current, retry, lost, call, asked, alone, broken, wipedTo>>
    BY DEF QrCode, history, Shape, TypeOK
<1>2. Turns(e, i)
    <2>1. i \in Instances
        BY <1>1 DEF Instances
    <2>2. engine' = [engine EXCEPT ![e] = i]
        <3>1. engine' = [engine EXCEPT ![e] = [engine[e] EXCEPT !.qr = "pending"]]
            BY DEF QrCode, Shape, TypeOK
        <3>2. [engine[e] EXCEPT !.qr = "pending"] = i
            BY <1>1 DEF Instances
        <3> QED
            BY <3>1, <3>2
    <2> QED
        BY <2>1, <2>2, TurnsTo
<1>3. i.phase = "up" /\ i.status = engine[e].status /\ i.creds = engine[e].creds
    BY <1>1
<1> HIDE DEF i
<1>4. CASE current = e
    BY <1>1, <1>2, <1>3, <1>4, NotDead, CurrentMoves
<1>5. CASE current # e
    BY <1>1, <1>2, <1>3, <1>5, OrphanMoves
<1> QED
    BY <1>4, <1>5

\* A code belongs to an engine that is, or was, connected.
LEMMA RestQrReady ==
    ASSUME Shape, Rest, NEW e \in Engines, QrReady(e)
    PROVE  Rest'
<1> DEFINE i == [phase |-> engine[e].phase, status |-> "qr_ready", creds |-> engine[e].creds, qr |-> "shown"]
<1>1. /\ engine[e].qr = "pending"
      /\ UNCHANGED <<login, current, retry, lost, call, asked, alone, broken, wipedTo>>
    BY DEF QrReady, history
<1>2. /\ Turns(e, i)
      /\ current = e => RowSays("qr_ready")
      /\ current # e => row' = row
    BY QrReadyEffect
<1>3. i.phase = engine[e].phase /\ i.status = "qr_ready" /\ i.creds = engine[e].creds
    OBVIOUS
<1> HIDE DEF i
<1>4. CASE current = e
    <2>1. Dead => i.phase \notin {"loading", "up"}
        BY <1>3, <1>4, EngineAssumption DEF Dead
    <2> QED
        BY <1>1, <1>2, <1>3, <1>4, <2>1, CurrentMoves DEF RowSays
<1>5. CASE current # e
    <2>1. i.phase = "gone" \/ (engine[e].phase # "gone" /\ i.creds = engine[e].creds)
        BY <1>3
    <2> QED
        BY <1>1, <1>2, <1>5, <2>1, OrphanMoves
<1> QED
    BY <1>4, <1>5

LEMMA RestOpen ==
    ASSUME Shape, Rest, NEW e \in Engines, Open(e)
    PROVE  Rest'
<1> DEFINE i == [phase |-> engine[e].phase, status |-> "ready", creds |-> engine[e].creds, qr |-> "none"]
<1>1. /\ engine[e].phase = "up"
      /\ UNCHANGED <<login, current, lost, call, asked, alone, broken, wipedTo>>
    BY DEF Open, CanOpen, history
<1>2. /\ Turns(e, i)
      /\ current = e => RowSays("ready")
      /\ current # e => row' = row
      /\ retry' \in RetryStates /\ retry'.kept = retry.kept /\ retry'.timer = retry.timer
    BY OpenEffect
<1>3. i.phase = "up" /\ i.status = "ready" /\ i.creds = engine[e].creds
    BY <1>1
<1> HIDE DEF i
<1>4. CASE current = e
    BY <1>1, <1>2, <1>3, <1>4, NotDead, CurrentMoves DEF RowSays
<1>5. CASE current # e
    <2>1. retry' = retry
        BY <1>5 DEF Open, OnReady
    <2> QED
        BY <1>1, <1>2, <1>3, <1>5, <2>1, OrphanMoves
<1> QED
    BY <1>4, <1>5

LEMMA RestDrop ==
    ASSUME Shape, Rest, NEW e \in Engines, Drop(e)
    PROVE  Rest'
<1>1. /\ engine[e].phase = "up" /\ Closed(e)
      /\ UNCHANGED <<login, current, lost, call, asked, alone, broken, wipedTo>>
    BY DEF Drop, history
<1>2. CASE current = e
    <2> DEFINE i == [phase |-> "closed", status |-> "disconnected", creds |-> 0, qr |-> engine[e].qr]
    <2>1. Turns(e, i)
        BY <1>1, <1>2, ClosedEffect
    <2>2. i.phase = "closed" /\ i.status = "disconnected" /\ i.creds = 0
        OBVIOUS
    <2> HIDE DEF i
    <2>3. ~Dead
        BY <1>1, <1>2, NotDead
    <2>4. RetryArmed /\ (RowSays("disconnected") \/ RowSays("failed"))
        BY <1>2, DropEffect
    <2> QED
        BY <1>1, <1>2, <2>1, <2>2, <2>3, <2>4, CurrentMoves DEF RowSays, RetryArmed
<1>3. CASE current # e
    <2>1. Turns(e, Gone) /\ row' = row /\ retry' = retry
        BY <1>1, <1>3, ClosedEffect, DropEffect
    <2>2. Gone.phase = "gone"
        BY DEF Gone
    <2> QED
        BY <1>1, <1>3, <2>1, <2>2, OrphanMoves
<1> QED
    BY <1>2, <1>3

\* A scan makes a login with a number nobody has had.
LEMMA RestScan ==
    ASSUME Shape, Rest, NEW e \in Engines, Scan(e)
    PROVE  Rest'
<1>1. /\ engine[e].phase = "up" /\ engine[e].creds = 0
      /\ UNCHANGED <<current, lost, call, asked, alone, broken, wipedTo>>
    BY DEF Scan, history
<1>2. login' = used.logins + 1 /\ login' \in 1..MaxLogins /\ login' \notin 1..wipedTo /\ login' > wipedTo
    <2>1. login' = used.logins + 1 /\ login' \in 0..MaxLogins
        BY ScanEffect
    <2>2. used.logins \in Nat /\ wipedTo \in Nat /\ wipedTo <= used.logins /\ MaxLogins \in Nat
        BY BoundAssumption DEF Shape, TypeOK
    <2> QED
        BY <2>1, <2>2
<1>3. CASE current = e
    <2> DEFINE i == IF kind = "baileys"
                    THEN [phase |-> "closed", status |-> "disconnected", creds |-> 0, qr |-> engine[e].qr]
                    ELSE [phase |-> engine[e].phase, status |-> "authenticating", creds |-> login', qr |-> "none"]
    <2>1. Turns(e, i)
        BY <1>3, ScanEffect, ClosedEffect
    <2>2. i.status # "ready" /\ i.creds \in {0, login'} /\ (kind = "baileys" => i.phase = "closed")
        OBVIOUS
    <2> HIDE DEF i
    <2>3. ~Dead
        BY <1>1, <1>3, NotDead
    <2>4. /\ retry'.kept = retry.kept /\ (kind # "baileys" => retry' = retry)
          /\ row'.there = row.there /\ (row.there => row'.status # "ready")
        BY <1>3, ScanEffect DEF RowSays, RetryArmed
    <2> QED
        BY <1>1, <1>2, <1>3, <2>1, <2>2, <2>3, <2>4, CurrentMoves
<1>4. CASE current # e
    <2>1. row' = row /\ retry' = retry
        BY <1>4, ScanEffect
    <2>2. PICK i : /\ Turns(e, i) /\ (i.phase = "gone" \/ i.creds = login')
        <3>1. CASE kind = "baileys"
            <4>1. Turns(e, Gone) /\ Gone.phase = "gone"
                BY <1>4, <3>1, ScanEffect, ClosedEffect DEF Gone
            <4> QED
                BY <4>1
        <3>2. CASE kind # "baileys"
            <4>1. Turns(e, [phase |-> engine[e].phase, status |-> "authenticating", creds |-> login', qr |-> "none"])
                BY <3>2, ScanEffect
            <4> QED
                BY <4>1
        <3> QED
            BY <3>1, <3>2
    <2>3. engine'[e] = i /\ \A x \in Engines \ {e} : engine'[x] = engine[x]
        BY <2>2 DEF Turns
    <2>4. e \in Orphans
        BY <1>1, <1>4 DEF Orphans
    <2>5. Orphans' \subseteq Orphans
        BY <1>1, <2>3, <2>4 DEF Orphans
    <2>6. \A c \in Calls : (Past(c)' <=> Past(c)) /\ (Works(c)' <=> Works(c)) /\ (WillBoot(c)' <=> WillBoot(c))
        BY <1>1 DEF Past, Works, WillBoot
    <2>7. current # NoEngine => current \in Engines /\ engine'[current] = engine[current]
        BY <1>4, <2>3 DEF Shape, TypeOK
    <2>8. (Dead' <=> Dead) /\ (IsReady' <=> IsReady)
        BY <1>1, <2>7 DEF Dead, IsReady
    <2>9. Booting'
        BY <1>1, <2>1, <2>6 DEF Rest, Booting
    <2>10. ASSUME alone PROVE OneWorks' /\ Truth' /\ Stopped' /\ LeftOver'
        <3>1. OneWorks /\ Truth /\ Stopped /\ LeftOver
            BY <2>10 DEF Rest
        <3>2. OneWorks'
            BY <1>1, <2>1, <2>3, <1>4, <2>6, <2>8, <3>1 DEF OneWorks, Shape
        <3>3. Truth'
            BY <1>1, <2>1, <2>8, <3>1 DEF Truth
        <3>4. Stopped'
            BY <1>1, <2>1, <2>6, <3>1 DEF Stopped
        <3>5. LeftOver'
            <4>1. login \in 1..wipedTo => FALSE
                <5>1. login \in 1..wipedTo => engine[e].creds = login
                    BY <2>4, <3>1 DEF LeftOver
                <5> QED
                    BY <1>1, <5>1
            <4>2. current # NoEngine => engine[current].creds = 0 \/ engine[current].creds > wipedTo
                BY <3>1, <4>1 DEF LeftOver, Shape, TypeOK
            <4> QED
                BY <1>1, <1>2, <2>5, <2>7, <3>1, <4>2 DEF LeftOver
        <3> QED
            BY <3>2, <3>3, <3>4, <3>5
    <2> QED
        BY <1>1, <2>9, <2>10 DEF Rest
<1> QED
    BY <1>3, <1>4

\* A connected engine writes its login to the disk.
LEMMA RestSaveCreds ==
    ASSUME Shape, Rest, NEW e \in Engines, SaveCreds(e)
    PROVE  Rest'
<1>1. /\ engine[e].phase = "up" /\ engine[e].creds \notin {0, login} /\ login' = engine[e].creds
      /\ UNCHANGED <<row, engine, current, retry, lost, call, asked, alone, broken, wipedTo>>
    BY DEF SaveCreds, history
<1>2. \A c \in Calls : (Past(c)' <=> Past(c)) /\ (Works(c)' <=> Works(c)) /\ (WillBoot(c)' <=> WillBoot(c))
    BY <1>1 DEF Past, Works, WillBoot
<1>3. (Dead' <=> Dead) /\ (IsReady' <=> IsReady) /\ Orphans' = Orphans
    BY <1>1 DEF Dead, IsReady, Orphans
<1>4. Booting'
    BY <1>1, <1>2 DEF Rest, Booting
<1>5. ASSUME alone PROVE OneWorks' /\ Truth' /\ Stopped' /\ LeftOver'
    <2>1. OneWorks /\ Truth /\ Stopped /\ LeftOver
        BY <1>5 DEF Rest
    <2>2. OneWorks'
        BY <1>1, <1>2, <1>3, <2>1 DEF OneWorks
    <2>3. Truth' /\ Stopped'
        BY <1>1, <1>2, <1>3, <2>1 DEF Truth, Stopped
    <2>4. LeftOver'
        <3>1. CASE e = current
            <4>1. engine[e].creds > wipedTo
                BY <1>1, <2>1, <3>1, EngineAssumption DEF LeftOver
            <4>2. login' \notin 1..wipedTo
                BY <1>1, <4>1 DEF Shape, TypeOK, Instances
            <4> QED
                BY <1>1, <1>3, <2>1, <3>1, <4>2 DEF LeftOver
        <3>2. CASE e # current
            <4>1. e \in Orphans
                BY <1>1, <3>2 DEF Orphans
            <4>2. login \notin 1..wipedTo
                BY <1>1, <2>1, <4>1 DEF LeftOver
            <4>3. current # NoEngine => engine[current].creds = 0 \/ engine[current].creds > wipedTo
                BY <2>1, <4>2 DEF LeftOver, Shape, TypeOK
            <4>4. \A o \in Orphans : engine[o].creds = login'
                BY <1>1, <2>1, <4>1 DEF LeftOver
            <4> QED
                BY <1>1, <1>3, <2>1, <4>3, <4>4 DEF LeftOver
        <3> QED
            BY <3>1, <3>2
    <2> QED
        BY <2>2, <2>3, <2>4
<1> QED
    BY <1>1, <1>4, <1>5 DEF Rest

\* The phone has unlinked the session: the registered engine has a recovery begin.
LEMMA RestLoggedOut ==
    ASSUME Shape, Rest, NEW e \in Engines, LoggedOut(e)
    PROVE  Rest'
<1>1. /\ engine[e].phase = "up" /\ Closed(e)
      /\ UNCHANGED <<login, current, retry, lost, asked, alone, broken, wipedTo>>
    BY DEF LoggedOut, history
<1>2. CASE current = e
    <2>1. /\ engine'[e] = [phase |-> "closed", status |-> "disconnected", creds |-> 0, qr |-> engine[e].qr]
          /\ \A x \in Engines \ {e} : engine'[x] = engine[x]
        BY <1>1, <1>2, ClosedEffect DEF Turns
    <2>2. RowSays("disconnected")
        BY <1>2, LoggedOutEffect
    <2>3. PICK c \in Calls : /\ call[c] = Idle
                             /\ call'[c] = [job |-> "recover", at |-> "finding", of |-> NoEngine]
                             /\ \A d \in Calls \ {c} : call'[d] = call[d]
        BY <1>2, LoggedOutEffect
    <2>4. \A d \in Calls : /\ Past(d)' <=> Past(d)
                           /\ d # c => (Works(d)' <=> Works(d))
                           /\ Past(d) => call'[d] = call[d]
        BY <2>3 DEF Past, Works, Idle
    <2>5. current # NoEngine /\ ~Dead
        BY <1>1, <1>2, NotDead, EngineAssumption
    <2>6. Booting'
        BY <1>1, <2>5 DEF Booting
    <2>7. ASSUME alone PROVE OneWorks' /\ Truth' /\ Stopped' /\ LeftOver'
        <3>1. OneWorks /\ Truth /\ Stopped /\ LeftOver
            BY <2>7 DEF Rest
        <3>2. ~retry.timer /\ \A d \in Calls : ~Works(d)
            BY <2>5, <3>1 DEF OneWorks
        <3>3. Dead' /\ ~IsReady'
            BY <1>1, <1>2, <2>1 DEF Dead, IsReady
        <3>4. OneWorks'
            BY <1>1, <2>3, <2>4, <3>1, <3>2, <3>3 DEF OneWorks, Works, Past
        <3>5. Truth'
            BY <2>2, <2>3, <3>2, <3>3 DEF Truth, RowSays, Works, Past
        <3>6. Stopped'
            BY <1>1, <2>5, <3>1 DEF Stopped
        <3>7. LeftOver'
            <4>1. Orphans' = Orphans /\ \A o \in Orphans : engine'[o] = engine[o]
                BY <1>1, <1>2, <2>1 DEF Orphans
            <4> QED
                BY <1>1, <1>2, <2>1, <3>1, <4>1 DEF LeftOver
        <3> QED
            BY <3>4, <3>5, <3>6, <3>7
    <2> QED
        BY <1>1, <2>6, <2>7 DEF Rest
<1>3. CASE current # e
    <2>1. Turns(e, Gone) /\ row' = row /\ call' = call
        BY <1>1, <1>3, ClosedEffect, LoggedOutEffect
    <2>2. Gone.phase = "gone"
        BY DEF Gone
    <2> QED
        BY <1>1, <1>3, <2>1, <2>2, OrphanMoves
<1> QED
    BY <1>2, <1>3

\* The container restarts.
LEMMA RestBootstrap ==
    ASSUME Shape, Rest, Bootstrap
    PROVE  Rest'
<1>1. /\ engine' = [e \in Engines |-> Gone] /\ current' = NoEngine /\ retry' = NoRetry /\ lost' = 0
      /\ alone' = TRUE
    BY DEF Bootstrap
<1>2. \A d \in Calls : call'[d].at \in {"idle", "finding"} /\ (call'[d].at # "idle" => call'[d].job \in Requested)
    BY DEF Bootstrap, Idle, Requested
<1>3. row'.there => row'.status \notin Active
    <2>1. row.status \in Active => row' = Written("disconnected")
        BY DEF Bootstrap, Active
    <2>2. row.status \notin Active => row' = row
        BY DEF Bootstrap, Active
    <2>3. row' = Written("disconnected") => RowSays("disconnected")
        BY WrittenType DEF Shape, TypeOK, Statuses
    <2> QED
        BY <2>1, <2>2, <2>3 DEF RowSays, Active
<1>4. ~retry'.kept /\ ~retry'.timer
    BY <1>1 DEF NoRetry
<1>5. Orphans' = {}
    BY <1>1 DEF Orphans, Gone
<1>6. \A d \in Calls : ~Works(d)' /\ ~Past(d)'
    BY <1>2 DEF Works, Past
<1>7. OneWorks'
    BY <1>1, <1>2, <1>4, <1>6 DEF OneWorks, Works, Past
<1>8. Truth'
    BY <1>1, <1>2, <1>3 DEF Truth, IsReady, Active
<1>9. Stopped'
    BY <1>1, <1>2, <1>3, <1>4, <1>6 DEF Stopped
<1>10. LeftOver'
    BY <1>1, <1>5 DEF LeftOver
<1> QED
    BY <1>4, <1>7, <1>8, <1>9, <1>10 DEF Rest, Booting

LEMMA RestUnchanged ==
    ASSUME Rest, UNCHANGED <<row, login, engine, current, retry, lost, call, asked, alone, broken, wipedTo>>
    PROVE  Rest'
<1>1. \A c \in Calls : (Past(c)' <=> Past(c)) /\ (Works(c)' <=> Works(c)) /\ (WillBoot(c)' <=> WillBoot(c))
    BY DEF Past, Works, WillBoot
<1>2. (Dead' <=> Dead) /\ (IsReady' <=> IsReady) /\ Orphans' = Orphans
    BY DEF Dead, IsReady, Orphans
<1>3. Booting'
    BY <1>1 DEF Rest, Booting
<1>4. alone => OneWorks' /\ LeftOver'
    BY <1>1, <1>2 DEF Rest, OneWorks, LeftOver
<1>5. alone => Truth' /\ Stopped'
    BY <1>1, <1>2 DEF Rest, Truth, Stopped
<1> QED
    BY <1>3, <1>4, <1>5 DEF Rest

LEMMA IInvStep ==
    ASSUME IInv, [Next]_vars PROVE IInv'
<1>1. Shape /\ Rest
    BY DEF IInv, Rest
<1>2. Shape'
    BY <1>1, ShapeStep
<1>3. Rest'
    <2>1. ASSUME NEW c \in Calls,
                 (\E job \in Requested : Request(c, job)) \/ Step(c) \/ TimerFires(c)
          PROVE  Rest'
        BY <1>1, <2>1, RestRequest, RestFind, RestNotFound, RestBegin, RestRefuse, RestClearAuthState,
           RestDelete, RestStop, RestLastWriteFails, RestBoot, RestBootFails, RestInitialize, RestTimerFires DEF Step
    <2>2. ASSUME NEW e \in Engines, EngineEvent(e) PROVE Rest'
        BY <1>1, <2>2, RestConnects, RestInitializeFails, RestQrCode, RestQrReady, RestScan, RestOpen,
           RestSaveCreds, RestDrop, RestLoggedOut DEF EngineEvent
    <2>3. CASE Revoke
        BY <1>1, <2>3, RestUnchanged DEF Revoke, history
    <2>4. CASE Bootstrap
        BY <1>1, <2>4, RestBootstrap
    <2>5. CASE UNCHANGED vars
        BY <1>1, <2>5, RestUnchanged DEF vars
    <2> QED
        BY <2>1, <2>2, <2>3, <2>4, <2>5 DEF Next
<1> QED
    BY <1>2, <1>3 DEF IInv, Rest

LEMMA InvariantHolds == Spec => []IInv
<1>1. Init => IInv
    BY ShapeInit, RestInit DEF IInv, Rest
<1>2. IInv /\ [Next]_vars => IInv'
    BY IInvStep
<1> QED
    BY <1>1, <1>2, PTL DEF Spec

-----------------------------------------------------------------------------
(* The theorems.                                                             *)

\* Every variable has its type in every reachable state.
THEOREM TypesHold == Spec => []TypeOK
<1>1. IInv => TypeOK
    BY DEF IInv, Shape
<1> QED
    BY <1>1, InvariantHolds, PTL

\* A session that was stopped or deleted by a call that ran alone stays down: no engine, no timer
\* armed, and, unless its last query failed, a row that says so, whatever late events the old
\* engine still brings.
THEOREM StoppedStaysDown == Spec => []StopSticks
<1>1. IInv => StopSticks
    BY DEF IInv, StopSticks, AllIdle, Stopped, OneWorks, Past, Active
<1> QED
    BY <1>1, InvariantHolds, PTL

\* When no call is in flight, the calls so far ran one at a time and none failed halfway, the row
\* says READY exactly when the registered engine is.
THEOREM RowIsTrue == Spec => []RowTellsTheTruth
<1>1. IInv => RowTellsTheTruth
    BY DEF IInv, RowTellsTheTruth, AllIdle, Truth, IsReady
<1> QED
    BY <1>1, InvariantHolds, PTL

\* A wiped login comes back to the disk only from an engine that nobody registered any more.
THEOREM WipedStaysWiped == Spec => OnlyOrphansRestoreLogins
<1>1. IInv /\ [Next]_vars => [login' \in 1..wipedTo /\ login' # login /\ alone => Orphans # {}]_vars
    <2> SUFFICES ASSUME IInv, Next, login' \in 1..wipedTo, login' # login, alone
                 PROVE  Orphans # {}
        BY DEF vars
    <2>1. ASSUME NEW e \in Engines, SaveCreds(e) PROVE Orphans # {}
        <3>1. engine[e].phase = "up" /\ engine[e].creds \notin {0, login} /\ login' = engine[e].creds
            BY <2>1 DEF SaveCreds
        <3>2. e # current
            <4> SUFFICES ASSUME e = current PROVE FALSE
                OBVIOUS
            <4>1. engine[e].creds > wipedTo
                BY <3>1, EngineAssumption DEF IInv, LeftOver
            <4> QED
                BY <3>1, <4>1 DEF IInv, Shape, TypeOK, Instances
        <3> QED
            BY <3>1, <3>2 DEF Orphans
    <2>2. ASSUME NEW e \in Engines, Scan(e) PROVE FALSE
        <3>1. login' = used.logins + 1
            BY <2>2 DEF Scan
        <3> QED
            BY <3>1, BoundAssumption DEF IInv, Shape, TypeOK
    <2>3. ASSUME NEW c \in Calls, ClearAuthState(c) PROVE FALSE
        BY <2>3 DEF ClearAuthState, Wiped, IInv, Shape, TypeOK
    <2>4. ASSUME NEW c \in Calls, (\E job \in Requested : Request(c, job)) \/ TimerFires(c)
          PROVE FALSE
        BY <2>4 DEF Request, TimerFires
    <2>5. ASSUME NEW c \in Calls, \/ Find(c) \/ NotFound(c) \/ Begin(c) \/ Refuse(c) \/ Delete(c)
                                  \/ Stop(c) \/ LastWriteFails(c) \/ ClearAuthStateFails(c)
                                  \/ Boot(c) \/ BootFails(c) \/ Initialize(c)
          PROVE FALSE
        BY <2>5 DEF Find, NotFound, Begin, Refuse, Delete, Stop, LastWriteFails, ClearAuthStateFails, Boot, BootFails, Initialize
    <2>6. ASSUME NEW e \in Engines, \/ Connects(e) \/ InitializeFails(e) \/ QrCode(e) \/ QrReady(e)
                                    \/ Open(e) \/ Drop(e) \/ LoggedOut(e)
          PROVE FALSE
        BY <2>6 DEF Connects, InitializeFails, QrCode, QrReady, Open, Drop, LoggedOut
    <2>7. ASSUME Revoke \/ Bootstrap PROVE FALSE
        BY <2>7 DEF Revoke, Bootstrap
    <2> QED
        BY <2>1, <2>2, <2>3, <2>4, <2>5, <2>6, <2>7 DEF Next, Step, EngineEvent
<1> QED
    BY <1>1, InvariantHolds, PTL DEF Spec, OnlyOrphansRestoreLogins
=============================================================================
