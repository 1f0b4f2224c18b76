---------------------------- MODULE RenewalBilling ----------------------------
(***************************************************************************)
(* How the billing service takes one client's subscription from active to  *)
(* grace to billing_only and back: the daily check (scheduler.py), the     *)
(* /payment conversation in the client's WhatsApp group, the M-Pesa        *)
(* callback and the administrator's actions (main.py).                     *)
(*                                                                         *)
(* Every handler reads its rows, awaits, and writes at a later commit. The *)
(* ORM session of a handler keeps the rows as it read them and its commit  *)
(* writes the columns the handler changed, so handlers that overlap see    *)
(* old rows and overwrite each other column by column: see Flush.          *)
(***************************************************************************)
EXTENDS Naturals

CONSTANTS
    Handlers,    \* requests that can run at once
    Sessions,    \* ids of payment_sessions; the id of a deleted row is used again
    Payments,    \* payments, each tried once
    Checkouts,   \* STK pushes that M-Pesa accepts, by CheckoutRequestID
    None,        \* NULL, or no such row
    Period,      \* days a payment buys (30)
    GraceDays,   \* _GRACE_DAYS (14)
    FarDays,     \* days before renewal_date of the first reminder (14)
    NearDays,    \* and of the second (2)
    WarnDays,    \* _WARNING_INTERVAL_HOURS, in days (2)
    FirstDay,    \* the day it begins: after FirstRenewal when the service was down
    FirstRenewal,\* the renewal_date the client begins with
    EditDays,    \* the dates the administrator may set it to
    Before,      \* days on which a push that nobody has answered yet may have been
                 \* requested before it begins; its session has expired
    ZoneKept,    \* whether the driver gives a timestamp its time zone back: {FALSE}
                 \* on SQLite, {TRUE} as scheduler.py and its tests take it
    MaxDay,      \* bound: the last day
    MaxTexts,    \* bound: messages in the group
    MaxActs,     \* bound: what the administrator does, /close included
    MaxAll       \* bound: the two together

ASSUME BillingAssumption ==
    /\ {Period, GraceDays, FarDays, NearDays, WarnDays} \subseteq Nat \ {0}
    /\ NearDays < FarDays
    /\ FirstDay \in Nat /\ FirstRenewal \in Nat
    /\ EditDays \subseteq Nat /\ Before \subseteq Nat
    /\ {MaxDay, MaxTexts, MaxActs, MaxAll} \subseteq Nat
    /\ ZoneKept \subseteq BOOLEAN
    /\ None \notin Nat \cup Sessions \cup Payments \cup Checkouts

VARIABLES
    day,       \* date.today()
    client,    \* the row of clients
    sessions,  \* payment_sessions
    payments,  \* payments
    run,       \* what each handler is doing, with the rows it has read
    scan,      \* the client as the daily check loaded it, None when no check runs
    checked,   \* today's check has begun
    pushes,    \* M-Pesa: each push with its payment and what became of it
    texts, acts   \* what the bounds have been spent on

vars == <<day, client, sessions, payments, run, scan, checked, pushes, texts, acts>>

Statuses == {"active", "grace", "billing_only", "closed"}

\* A day stands for the timestamp of something that happened on it.
Client == [status : Statuses, renewal_date : Nat,
           grace_started_at : Nat \cup {None}, billing_only_started_at : Nat \cup {None},
           last_warning_sent_at : Nat \cup {None},
           pre_expiry_14_warned : BOOLEAN, pre_expiry_2_warned : BOOLEAN]

\* "open" until expires_at.
PaymentSession ==
    [state : {"awaiting_phone", "awaiting_confirm", "awaiting_stk_confirm"},
     checkout_request_id : Checkouts \cup {None}, payment_id : Payments \cup {None},
     open : BOOLEAN]

Payment == [status : {"pending", "confirmed", "failed"}, period_start : Nat]

\* A push: what the customer made of it, and whether a callback about it was
\* answered with "Accepted".
Push == [payment : Payments, result : {"waiting", "paid", "refused"}, accepted : BOOLEAN]

\* A text that the conversation does not expect is any of these in another state.
Texts == {"/payment", "phone", "yes", "no"}

\* "close" is the administrator's, or "/close" in the group, which does the same.
Acts == {"close", "reactivate", "edit"}

\* A handler. "flushed": it has inserted a payment and not committed, which on
\* SQLite keeps every other writer waiting; "docker": it has committed and is
\* about to stop or start the containers.
Run == [at : {"read", "flushed", "docker"}, job : Texts \cup Acts \cup {"callback"},
        client : Client \cup {None}, sid : Sessions \cup {None},
        session : PaymentSession \cup {None},
        checkout : Checkouts \cup {None}, payment : Payments \cup {None}]

ASSUME NoRowAssumption ==
    None \notin Client \cup PaymentSession \cup Payment \cup Push \cup Run

\* A client that owes nothing, as a payment or a reactivation leaves it.
Restored(renewal) ==
    [status |-> "active", renewal_date |-> renewal,
     grace_started_at |-> None, billing_only_started_at |-> None,
     last_warning_sent_at |-> None,
     pre_expiry_14_warned |-> FALSE, pre_expiry_2_warned |-> FALSE]

NothingBefore ==
    /\ sessions = [s \in Sessions |-> None]
    /\ payments = [p \in Payments |-> None]
    /\ pushes = [c \in Checkouts |-> None]

\* A conversation that has come to the question whether to pay.
AskedBefore ==
    /\ \E s \in Sessions : sessions = [t \in Sessions |-> IF t # s THEN None ELSE
           [state |-> "awaiting_confirm", checkout_request_id |-> None,
            payment_id |-> None, open |-> TRUE]]
    /\ payments = [p \in Payments |-> None]
    /\ pushes = [c \in Checkouts |-> None]

\* A conversation that has ended in a push, which the customer has not answered.
PushBefore ==
    \E d \in Before, s \in Sessions, p \in Payments, c \in Checkouts :
        /\ sessions = [t \in Sessions |-> IF t # s THEN None ELSE
               [state |-> "awaiting_stk_confirm", checkout_request_id |-> c,
                payment_id |-> p, open |-> FALSE]]
        /\ payments = [q \in Payments |-> IF q # p THEN None ELSE
               [status |-> "pending", period_start |-> d]]
        /\ pushes = [b \in Checkouts |-> IF b # c THEN None ELSE
               [payment |-> p, result |-> "waiting", accepted |-> FALSE]]

Init ==
    /\ day = FirstDay /\ checked = FALSE
    /\ client = Restored(FirstRenewal)
    /\ NothingBefore \/ AskedBefore \/ PushBefore
    /\ run = [h \in Handlers |-> None]
    /\ scan = None
    /\ texts = 0 /\ acts = 0

-----------------------------------------------------------------------------
(* The ORM and the database                                                *)

\* The row after a commit of a handler that read it as "seen" and left it as
\* "left": the columns that differ are written, the others keep what is there.
Flush(row, seen, left) ==
    [col \in DOMAIN row |-> IF left[col] = seen[col] THEN row[col] ELSE left[col]]

\* No other transaction holds SQLite's write lock.
CanWrite(h) == \A g \in Handlers \ {h} : run[g] # None => run[g].at # "flushed"

Reading(h, jobs) == run[h] # None /\ run[h].at = "read" /\ run[h].job \in jobs

Deleted(s) == [sessions EXCEPT ![s] = None]

Ends(h) == run' = [run EXCEPT ![h] = None]

\* A write waits for the lock for five seconds, then the request fails.
Busy(h) ==
    /\ run[h] # None /\ run[h].at = "read"
    /\ ~ CanWrite(h)
    /\ Ends(h)
    /\ UNCHANGED <<day, client, sessions, payments, scan, checked, pushes, texts, acts>>

-----------------------------------------------------------------------------
(* The conversation                                                        *)

\* A message of the group: its handler looks up the session whose window is
\* open, any one when there are several.
Receive(h, text) ==
    /\ run[h] = None /\ texts < MaxTexts /\ texts + acts < MaxAll
    /\ texts' = texts + 1
    /\ LET open == {s \in Sessions : sessions[s] # None /\ sessions[s].open} IN
       \E s \in IF open = {} THEN {None} ELSE open :
          run' = [run EXCEPT ![h] =
                    [at |-> "read", job |-> text,
                     client |-> None, sid |-> s,
                     session |-> IF s = None THEN None ELSE sessions[s],
                     checkout |-> None, payment |-> None]]
    /\ UNCHANGED <<day, client, sessions, payments, scan, checked, pushes, acts>>

\* Mutant: the payment of the session that is replaced is written off.
StartConversation_WritesOff(h) ==
    /\ Reading(h, {"/payment"}) /\ CanWrite(h)
    /\ \E s \in Sessions :
         /\ sessions[s] = None
         /\ sessions' = [t \in Sessions |->
              IF t = run[h].sid THEN None
              ELSE IF t = s
                   THEN [state |-> "awaiting_phone", checkout_request_id |-> None,
                         payment_id |-> None, open |-> TRUE]
              ELSE sessions[t]]
    /\ payments' = IF run[h].sid # None /\ run[h].session.payment_id # None
                   THEN [payments EXCEPT ![run[h].session.payment_id].status = "failed"]
                   ELSE payments
    /\ Ends(h)
    /\ UNCHANGED <<day, client, scan, checked, pushes, texts, acts>>

\* "/payment": a session takes the place of the one read. The insert comes before
\* the delete; the id is that of any row that is not there.
StartConversation(h) ==
    /\ Reading(h, {"/payment"}) /\ CanWrite(h)
    /\ \E s \in Sessions :
         /\ sessions[s] = None
         /\ sessions' = [t \in Sessions |->
              IF t = run[h].sid THEN None
              ELSE IF t = s
                   THEN [state |-> "awaiting_phone", checkout_request_id |-> None,
                         payment_id |-> None, open |-> TRUE]
              ELSE sessions[t]]
    /\ Ends(h)
    /\ UNCHANGED <<day, client, payments, scan, checked, pushes, texts, acts>>

\* No session is open: one that expired within the hour is deleted, if there is one.
NoSession(h) ==
    /\ Reading(h, Texts \ {"/payment"}) /\ run[h].sid = None
    /\ \/ UNCHANGED sessions
       \/ /\ CanWrite(h)
          /\ \E s \in Sessions :
               sessions[s] # None /\ ~ sessions[s].open /\ sessions' = Deleted(s)
    /\ Ends(h)
    /\ UNCHANGED <<day, client, payments, scan, checked, pushes, texts, acts>>

\* The session as the handler read it is in this state.
InState(h, state) == run[h].sid # None /\ run[h].session.state = state

\* The phone is stored, unless the row is gone (the commit then fails).
GivePhone(h) ==
    /\ Reading(h, {"phone"}) /\ InState(h, "awaiting_phone") /\ CanWrite(h)
    /\ LET s == run[h].sid IN
       sessions' = IF sessions[s] = None THEN sessions
                   ELSE [sessions EXCEPT ![s].state = "awaiting_confirm", ![s].open = TRUE]
    /\ Ends(h)
    /\ UNCHANGED <<day, client, payments, scan, checked, pushes, texts, acts>>

\* The conversation ends: the customer cancels, or there is no priced tier.
DropSession(h) ==
    /\ \/ Reading(h, {"no"}) /\ InState(h, "awaiting_confirm")
       \/ Reading(h, {"phone"}) /\ InState(h, "awaiting_phone")
       \/ Reading(h, {"yes"}) /\ InState(h, "awaiting_confirm")
    /\ CanWrite(h)
    /\ sessions' = Deleted(run[h].sid)
    /\ Ends(h)
    /\ UNCHANGED <<day, client, payments, scan, checked, pushes, texts, acts>>

\* Anything else is answered with a hint, or not at all.
Unexpected(h) ==
    /\ Reading(h, Texts \ {"/payment"}) /\ run[h].sid # None
    /\ ~ \/ run[h].job = "phone" /\ InState(h, "awaiting_phone")
         \/ run[h].job \in {"yes", "no"} /\ InState(h, "awaiting_confirm")
    /\ Ends(h)
    /\ UNCHANGED <<day, client, sessions, payments, scan, checked, pushes, texts, acts>>

\* "yes": a payment is inserted and flushed, and the push requested.
RequestPush(h) ==
    /\ Reading(h, {"yes"}) /\ InState(h, "awaiting_confirm") /\ CanWrite(h)
    /\ \E p \in Payments :
         /\ payments[p] = None
         /\ \A c \in Checkouts : pushes[c] # None => pushes[c].payment # p
         /\ run' = [run EXCEPT ![h].at = "flushed", ![h].payment = p]
    /\ UNCHANGED <<day, client, sessions, payments, scan, checked, pushes, texts, acts>>

\* M-Pesa accepts the push and asks the customer for the PIN.
PushAccepted(h) ==
    /\ run[h] # None /\ run[h].at = "flushed" /\ run[h].checkout = None
    /\ \E c \in Checkouts :
         /\ pushes[c] = None
         /\ pushes' = [pushes EXCEPT ![c] =
                [payment |-> run[h].payment, result |-> "waiting", accepted |-> FALSE]]
         /\ run' = [run EXCEPT ![h].checkout = c]
    /\ UNCHANGED <<day, client, sessions, payments, scan, checked, texts, acts>>

\* Mutant: a payment the session already has is kept for the next push.
PushSent_KeepsPayment(h) ==
    /\ run[h] # None /\ run[h].at = "flushed" /\ run[h].checkout # None
    /\ LET s == run[h].sid IN
       IF sessions[s] = None THEN UNCHANGED <<sessions, payments>>
       ELSE /\ sessions' = [sessions EXCEPT ![s] =
                 [state |-> "awaiting_stk_confirm",
                  checkout_request_id |-> run[h].checkout,
                  payment_id |-> IF @.payment_id = None THEN run[h].payment ELSE @.payment_id,
                  open |-> TRUE]]
            /\ payments' = [payments EXCEPT ![run[h].payment] =
                 [status |-> "pending", period_start |-> day]]
    /\ Ends(h)
    /\ UNCHANGED <<day, client, scan, checked, pushes, texts, acts>>

\* The answer comes: the session waits for the callback. A session deleted in the
\* meantime fails the commit, and the payment is rolled back with it.
PushSent(h) ==
    /\ run[h] # None /\ run[h].at = "flushed" /\ run[h].checkout # None
    /\ LET s == run[h].sid IN
       IF sessions[s] = None THEN UNCHANGED <<sessions, payments>>
       ELSE /\ sessions' = [sessions EXCEPT ![s] =
                 [state |-> "awaiting_stk_confirm",
                  checkout_request_id |-> run[h].checkout,
                  payment_id |-> run[h].payment, open |-> TRUE]]
            /\ payments' = [payments EXCEPT ![run[h].payment] =
                 [status |-> "pending", period_start |-> day]]
    /\ Ends(h)
    /\ UNCHANGED <<day, client, scan, checked, pushes, texts, acts>>

\* The request fails or its answer is lost, whether M-Pesa took the push or not.
PushFailed(h) ==
    /\ run[h] # None /\ run[h].at = "flushed"
    /\ payments' = [payments EXCEPT ![run[h].payment] =
         [status |-> "failed", period_start |-> day]]
    /\ sessions' = Deleted(run[h].sid)
    /\ Ends(h)
    /\ UNCHANGED <<day, client, scan, checked, pushes, texts, acts>>

-----------------------------------------------------------------------------
(* The M-Pesa callback                                                     *)

\* The customer pays, refuses or lets the prompt time out.
CustomerAnswers(c) ==
    /\ pushes[c] # None /\ pushes[c].result = "waiting"
    /\ \E r \in {"paid", "refused"} : pushes' = [pushes EXCEPT ![c].result = r]
    /\ UNCHANGED <<day, client, sessions, payments, run, scan, checked, texts, acts>>

\* M-Pesa reports the result, once or more often. A checkout id that no session
\* has is accepted and forgotten.
Callback(h, c) ==
    /\ run[h] = None
    /\ pushes[c] # None /\ pushes[c].result # "waiting"
    /\ LET found == {s \in Sessions :
                       sessions[s] # None /\ sessions[s].checkout_request_id = c} IN
       \/ /\ found = {}
          /\ pushes' = [pushes EXCEPT ![c].accepted = TRUE]
          /\ UNCHANGED run
       \/ \E s \in found :
          /\ run' = [run EXCEPT ![h] =
                [at |-> "read", job |-> "callback", client |-> client, sid |-> s,
                 session |-> sessions[s], checkout |-> c,
                 payment |-> sessions[s].payment_id]]
          /\ UNCHANGED pushes
    /\ UNCHANGED <<day, client, sessions, payments, scan, checked, texts, acts>>

\* ResultCode 0: the payment is confirmed and the client restored.
Confirm(h) ==
    /\ Reading(h, {"callback"}) /\ pushes[run[h].checkout].result = "paid" /\ CanWrite(h)
    /\ LET p == run[h].payment
           seen == run[h].client IN
       /\ payments' = [payments EXCEPT ![p].status = "confirmed"]
       /\ client' = Flush(client, seen, Restored(payments[p].period_start + Period))
    /\ sessions' = Deleted(run[h].sid)
    /\ run' = [run EXCEPT ![h].at = "docker"]
    /\ UNCHANGED <<day, scan, checked, pushes, texts, acts>>

\* Mutant: the client is restored before the ResultCode is looked at.
Refuse_Restores(h) ==
    /\ Reading(h, {"callback"}) /\ pushes[run[h].checkout].result = "refused" /\ CanWrite(h)
    /\ LET seen == run[h].client IN
       client' = Flush(client, seen,
                       Restored(payments[run[h].payment].period_start + Period))
    /\ payments' = [payments EXCEPT ![run[h].payment].status = "failed"]
    /\ sessions' = Deleted(run[h].sid)
    /\ pushes' = [pushes EXCEPT ![run[h].checkout].accepted = TRUE]
    /\ Ends(h)
    /\ UNCHANGED <<day, scan, checked, texts, acts>>

\* Any other ResultCode.
Refuse(h) ==
    /\ Reading(h, {"callback"}) /\ pushes[run[h].checkout].result = "refused" /\ CanWrite(h)
    /\ payments' = [payments EXCEPT ![run[h].payment].status = "failed"]
    /\ sessions' = Deleted(run[h].sid)
    /\ pushes' = [pushes EXCEPT ![run[h].checkout].accepted = TRUE]
    /\ Ends(h)
    /\ UNCHANGED <<day, client, scan, checked, texts, acts>>

-----------------------------------------------------------------------------
(* The administrator, and the containers                                   *)

\* An action of the dashboard reads the client.
Administer(h, act) ==
    /\ run[h] = None /\ acts < MaxActs /\ texts + acts < MaxAll
    /\ acts' = acts + 1
    /\ run' = [run EXCEPT ![h] =
                 [at |-> "read", job |-> act, client |-> client, sid |-> None,
                  session |-> None, checkout |-> None, payment |-> None]]
    /\ UNCHANGED <<day, client, sessions, payments, scan, checked, pushes, texts>>

Close(h) ==
    /\ Reading(h, {"close"}) /\ CanWrite(h)
    /\ LET seen == run[h].client IN
       client' = Flush(client, seen, [seen EXCEPT !.status = "closed"])
    /\ run' = [run EXCEPT ![h].at = "docker"]
    /\ UNCHANGED <<day, sessions, payments, scan, checked, pushes, texts, acts>>

\* renewal_date stays as it is.
Reactivate(h) ==
    /\ Reading(h, {"reactivate"}) /\ CanWrite(h)
    /\ LET seen == run[h].client IN
       client' = Flush(client, seen, Restored(seen.renewal_date))
    /\ run' = [run EXCEPT ![h].at = "docker"]
    /\ UNCHANGED <<day, sessions, payments, scan, checked, pushes, texts, acts>>

\* The form of the client, of which renewal_date alone matters here.
EditRenewal(h) ==
    /\ Reading(h, {"edit"}) /\ CanWrite(h)
    /\ \E d \in EditDays :
         LET seen == run[h].client IN
         client' = Flush(client, seen, [seen EXCEPT !.renewal_date = d])
    /\ Ends(h)
    /\ UNCHANGED <<day, sessions, payments, scan, checked, pushes, texts, acts>>

\* stop_client after a close, start_client after anything else; errors are logged.
Docker(h) ==
    /\ run[h] # None /\ run[h].at = "docker"
    /\ pushes' = IF run[h].job = "callback"
                 THEN [pushes EXCEPT ![run[h].checkout].accepted = TRUE] ELSE pushes
    /\ Ends(h)
    /\ UNCHANGED <<day, client, sessions, payments, scan, checked, texts, acts>>

-----------------------------------------------------------------------------
(* The daily check                                                         *)

\* It loads every client that is not closed before it looks at the first one.
LoadClients ==
    /\ ~ checked /\ checked' = TRUE
    /\ scan' = IF client.status = "closed" THEN None ELSE client
    /\ UNCHANGED <<day, client, sessions, payments, run, pushes, texts, acts>>

\* What _check_client_status makes of a client; zoned is FALSE when a stored
\* timestamp has no zone: the first difference with it raises.
CheckActive(c) ==
    IF day > c.renewal_date
    THEN [c EXCEPT !.status = "grace", !.grace_started_at = day, !.last_warning_sent_at = day]
    ELSE IF c.renewal_date - day = FarDays THEN [c EXCEPT !.pre_expiry_14_warned = TRUE]
    ELSE IF c.renewal_date - day = NearDays THEN [c EXCEPT !.pre_expiry_2_warned = TRUE]
    ELSE c

WarningDue(c) ==
    c.last_warning_sent_at = None \/ day - c.last_warning_sent_at >= WarnDays

\* Mutant: the name the status had before billing_only.
CheckGrace_Suspended(c, zoned) ==
    IF c.grace_started_at = None \/ ~ zoned THEN c
    ELSE IF day - c.grace_started_at >= GraceDays
    THEN [c EXCEPT !.status = "suspended", !.billing_only_started_at = day,
                   !.last_warning_sent_at = day]
    ELSE IF WarningDue(c) THEN [c EXCEPT !.last_warning_sent_at = day] ELSE c

CheckGrace(c, zoned) ==
    IF c.grace_started_at = None \/ ~ zoned THEN c
    ELSE IF day - c.grace_started_at >= GraceDays
    THEN [c EXCEPT !.status = "billing_only", !.billing_only_started_at = day,
                   !.last_warning_sent_at = day]
    ELSE IF WarningDue(c) THEN [c EXCEPT !.last_warning_sent_at = day] ELSE c

CheckSuspended(c, zoned) ==
    IF \/ ~ zoned /\ {c.last_warning_sent_at, c.billing_only_started_at} # {None}
       \/ ~ WarningDue(c)
    THEN c ELSE [c EXCEPT !.last_warning_sent_at = day]

Checked(c, zoned) ==
    CASE c.status = "active" -> CheckActive(c)
      [] c.status = "grace" -> CheckGrace(c, zoned)
      [] OTHER -> CheckSuspended(c, zoned)

\* It reaches the client, after the messages to the clients before it were sent.
CheckClient ==
    /\ scan # None /\ \A h \in Handlers : CanWrite(h)
    /\ \E zoned \in ZoneKept : client' = Flush(client, scan, Checked(scan, zoned))
    /\ scan' = None
    /\ UNCHANGED <<day, sessions, payments, run, checked, pushes, texts, acts>>

\* Its commit waits too long for the lock; the error is logged.
CheckFails ==
    /\ scan # None /\ \E h \in Handlers : ~ CanWrite(h)
    /\ scan' = None
    /\ UNCHANGED <<day, client, sessions, payments, run, checked, pushes, texts, acts>>

-----------------------------------------------------------------------------
(* Time, and the end of the process                                        *)

Expire(s) ==
    /\ sessions[s] # None /\ sessions[s].open
    /\ sessions' = [sessions EXCEPT ![s].open = FALSE]
    /\ UNCHANGED <<day, client, payments, run, scan, checked, pushes, texts, acts>>

\* No handler and no check lasts past midnight. A day without a check is one on
\* which the service was down at eight.
NextDay ==
    /\ day < MaxDay
    /\ scan = None /\ \A h \in Handlers : run[h] = None
    /\ day' = day + 1 /\ checked' = FALSE
    /\ UNCHANGED <<client, sessions, payments, run, scan, pushes, texts, acts>>

\* What was not committed is gone.
ProcessEnds ==
    /\ run' = [h \in Handlers |-> None] /\ scan' = None
    /\ run # run' \/ scan # scan'
    /\ UNCHANGED <<day, client, sessions, payments, checked, pushes, texts, acts>>

HandlerStep(h) ==
    \/ \E text \in Texts : Receive(h, text)
    \/ StartConversation(h) \/ NoSession(h) \/ GivePhone(h) \/ DropSession(h) \/ Unexpected(h)
    \/ RequestPush(h) \/ PushAccepted(h) \/ PushSent(h) \/ PushFailed(h)
    \/ \E c \in Checkouts : Callback(h, c)
    \/ Confirm(h) \/ Refuse(h)
    \/ \E act \in Acts : Administer(h, act)
    \/ Close(h) \/ Reactivate(h) \/ EditRenewal(h) \/ Docker(h)
    \/ Busy(h)

Next ==
    \/ \E h \in Handlers : HandlerStep(h)
    \/ \E c \in Checkouts : CustomerAnswers(c)
    \/ LoadClients \/ CheckClient \/ CheckFails
    \/ \E s \in Sessions : Expire(s)
    \/ NextDay \/ ProcessEnds

Spec == Init /\ [][Next]_vars

-----------------------------------------------------------------------------
(* Properties                                                              *)

TypeOK ==
    /\ day \in Nat /\ texts \in Nat /\ acts \in Nat /\ checked \in BOOLEAN
    /\ client \in Client
    /\ sessions \in [Sessions -> PaymentSession \cup {None}]
    /\ payments \in [Payments -> Payment \cup {None}]
    /\ run \in [Handlers -> Run \cup {None}]
    /\ scan \in Client \cup {None}
    /\ pushes \in [Checkouts -> Push \cup {None}]

Confirmed(p) == payments[p] # None /\ payments[p].status = "confirmed"

\* A payment is confirmed only when the customer has paid the very push that was
\* requested for it, however many conversations, pushes and callbacks overlap:
\* mpesa_callback finds the payment through the session's checkout_request_id.
ConfirmedIsPaid ==
    \A p \in Payments : Confirmed(p) =>
        \E c \in Checkouts : pushes[c] # None /\ pushes[c].payment = p /\ pushes[c].result = "paid"

\* renewal_date moves only in the commit of a callback whose push was paid, to the end
\* of the period of that very payment, which is confirmed with it, or in the commit of
\* the administrator's edit. No other handler that commits what it read long ago, and
\* no daily check, moves it. It may go back: see NeverBack.
RenewalMovesStep ==
    client'.renewal_date # client.renewal_date =>
        \/ \E h \in Handlers : Reading(h, {"edit"}) /\ run'[h] = None
        \/ \E h \in Handlers, p \in Payments :
              /\ Reading(h, {"callback"}) /\ run[h].payment = p
              /\ pushes[run[h].checkout].payment = p /\ pushes[run[h].checkout].result = "paid"
              /\ Confirmed(p)' /\ client'.renewal_date = payments'[p].period_start + Period
RenewalMoves == [][RenewalMovesStep]_vars

\* A paid period is never taken back but by an edit. (It is, when the callback of an
\* older push comes after that of a younger one: see the README.)
NeverBack ==
    [][client'.renewal_date < client.renewal_date =>
         \E h \in Handlers : Reading(h, {"edit"})]_vars

\* The outcome of a payment is final: no later conversation, repeated callback or
\* late commit turns a confirmed payment into a failed one, or the reverse.
ResultFinalStep ==
    \A p \in Payments :
        payments[p] # None /\ payments[p].status # "pending" => payments'[p] = payments[p]
ResultFinal == [][ResultFinalStep]_vars

\* An active client is locked only while its subscription has lapsed: the daily
\* check never locks out one that has just paid. (It does: see the README.)
LockedOnlyIfLapsed ==
    [][client.status = "active" /\ client'.status = "grace" => day > client.renewal_date]_vars

\* A payment on record does not stay pending once M-Pesa has reported it paid and
\* been told "Accepted". (It can: see the README.)
PaidIsCredited ==
    \A c \in Checkouts :
        pushes[c] # None /\ pushes[c].accepted /\ pushes[c].result = "paid" =>
            LET p == payments[pushes[c].payment] IN p = None \/ p.status # "pending"

\* After the day's check no client is in grace for GraceDays or longer. (Not so
\* with timestamps that have lost their zone: see the README.)
GraceEnds ==
    checked /\ scan = None /\ client.status = "grace" =>
        client.grace_started_at # None /\ day - client.grace_started_at < GraceDays


=============================================================================
