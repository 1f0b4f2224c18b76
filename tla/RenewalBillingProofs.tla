------------------------ MODULE RenewalBillingProofs ------------------------
(***************************************************************************)
(* What RenewalBilling keeps, for any sets of handlers, sessions, payments *)
(* and pushes, and any lengths of periods: type correctness; a payment is  *)
(* confirmed only when its own push was paid; its outcome is final; and    *)
(* renewal_date moves only by the callback that confirms a payment, to the *)
(* end of its period, or by the administrator.                             *)
(*                                                                         *)
(* ConfirmedIsPaid is not inductive. A callback acts on a session row it   *)
(* has read, and a session points to a payment through two columns that    *)
(* another handler wrote, so the invariant says what both may hold: the    *)
(* checkout id and the payment id of a row belong to one push (Matched),   *)
(* as do those in a callback's hands (Shape), every push has a payment of  *)
(* its own (OwnPayment), and once a payment is written off nothing leads   *)
(* to it but a refusal (WrittenOff).                                       *)
(***************************************************************************)
EXTENDS RenewalBilling, TLAPS

-----------------------------------------------------------------------------
(* The inductive invariant                                                 *)

\* SQLite's lock: one handler at a time has flushed and not committed.
OneWriter ==
    \A g, h \in Handlers :
        /\ run[g] # None /\ run[g].at = "flushed"
        /\ run[h] # None /\ run[h].at = "flushed"
        => g = h

\* The session read, if any, came with its row.
HasSession(r) == r.sid \in Sessions => r.session \in PaymentSession

\* A handler that has flushed holds a payment nothing else knows but its push.
HoldsPayment(r) ==
    /\ r.sid \in Sessions /\ r.payment \in Payments
    /\ payments[r.payment] = None
    /\ \A c \in Checkouts : pushes[c] # None =>
          (pushes[c].payment = r.payment <=> c = r.checkout)
    /\ \A s \in Sessions : sessions[s] # None =>
          sessions[s].payment_id # r.payment /\ (r.checkout = None \/ sessions[s].checkout_request_id # r.checkout)
    /\ r.checkout # None => pushes[r.checkout] # None

\* A callback that has read its session acts on the push and its payment.
HoldsPush(r) ==
    /\ r.sid \in Sessions /\ r.checkout \in Checkouts /\ r.payment \in Payments
    /\ pushes[r.checkout] # None
    /\ pushes[r.checkout].result # "waiting"
    /\ pushes[r.checkout].payment = r.payment
    /\ payments[r.payment] # None

Shape ==
    \A h \in Handlers : run[h] # None =>
        /\ HasSession(run[h])
        /\ run[h].at = "flushed" => HoldsPayment(run[h])
        /\ run[h].at = "read" /\ run[h].job = "callback" => HoldsPush(run[h])
        /\ run[h].at = "docker" /\ run[h].job = "callback" =>
              run[h].checkout \in Checkouts /\ pushes[run[h].checkout] # None
        /\ run[h].at = "read" /\ run[h].job \in Acts => run[h].client \in Client
        /\ run[h].at = "read" /\ run[h].job = "callback" => run[h].client \in Client
        /\ run[h].at = "read" /\ run[h].job \in Texts => run[h].checkout = None

Matched ==
    \A s \in Sessions : sessions[s] # None =>
        LET c == sessions[s].checkout_request_id
            p == sessions[s].payment_id IN
        /\ c = None <=> p = None
        /\ c # None => /\ pushes[c] # None /\ pushes[c].payment = p
                       /\ payments[p] # None

OwnPayment ==
    \A c, d \in Checkouts :
        pushes[c] # None /\ pushes[d] # None /\ pushes[c].payment = pushes[d].payment => c = d

\* A session, or a callback that has read one, leads to the payment of this push.
Followed(c) ==
    \/ \E s \in Sessions : sessions[s] # None /\ sessions[s].checkout_request_id = c
    \/ \E h \in Handlers : run[h] # None /\ run[h].at = "read" /\ run[h].job = "callback"
                              /\ run[h].checkout = c

WrittenOff ==
    \A c \in Checkouts :
        /\ pushes[c] # None /\ payments[pushes[c].payment] # None
        /\ payments[pushes[c].payment].status = "failed"
        => pushes[c].result = "refused" \/ ~ Followed(c)

IInv == TypeOK /\ OneWriter /\ Shape /\ Matched /\ OwnPayment /\ WrittenOff /\ ConfirmedIsPaid

-----------------------------------------------------------------------------
(* Type correctness                                                        *)

\* A commit of a handler's changes to a client leaves a client.
LEMMA FlushType ==
    ASSUME NEW row \in Client, NEW seen \in Client, NEW left \in Client
    PROVE  Flush(row, seen, left) \in Client
  <1>1. DOMAIN row = {"status", "renewal_date", "grace_started_at", "billing_only_started_at",
                      "last_warning_sent_at", "pre_expiry_14_warned", "pre_expiry_2_warned"}
    BY DEF Client
  <1> QED BY <1>1 DEF Flush, Client

\* A restored client is a client.
LEMMA RestoredType ==
    ASSUME NEW d \in Nat PROVE Restored(d) \in Client
  BY DEF Restored, Client, Statuses

\* The daily check makes a client of a client.
LEMMA CheckedType ==
    ASSUME NEW c \in Client, NEW zoned \in BOOLEAN, day \in Nat
    PROVE  Checked(c, zoned) \in Client
  <1>1. CheckActive(c) \in Client
    BY DEF CheckActive, Client, Statuses
  <1>2. CheckGrace(c, zoned) \in Client
    BY DEF CheckGrace, Client, Statuses
  <1>3. CheckSuspended(c, zoned) \in Client
    BY DEF CheckSuspended, Client, Statuses
  <1> QED BY <1>1, <1>2, <1>3 DEF Checked

\* The types of what one request changes.
LEMMA HandlerTypes ==
    ASSUME IInv, NEW h \in Handlers, HandlerStep(h)
    PROVE  TypeOK'
  <1> USE BillingAssumption
  <1> USE DEF TypeOK, IInv
  <1>1. ASSUME NEW text \in Texts, Receive(h, text) PROVE TypeOK'
    BY <1>1 DEF Receive, Run
  <1>2. CASE StartConversation(h)
    <2>1. sessions' \in [Sessions -> PaymentSession \cup {None}]
      BY <1>2 DEF StartConversation, PaymentSession
    <2> QED BY <1>2, <2>1 DEF StartConversation, Ends
  <1>3. CASE NoSession(h)
    BY <1>3 DEF NoSession, Ends, Deleted
  <1>4. CASE GivePhone(h)
    <2>1. CASE sessions[run[h].sid] = None
      BY <1>4, <2>1 DEF GivePhone, Ends
    <2>2. CASE sessions[run[h].sid] # None
      <3>1. run[h] \in Run /\ run[h].sid \in Sessions
        BY <1>4 DEF GivePhone, Reading, InState, Run
      <3>2. sessions[run[h].sid] \in PaymentSession
        BY <2>2, <3>1
      <3>3. [sessions[run[h].sid] EXCEPT !.state = "awaiting_confirm", !.open = TRUE]
               \in PaymentSession
        BY <3>2 DEF PaymentSession
      <3>4. sessions' = [sessions EXCEPT ![run[h].sid] =
               [sessions[run[h].sid] EXCEPT !.state = "awaiting_confirm", !.open = TRUE]]
        BY <1>4, <2>2, <3>1, <3>2 DEF GivePhone, PaymentSession
      <3>5. sessions' \in [Sessions -> PaymentSession \cup {None}]
        BY <3>1, <3>3, <3>4
      <3> QED BY <1>4, <3>5 DEF GivePhone, Ends
    <2> QED BY <2>1, <2>2
  <1>5. CASE DropSession(h)
    BY <1>5 DEF DropSession, Ends, Deleted
  <1>6. CASE Unexpected(h)
    BY <1>6 DEF Unexpected, Ends
  <1>7. CASE RequestPush(h)
    <2>1. run[h] \in Run
      BY <1>7 DEF RequestPush, Reading
    <2>2. run' \in [Handlers -> Run \cup {None}]
      <3>1. PICK p \in Payments : run' = [run EXCEPT ![h].at = "flushed", ![h].payment = p]
        BY <1>7 DEF RequestPush
      <3>2. [run[h] EXCEPT !.at = "flushed", !.payment = p] \in Run
        BY <2>1 DEF Run
      <3>3. run' = [run EXCEPT ![h] = [run[h] EXCEPT !.at = "flushed", !.payment = p]]
        BY <2>1, <3>1 DEF Run
      <3> QED BY <3>2, <3>3
    <2> QED BY <1>7, <2>2 DEF RequestPush
  <1>8. CASE PushAccepted(h)
    <2>1. run[h] \in Run /\ run[h].payment \in Payments
      BY <1>8 DEF PushAccepted, Shape, HoldsPayment
    <2> QED BY <1>8, <2>1 DEF PushAccepted, Run, Push
  <1>9. CASE PushSent(h)
    <2>1. /\ run[h] \in Run /\ run[h].sid \in Sessions
          /\ run[h].payment \in Payments /\ run[h].checkout \in Checkouts
      BY <1>9 DEF PushSent, Shape, HoldsPayment, Run
    <2>2. sessions' \in [Sessions -> PaymentSession \cup {None}]
      <3>1. [state |-> "awaiting_stk_confirm", checkout_request_id |-> run[h].checkout,
             payment_id |-> run[h].payment, open |-> TRUE] \in PaymentSession
        BY <2>1 DEF PaymentSession
      <3> QED BY <1>9, <2>1, <3>1 DEF PushSent
    <2>3. payments' \in [Payments -> Payment \cup {None}]
      BY <1>9, <2>1 DEF PushSent, Payment
    <2> QED BY <1>9, <2>2, <2>3 DEF PushSent, Ends
  <1>10. CASE PushFailed(h)
    <2>1. run[h] \in Run /\ run[h].payment \in Payments
      BY <1>10 DEF PushFailed, Shape, HoldsPayment
    <2> QED BY <1>10, <2>1 DEF PushFailed, Ends, Deleted, Payment
  <1>11. ASSUME NEW c \in Checkouts, Callback(h, c) PROVE TypeOK'
    <2>1. pushes' \in [Checkouts -> Push \cup {None}]
      <3>1. pushes[c] \in Push
        BY <1>11 DEF Callback
      <3>2. [pushes[c] EXCEPT !.accepted = TRUE] \in Push
        BY <3>1 DEF Push
      <3> QED BY <1>11, <3>2 DEF Callback
    <2>2. run' \in [Handlers -> Run \cup {None}]
      BY <1>11 DEF Callback, Run, PaymentSession
    <2> QED BY <1>11, <2>1, <2>2 DEF Callback
  <1>12. CASE Confirm(h)
    <2>1. HoldsPush(run[h]) /\ run[h] \in Run /\ run[h].client \in Client
      BY <1>12 DEF Confirm, Reading, Shape
    <2>2. payments[run[h].payment] \in Payment
      BY <2>1 DEF HoldsPush
    <2>3. payments[run[h].payment].period_start + Period \in Nat
      BY <2>2 DEF Payment
    <2>4. client' \in Client
      BY <1>12, <2>1, <2>3, FlushType, RestoredType DEF Confirm
    <2>5. payments' \in [Payments -> Payment \cup {None}]
      BY <1>12, <2>1, <2>2 DEF Confirm, Payment
    <2>6. run' \in [Handlers -> Run \cup {None}]
      BY <1>12, <2>1 DEF Confirm, Run
    <2> QED BY <1>12, <2>4, <2>5, <2>6 DEF Confirm, Deleted
  <1>13. CASE Refuse(h)
    <2>1. HoldsPush(run[h])
      BY <1>13 DEF Refuse, Reading, Shape
    <2>2. payments[run[h].payment] \in Payment /\ pushes[run[h].checkout] \in Push
      BY <2>1 DEF HoldsPush
    <2>3. payments' \in [Payments -> Payment \cup {None}]
      BY <1>13, <2>1, <2>2 DEF Refuse, Payment, HoldsPush
    <2>4. pushes' \in [Checkouts -> Push \cup {None}]
      BY <1>13, <2>1, <2>2 DEF Refuse, Push, HoldsPush
    <2> QED BY <1>13, <2>3, <2>4 DEF Refuse, Ends, Deleted
  <1>14. ASSUME NEW act \in Acts, Administer(h, act) PROVE TypeOK'
    BY <1>14 DEF Administer, Run
  <1>15. CASE Close(h)
    <2>1. run[h] \in Run /\ run[h].client \in Client
      BY <1>15 DEF Close, Reading, Shape, Acts
    <2>2. [run[h].client EXCEPT !.status = "closed"] \in Client
      BY <2>1 DEF Client, Statuses
    <2>3. client' \in Client
      BY <1>15, <2>1, <2>2, FlushType DEF Close
    <2> QED BY <1>15, <2>1, <2>3 DEF Close, Run
  <1>16. CASE Reactivate(h)
    <2>1. run[h] \in Run /\ run[h].client \in Client
      BY <1>16 DEF Reactivate, Reading, Shape, Acts
    <2>2. run[h].client.renewal_date \in Nat
      BY <2>1 DEF Client
    <2>3. client' \in Client
      BY <1>16, <2>1, <2>2, FlushType, RestoredType DEF Reactivate
    <2> QED BY <1>16, <2>1, <2>3 DEF Reactivate, Run
  <1>17. CASE EditRenewal(h)
    <2>1. run[h].client \in Client
      BY <1>17 DEF EditRenewal, Reading, Shape, Acts
    <2>2. \A d \in Nat : [run[h].client EXCEPT !.renewal_date = d] \in Client
      BY <2>1 DEF Client
    <2>3. client' \in Client
      BY <1>17, <2>1, <2>2, FlushType DEF EditRenewal
    <2> QED BY <1>17, <2>3 DEF EditRenewal, Ends
  <1>18. CASE Docker(h)
    <2>1. pushes' \in [Checkouts -> Push \cup {None}]
      <3>1. CASE run[h].job = "callback"
        <4>1. run[h].checkout \in Checkouts /\ pushes[run[h].checkout] \in Push
          BY <1>18, <3>1 DEF Docker, Shape
        <4>2. [pushes[run[h].checkout] EXCEPT !.accepted = TRUE] \in Push
          BY <4>1 DEF Push
        <4> QED BY <1>18, <3>1, <4>1, <4>2 DEF Docker
      <3> QED BY <1>18, <3>1 DEF Docker
    <2> QED BY <1>18, <2>1 DEF Docker, Ends
  <1>19. CASE Busy(h)
    BY <1>19 DEF Busy, Ends
  <1> QED
    BY <1>1, <1>2, <1>3, <1>4, <1>5, <1>6, <1>7, <1>8, <1>9, <1>10, <1>11, <1>12, <1>13,
       <1>14, <1>15, <1>16, <1>17, <1>18, <1>19 DEF HandlerStep

\* The types of everything else.
LEMMA OtherTypes ==
    ASSUME IInv,
           \/ \E c \in Checkouts : CustomerAnswers(c)
           \/ LoadClients \/ CheckClient \/ CheckFails
           \/ \E s \in Sessions : Expire(s)
           \/ NextDay \/ ProcessEnds
    PROVE  TypeOK'
  <1> USE BillingAssumption
  <1> USE DEF TypeOK, IInv
  <1>1. ASSUME NEW c \in Checkouts, CustomerAnswers(c) PROVE TypeOK'
    BY <1>1 DEF CustomerAnswers, Push
  <1>2. CASE LoadClients
    BY <1>2 DEF LoadClients
  <1>3. CASE CheckClient
    <2>1. \A zoned \in ZoneKept : Checked(scan, zoned) \in Client
      BY <1>3, CheckedType DEF CheckClient
    <2>2. client' \in Client
      BY <1>3, <2>1, FlushType DEF CheckClient
    <2> QED BY <1>3, <2>2 DEF CheckClient
  <1>4. CASE CheckFails
    BY <1>4 DEF CheckFails
  <1>5. ASSUME NEW s \in Sessions, Expire(s) PROVE TypeOK'
    <2>1. sessions[s] \in PaymentSession
      BY <1>5 DEF Expire
    <2>2. [sessions[s] EXCEPT !.open = FALSE] \in PaymentSession
      BY <2>1 DEF PaymentSession
    <2> QED BY <1>5, <2>2 DEF Expire
  <1>6. CASE NextDay
    <2>1. day' \in Nat
      BY <1>6 DEF NextDay
    <2> QED BY <1>6, <2>1 DEF NextDay
  <1>7. CASE ProcessEnds
    BY <1>7 DEF ProcessEnds
  <1> QED BY <1>1, <1>2, <1>3, <1>4, <1>5, <1>6, <1>7

-----------------------------------------------------------------------------
(* The rest of the invariant                                               *)

Rest == OneWriter /\ Shape /\ Matched /\ OwnPayment /\ WrittenOff /\ ConfirmedIsPaid

\* A run that holds neither a payment nor a push.
Plain(r) ==
    /\ HasSession(r)
    /\ r.at # "flushed" /\ r.job # "callback"
    /\ r.at = "read" /\ r.job \in Acts => r.client \in Client
    /\ r.at = "read" /\ r.job \in Texts => r.checkout = None

\* Handlers go on as they were, stop, or turn to plain work; a confirmed callback
\* goes on to the containers.
RunsShrink ==
    \A g \in Handlers :
        \/ run'[g] = run[g]
        \/ run'[g] = None
        \/ run'[g] # None /\ Plain(run'[g])
        \/ /\ run'[g] # None /\ run[g] # None /\ run'[g].at = "docker"
           /\ run[g].at = "read" /\ run[g].job = "callback"
           /\ HasSession(run'[g]) /\ run'[g].checkout = run[g].checkout

\* Sessions are deleted, keep their two ids, or have none yet.
SessionsShrink ==
    \A s \in Sessions : sessions'[s] # None =>
        \/ sessions'[s].checkout_request_id = None /\ sessions'[s].payment_id = None
        \/ /\ sessions[s] # None
           /\ sessions'[s].checkout_request_id = sessions[s].checkout_request_id
           /\ sessions'[s].payment_id = sessions[s].payment_id

\* Pushes stay, with their payments; a result that is known stays known.
PushesStay ==
    \A c \in Checkouts :
        /\ pushes'[c] = None <=> pushes[c] = None
        /\ pushes[c] # None => /\ pushes'[c].payment = pushes[c].payment
                               /\ pushes[c].result # "waiting" => pushes'[c].result = pushes[c].result

\* Whatever only shrinks keeps the invariant.
LEMMA Shrinks ==
    ASSUME IInv, TypeOK', RunsShrink, SessionsShrink, PushesStay, payments' = payments
    PROVE  Rest'
  <1> USE BillingAssumption DEF IInv
  <1>1. OneWriter'
    BY DEF OneWriter, RunsShrink, Plain
  <1>2. Shape'
    <2> SUFFICES ASSUME NEW h \in Handlers, run'[h] # None
                 PROVE  /\ HasSession(run'[h])
                        /\ run'[h].at = "flushed" => HoldsPayment(run[h])'
                        /\ run'[h].at = "read" /\ run'[h].job = "callback" => HoldsPush(run[h])'
                        /\ run'[h].at = "docker" /\ run'[h].job = "callback" =>
                              run'[h].checkout \in Checkouts /\ pushes'[run'[h].checkout] # None
                        /\ run'[h].at = "read" /\ run'[h].job \in Acts
                              => run'[h].client \in Client
                        /\ run'[h].at = "read" /\ run'[h].job = "callback" => run'[h].client \in Client
                        /\ run'[h].at = "read" /\ run'[h].job \in Texts => run'[h].checkout = None
      BY DEF Shape, HasSession
    <2>1. CASE run'[h] = run[h]
      <3>1. HoldsPayment(run[h]) => HoldsPayment(run[h])'
        BY <2>1 DEF HoldsPayment, SessionsShrink, PushesStay, TypeOK, Run
      <3>2. HoldsPush(run[h]) => HoldsPush(run[h])'
        BY <2>1 DEF HoldsPush, PushesStay, TypeOK
      <3> QED BY <2>1, <3>1, <3>2 DEF Shape, PushesStay
    <2>2. CASE Plain(run'[h])
      BY <2>2 DEF Plain
    <2>3. CASE /\ run[h] # None /\ run'[h].at = "docker"
               /\ run[h].at = "read" /\ run[h].job = "callback"
               /\ HasSession(run'[h]) /\ run'[h].checkout = run[h].checkout
      BY <2>3 DEF Shape, HoldsPush, PushesStay
    <2> QED BY <2>1, <2>2, <2>3 DEF RunsShrink
  <1>3. Matched'
    BY DEF Matched, SessionsShrink, PushesStay, TypeOK, PaymentSession
  <1>4. OwnPayment'
    BY DEF OwnPayment, PushesStay
  <1>5. \A c \in Checkouts : pushes[c] # None /\ Followed(c)' => Followed(c)
    BY DEF Followed, SessionsShrink, RunsShrink, Plain
  <1>6. WrittenOff'
    <2> SUFFICES ASSUME NEW c \in Checkouts, pushes'[c] # None,
                        payments'[pushes'[c].payment] # None,
                        payments'[pushes'[c].payment].status = "failed",
                        Followed(c)'
                 PROVE  pushes'[c].result = "refused"
      BY DEF WrittenOff
    <2>1. pushes[c] # None /\ pushes'[c].payment = pushes[c].payment
      BY DEF PushesStay
    <2>2. pushes[c].result = "refused"
      BY <1>5, <2>1 DEF WrittenOff
    <2> QED BY <2>1, <2>2 DEF PushesStay
  <1>7. ConfirmedIsPaid'
    BY DEF ConfirmedIsPaid, Confirmed, PushesStay
  <1> QED BY <1>1, <1>2, <1>3, <1>4, <1>6, <1>7 DEF Rest

\* The requests of which Shrinks says all.
LEMMA PlainSteps ==
    ASSUME IInv, TypeOK', NEW h \in Handlers,
           \/ \E text \in Texts : Receive(h, text)
           \/ StartConversation(h) \/ NoSession(h) \/ GivePhone(h) \/ DropSession(h)
           \/ Unexpected(h) \/ (\E act \in Acts : Administer(h, act))
           \/ Close(h) \/ Reactivate(h) \/ EditRenewal(h) \/ Docker(h) \/ Busy(h)
    PROVE  Rest'
  <1> USE BillingAssumption DEF IInv
  <1>1. ASSUME NEW text \in Texts, Receive(h, text) PROVE RunsShrink
    <2>1. run'[h].at = "read" /\ run'[h].job = text /\ run'[h].checkout = None
      BY <1>1 DEF Receive, TypeOK
    <2>2. HasSession(run'[h])
      BY <1>1 DEF Receive, TypeOK, HasSession
    <2>3. Plain(run'[h])
      BY <2>1, <2>2 DEF Plain, Texts, Acts
    <2> QED BY <1>1, <2>3 DEF Receive, RunsShrink, TypeOK
  <1>2. ASSUME NEW act \in Acts, Administer(h, act) PROVE RunsShrink
    <2>1. Plain(run'[h])
      BY <1>2 DEF Administer, TypeOK, Plain, HasSession, Texts, Acts
    <2> QED BY <1>2, <2>1 DEF Administer, RunsShrink, TypeOK
  <1>3. CASE Close(h) \/ Reactivate(h)
    <2>1. /\ run[h] \in Run /\ run[h].job \in {"close", "reactivate"}
          /\ run' = [run EXCEPT ![h].at = "docker"]
      BY <1>3 DEF Close, Reactivate, Reading, TypeOK
    <2>2. /\ run'[h].at = "docker" /\ run'[h].job = run[h].job
          /\ run'[h].sid = run[h].sid /\ run'[h].session = run[h].session
      BY <2>1 DEF TypeOK, Run
    <2>3. HasSession(run'[h])
      BY <1>3, <2>2 DEF Close, Reactivate, Reading, Shape, HasSession
    <2>4. Plain(run'[h])
      BY <2>1, <2>2, <2>3 DEF Plain
    <2>5. RunsShrink
      BY <2>1, <2>4 DEF RunsShrink, TypeOK
    <2>6. SessionsShrink /\ PushesStay /\ payments' = payments
      BY <1>3 DEF Close, Reactivate, SessionsShrink, PushesStay
    <2> QED BY <2>5, <2>6, Shrinks
  <1>4. CASE \/ StartConversation(h) \/ NoSession(h) \/ GivePhone(h) \/ DropSession(h)
    <2>1. RunsShrink
      BY <1>4 DEF StartConversation, NoSession, GivePhone, DropSession, Ends, RunsShrink, TypeOK
    <2>2. PushesStay /\ payments' = payments
      BY <1>4 DEF StartConversation, NoSession, GivePhone, DropSession, PushesStay
    <2>3. SessionsShrink
      <3>1. CASE StartConversation(h)
        BY <3>1 DEF StartConversation, SessionsShrink
      <3>2. CASE NoSession(h)
        BY <3>2 DEF NoSession, Deleted, SessionsShrink, TypeOK
      <3>3. CASE GivePhone(h)
        <4>1. CASE sessions[run[h].sid] = None
          BY <3>3, <4>1 DEF GivePhone, SessionsShrink
        <4>2. CASE sessions[run[h].sid] # None
          <5>1. run[h].sid \in Sessions
            BY <3>3 DEF GivePhone, Reading, InState, TypeOK, Run
          <5>2. sessions[run[h].sid] \in PaymentSession
            BY <4>2, <5>1 DEF TypeOK
          <5> QED BY <3>3, <4>2, <5>1, <5>2 DEF GivePhone, SessionsShrink, TypeOK, PaymentSession
        <4> QED BY <4>1, <4>2
      <3>4. CASE DropSession(h)
        BY <3>4 DEF DropSession, Deleted, SessionsShrink, TypeOK
      <3> QED BY <1>4, <3>1, <3>2, <3>3, <3>4
    <2> QED BY <2>1, <2>2, <2>3, Shrinks
  <1>5. CASE Unexpected(h) \/ EditRenewal(h) \/ Busy(h)
    <2>1. RunsShrink
      BY <1>5 DEF Unexpected, EditRenewal, Busy, Ends, RunsShrink, TypeOK
    <2>2. SessionsShrink /\ PushesStay /\ payments' = payments
      BY <1>5 DEF Unexpected, EditRenewal, Busy, SessionsShrink, PushesStay
    <2> QED BY <2>1, <2>2, Shrinks
  <1>6. CASE Docker(h)
    <2>1. RunsShrink /\ SessionsShrink /\ payments' = payments
      BY <1>6 DEF Docker, Ends, RunsShrink, SessionsShrink, TypeOK
    <2>2. PushesStay
      <3>1. CASE run[h].job = "callback"
        <4>1. run[h].checkout \in Checkouts /\ pushes[run[h].checkout] \in Push
          BY <1>6, <3>1 DEF Docker, Shape, TypeOK
        <4>2. \A c \in Checkouts :
                 pushes'[c] = IF c = run[h].checkout THEN [pushes[c] EXCEPT !.accepted = TRUE]
                              ELSE pushes[c]
          BY <1>6, <3>1, <4>1 DEF Docker, TypeOK
        <4>3. \A r \in Push : /\ [r EXCEPT !.accepted = TRUE] \in Push
                              /\ [r EXCEPT !.accepted = TRUE].payment = r.payment
                              /\ [r EXCEPT !.accepted = TRUE].result = r.result
          BY DEF Push
        <4>4. None \notin Push
          BY NoRowAssumption
        <4>5. ASSUME NEW c \in Checkouts
              PROVE  /\ pushes'[c] = None <=> pushes[c] = None
                     /\ pushes[c] # None => /\ pushes'[c].payment = pushes[c].payment
                                            /\ pushes'[c].result = pushes[c].result
          <5>1. CASE c = run[h].checkout
            <6>1. pushes'[c] = [pushes[c] EXCEPT !.accepted = TRUE]
              BY <5>1, <4>2
            <6>2. pushes[c] \in Push
              BY <5>1, <4>1
            <6> HIDE DEF IInv
            <6> QED BY <6>1, <6>2, <4>3, <4>4
          <5>2. CASE c # run[h].checkout
            BY <5>2, <4>2
          <5> QED BY <5>1, <5>2
        <4> QED BY <4>5 DEF PushesStay
      <3>2. CASE run[h].job # "callback"
        <4>1. pushes' = pushes
          BY <1>6, <3>2 DEF Docker
        <4> QED BY <4>1 DEF PushesStay
      <3> QED BY <3>1, <3>2
    <2> QED BY <2>1, <2>2, Shrinks
  <1>7. ASSUME NEW text \in Texts, Receive(h, text) PROVE Rest'
    BY <1>1, <1>7, Shrinks DEF Receive, SessionsShrink, PushesStay
  <1>8. ASSUME NEW act \in Acts, Administer(h, act) PROVE Rest'
    BY <1>2, <1>8, Shrinks DEF Administer, SessionsShrink, PushesStay
  <1> QED BY <1>3, <1>4, <1>5, <1>6, <1>7, <1>8

\* So do the steps of the customer, the daily check, time and a restart.
LEMMA OtherSteps ==
    ASSUME IInv, TypeOK',
           \/ \E c \in Checkouts : CustomerAnswers(c)
           \/ LoadClients \/ CheckClient \/ CheckFails
           \/ \E s \in Sessions : Expire(s)
           \/ NextDay \/ ProcessEnds
    PROVE  Rest'
  <1> USE BillingAssumption DEF IInv
  <1>1. ASSUME NEW c \in Checkouts, CustomerAnswers(c) PROVE Rest'
    <2>1. RunsShrink /\ SessionsShrink /\ payments' = payments
      BY <1>1 DEF CustomerAnswers, RunsShrink, SessionsShrink
    <2>2. pushes[c] \in Push
      BY <1>1 DEF CustomerAnswers, TypeOK
    <2>3. PICK r \in {"paid", "refused"} : pushes' = [pushes EXCEPT ![c].result = r]
      BY <1>1 DEF CustomerAnswers
    <2>4. pushes'[c] # None /\ pushes'[c].payment = pushes[c].payment
      <3>1. pushes'[c] = [pushes[c] EXCEPT !.result = r]
        BY <2>3 DEF TypeOK
      <3>2. /\ [pushes[c] EXCEPT !.result = r] \in Push
            /\ [pushes[c] EXCEPT !.result = r].payment = pushes[c].payment
        BY <2>2 DEF Push
      <3> QED BY <3>1, <3>2, NoRowAssumption
    <2>5. PushesStay
      BY <1>1, <2>3, <2>4 DEF CustomerAnswers, PushesStay, TypeOK
    <2> QED BY <2>1, <2>5, Shrinks
  <1>2. CASE LoadClients \/ CheckClient \/ CheckFails \/ NextDay
    <2>1. RunsShrink /\ SessionsShrink /\ PushesStay /\ payments' = payments
      BY <1>2 DEF LoadClients, CheckClient, CheckFails, NextDay, RunsShrink, SessionsShrink, PushesStay
    <2> QED BY <2>1, Shrinks
  <1>3. ASSUME NEW s \in Sessions, Expire(s) PROVE Rest'
    <2>1. RunsShrink /\ PushesStay /\ payments' = payments
      BY <1>3 DEF Expire, RunsShrink, PushesStay
    <2>2. sessions[s] \in PaymentSession
      BY <1>3 DEF Expire, TypeOK
    <2>3. SessionsShrink
      BY <1>3, <2>2 DEF Expire, SessionsShrink, TypeOK, PaymentSession
    <2> QED BY <2>1, <2>3, Shrinks
  <1>4. CASE ProcessEnds
    <2>1. RunsShrink /\ SessionsShrink /\ PushesStay /\ payments' = payments
      BY <1>4 DEF ProcessEnds, RunsShrink, SessionsShrink, PushesStay
    <2> QED BY <2>1, Shrinks
  <1> QED BY <1>1, <1>2, <1>3, <1>4

\* What a handler that can write knows of the others.
LEMMA NoOtherFlushed ==
    ASSUME NEW h \in Handlers, CanWrite(h), run[h] # None, run[h].at = "read"
    PROVE  \A g \in Handlers : run[g] # None => run[g].at # "flushed"
  BY DEF CanWrite

\* The insert and the flush of a payment nobody knows of.
LEMMA RequestPushStep ==
    ASSUME IInv, TypeOK', NEW h \in Handlers, RequestPush(h)
    PROVE  Rest'
  <1> USE BillingAssumption DEF IInv
  <1>1. run[h] \in Run /\ run[h].at = "read" /\ run[h].job = "yes" /\ run[h].sid \in Sessions
    BY DEF RequestPush, Reading, InState, TypeOK, Run
  <1>2. PICK p \in Payments :
          /\ payments[p] = None
          /\ \A c \in Checkouts : pushes[c] # None => pushes[c].payment # p
          /\ run' = [run EXCEPT ![h].at = "flushed", ![h].payment = p]
    BY DEF RequestPush
  <1>3. /\ run'[h].at = "flushed" /\ run'[h].payment = p /\ run'[h].job = "yes"
        /\ run'[h].sid = run[h].sid /\ run'[h].session = run[h].session
        /\ run'[h].checkout = None /\ run'[h] # None
    <2> DEFINE new == [run[h] EXCEPT !.at = "flushed", !.payment = p]
    <2>1. run' = [run EXCEPT ![h] = new]
      BY <1>1, <1>2 DEF Run
    <2>2. run'[h] = new
      BY <2>1 DEF TypeOK
    <2>3. run[h].checkout = None
      BY <1>1, NoRowAssumption DEF Shape, Texts
    <2>4. /\ new \in Run /\ new.at = "flushed" /\ new.payment = p /\ new.job = run[h].job
          /\ new.sid = run[h].sid /\ new.session = run[h].session
          /\ new.checkout = run[h].checkout
      BY <1>1 DEF Run
    <2> QED BY <1>1, <2>2, <2>3, <2>4, NoRowAssumption
  <1>4. \A g \in Handlers \ {h} : run'[g] = run[g]
    BY <1>2 DEF TypeOK
  <1>5. \A g \in Handlers : run[g] # None => run[g].at # "flushed"
    BY <1>1, NoOtherFlushed DEF RequestPush, Reading
  <1>6. UNCHANGED <<sessions, payments, pushes>>
    BY DEF RequestPush
  <1>7. OneWriter'
    BY <1>4, <1>5 DEF OneWriter
  <1>8. HoldsPayment(run[h])'
    <2>1. \A s \in Sessions : sessions[s] # None => sessions[s].payment_id # p
      BY <1>2 DEF Matched
    <2> QED BY <1>1, <1>2, <1>3, <1>6, <2>1 DEF HoldsPayment
  <1>9. Shape'
    <2>1. \A g \in Handlers \ {h} : HoldsPush(run[g]) => HoldsPush(run[g])'
      BY <1>4, <1>6 DEF HoldsPush
    <2>2. ASSUME NEW g \in Handlers, run'[g] # None
          PROVE  /\ HasSession(run'[g])
                 /\ run'[g].at = "flushed" => HoldsPayment(run[g])'
                 /\ run'[g].at = "read" /\ run'[g].job = "callback" => HoldsPush(run[g])'
                 /\ run'[g].at = "docker" /\ run'[g].job = "callback" =>
                       run'[g].checkout \in Checkouts /\ pushes'[run'[g].checkout] # None
                 /\ run'[g].at = "read" /\ run'[g].job \in Acts
                       => run'[g].client \in Client
                 /\ run'[g].at = "read" /\ run'[g].job = "callback" => run'[g].client \in Client
                 /\ run'[g].at = "read" /\ run'[g].job \in Texts => run'[g].checkout = None
      <3>1. CASE g = h
        <4>1. HasSession(run'[h])
          BY <1>1, <1>3, NoRowAssumption DEF Shape, HasSession
        <4> QED BY <1>3, <1>8, <3>1, <4>1
      <3>2. CASE g # h
        BY <1>4, <1>5, <1>6, <2>1, <2>2, <3>2 DEF Shape
      <3> QED BY <3>1, <3>2
    <2> QED BY <2>2 DEF Shape, HasSession
  <1>10. Matched' /\ OwnPayment' /\ ConfirmedIsPaid'
    BY <1>6 DEF Matched, OwnPayment, ConfirmedIsPaid, Confirmed
  <1>11. WrittenOff'
    BY <1>3, <1>4, <1>6 DEF WrittenOff, Followed
  <1> QED BY <1>7, <1>9, <1>10, <1>11 DEF Rest

\* M-Pesa gives the payment a push.
LEMMA PushAcceptedStep ==
    ASSUME IInv, TypeOK', NEW h \in Handlers, PushAccepted(h)
    PROVE  Rest'
  <1> USE BillingAssumption DEF IInv
  <1> DEFINE p == run[h].payment
  <1>1. run[h] \in Run /\ run[h].at = "flushed" /\ run[h].checkout = None /\ HoldsPayment(run[h])
    BY DEF PushAccepted, TypeOK, Shape
  <1>2. PICK c \in Checkouts :
          /\ pushes[c] = None
          /\ pushes' = [pushes EXCEPT ![c] =
                [payment |-> p, result |-> "waiting", accepted |-> FALSE]]
          /\ run' = [run EXCEPT ![h].checkout = c]
    BY DEF PushAccepted
  <1>3. /\ run'[h] # None /\ run'[h].at = "flushed" /\ run'[h].payment = p /\ run'[h].job = run[h].job
        /\ run'[h].sid = run[h].sid /\ run'[h].session = run[h].session
        /\ run'[h].checkout = c /\ run'[h].client = run[h].client
    BY <1>1, <1>2, NoRowAssumption DEF TypeOK, Run
  <1>4. \A g \in Handlers \ {h} : run'[g] = run[g] /\ (run[g] # None => run[g].at # "flushed")
    BY <1>1, <1>2 DEF TypeOK, OneWriter, PushAccepted
  <1>5. /\ pushes'[c] # None /\ pushes'[c].payment = p /\ pushes'[c].result = "waiting"
        /\ \A d \in Checkouts \ {c} : pushes'[d] = pushes[d]
    <2>1. p \in Payments
      BY <1>1 DEF HoldsPayment
    <2>2. [payment |-> p, result |-> "waiting", accepted |-> FALSE] \in Push
      BY <2>1 DEF Push
    <2> QED BY <1>2, <2>2, NoRowAssumption DEF TypeOK
  <1>6. UNCHANGED <<sessions, payments>>
    BY DEF PushAccepted
  <1>7. \A d \in Checkouts : pushes[d] # None => d # c /\ pushes[d].payment # p
    BY <1>1, <1>2 DEF HoldsPayment
  <1>8. \A s \in Sessions : sessions[s] # None => sessions[s].checkout_request_id # c
    BY <1>2 DEF Matched
  <1>9. OneWriter'
    BY <1>4 DEF OneWriter
  <1>10. HoldsPayment(run[h])'
    BY <1>1, <1>3, <1>5, <1>6, <1>7, <1>8 DEF HoldsPayment
  <1>11. Shape'
    <2>1. ASSUME NEW g \in Handlers, run'[g] # None
          PROVE  /\ HasSession(run'[g])
                 /\ run'[g].at = "flushed" => HoldsPayment(run[g])'
                 /\ run'[g].at = "read" /\ run'[g].job = "callback" => HoldsPush(run[g])'
                 /\ run'[g].at = "docker" /\ run'[g].job = "callback" =>
                       run'[g].checkout \in Checkouts /\ pushes'[run'[g].checkout] # None
                 /\ run'[g].at = "read" /\ run'[g].job \in Acts
                       => run'[g].client \in Client
                 /\ run'[g].at = "read" /\ run'[g].job = "callback" => run'[g].client \in Client
                 /\ run'[g].at = "read" /\ run'[g].job \in Texts => run'[g].checkout = None
      <3>1. CASE g = h
        BY <1>1, <1>3, <1>10, <3>1 DEF Shape, HasSession, PushAccepted
      <3>2. CASE g # h
        <4>1. HoldsPush(run[g]) => HoldsPush(run[g])'
          BY <1>2, <1>4, <1>5, <1>6, <2>1, <3>2 DEF HoldsPush
        <4> QED BY <1>2, <1>4, <1>5, <2>1, <3>2, <4>1 DEF Shape
      <3> QED BY <3>1, <3>2
    <2> QED BY <2>1 DEF Shape, HasSession
  <1>12. Matched'
    BY <1>2, <1>5, <1>6 DEF Matched, TypeOK, PaymentSession
  <1>13. OwnPayment'
    BY <1>5, <1>7 DEF OwnPayment
  <1>14. WrittenOff'
    <2>1. payments[p] = None
      BY <1>1 DEF HoldsPayment
    <2> QED BY <1>3, <1>4, <1>5, <1>6, <2>1 DEF WrittenOff, Followed
  <1>15. ConfirmedIsPaid'
    BY <1>5, <1>6, <1>7 DEF ConfirmedIsPaid, Confirmed
  <1> QED BY <1>9, <1>11, <1>12, <1>13, <1>14, <1>15 DEF Rest

\* The answer comes back: the session points to the push, or both are dropped.
LEMMA PushSentStep ==
    ASSUME IInv, TypeOK', NEW h \in Handlers, PushSent(h)
    PROVE  Rest'
  <1> USE BillingAssumption DEF IInv
  <1> DEFINE p == run[h].payment
             c == run[h].checkout
             s == run[h].sid
  <1>1. /\ run[h] \in Run /\ run[h].at = "flushed" /\ HoldsPayment(run[h])
        /\ c \in Checkouts /\ s \in Sessions /\ p \in Payments
    BY DEF PushSent, TypeOK, Shape, HoldsPayment, Run
  <1>2. /\ run'[h] = None /\ pushes' = pushes
        /\ \A g \in Handlers \ {h} : run'[g] = run[g] /\ (run[g] # None => run[g].at # "flushed")
    BY <1>1 DEF PushSent, Ends, TypeOK, OneWriter
  <1>3. CASE sessions[s] = None
    <2>1. RunsShrink /\ SessionsShrink /\ PushesStay /\ payments' = payments
      BY <1>2, <1>3 DEF PushSent, RunsShrink, SessionsShrink, PushesStay
    <2> QED BY <2>1, Shrinks
  <1>4. CASE sessions[s] # None
    <2>1. /\ sessions'[s] # None
          /\ sessions'[s].checkout_request_id = c /\ sessions'[s].payment_id = p
          /\ \A t \in Sessions \ {s} : sessions'[t] = sessions[t]
      <3>1. [state |-> "awaiting_stk_confirm", checkout_request_id |-> c, payment_id |-> p,
             open |-> TRUE] \in PaymentSession
        BY <1>1 DEF PaymentSession
      <3> QED BY <1>1, <1>4, <3>1, NoRowAssumption DEF PushSent, TypeOK
    <2>2. /\ payments'[p] # None /\ payments'[p].status = "pending"
          /\ \A q \in Payments \ {p} : payments'[q] = payments[q]
      <3>1. [status |-> "pending", period_start |-> day] \in Payment
        BY DEF TypeOK, Payment
      <3> QED BY <1>1, <1>4, <3>1, NoRowAssumption DEF PushSent, TypeOK
    <2>3. /\ payments[p] = None /\ pushes[c] # None /\ pushes[c].payment = p
          /\ \A d \in Checkouts : pushes[d] # None => (pushes[d].payment = p <=> d = c)
      BY <1>1 DEF HoldsPayment, PushSent
    <2>4. OneWriter'
      BY <1>2 DEF OneWriter
    <2>5. Shape'
      <3>1. ASSUME NEW g \in Handlers, run'[g] # None
            PROVE  run'[g] = run[g] /\ run[g] # None /\ run[g].at # "flushed" /\ g # h
        BY <1>2, <3>1
      <3>2. \A g \in Handlers : run'[g] # None /\ HoldsPush(run[g]) => HoldsPush(run[g])'
        BY <1>2, <2>2, <2>3, <3>1 DEF HoldsPush
      <3> QED BY <1>2, <3>1, <3>2 DEF Shape, HasSession
    <2>6. Matched'
      <3>1. ASSUME NEW t \in Sessions, sessions'[t] # None
            PROVE  /\ sessions'[t].checkout_request_id = None <=> sessions'[t].payment_id = None
                   /\ sessions'[t].checkout_request_id # None =>
                        /\ pushes'[sessions'[t].checkout_request_id] # None
                        /\ pushes'[sessions'[t].checkout_request_id].payment
                              = sessions'[t].payment_id
                        /\ payments'[sessions'[t].payment_id] # None
        <4>1. CASE t = s
          BY <1>1, <1>2, <2>1, <2>2, <2>3, <4>1
        <4>2. CASE t # s
          <5>1. sessions'[t] = sessions[t] /\ sessions[t] \in PaymentSession
            BY <2>1, <3>1, <4>2 DEF TypeOK
          <5> QED BY <1>2, <2>2, <3>1, <5>1 DEF Matched, PaymentSession
        <4> QED BY <4>1, <4>2
      <3> QED BY <3>1 DEF Matched
    <2>7. OwnPayment'
      BY <1>2 DEF OwnPayment
    <2>8. WrittenOff'
      <3> SUFFICES ASSUME NEW d \in Checkouts, pushes[d] # None,
                          payments'[pushes[d].payment] # None,
                          payments'[pushes[d].payment].status = "failed", Followed(d)'
                   PROVE  pushes[d].result = "refused"
        BY <1>2 DEF WrittenOff
      <3>1. pushes[d].payment # p /\ d # c
        BY <2>2, <2>3
      <3>2. pushes[d].payment \in Payments
        BY DEF TypeOK, Push
      <3>3. payments[pushes[d].payment] = payments'[pushes[d].payment]
        BY <2>2, <3>1, <3>2
      <3>4. Followed(d)
        BY <1>2, <2>1, <3>1 DEF Followed
      <3> QED BY <3>3, <3>4 DEF WrittenOff
    <2>9. ConfirmedIsPaid'
      BY <1>2, <2>2 DEF ConfirmedIsPaid, Confirmed
    <2> QED BY <2>4, <2>5, <2>6, <2>7, <2>8, <2>9 DEF Rest
  <1> QED BY <1>3, <1>4

\* The push is given up: nothing leads to its payment any more.
LEMMA PushFailedStep ==
    ASSUME IInv, TypeOK', NEW h \in Handlers, PushFailed(h)
    PROVE  Rest'
  <1> USE BillingAssumption DEF IInv
  <1> DEFINE p == run[h].payment
             s == run[h].sid
  <1>1. /\ run[h] \in Run /\ run[h].at = "flushed" /\ HoldsPayment(run[h])
        /\ s \in Sessions /\ p \in Payments
    BY DEF PushFailed, TypeOK, Shape, HoldsPayment
  <1>2. /\ run'[h] = None /\ pushes' = pushes
        /\ \A g \in Handlers \ {h} : run'[g] = run[g] /\ (run[g] # None => run[g].at # "flushed")
    BY <1>1 DEF PushFailed, Ends, TypeOK, OneWriter
  <1>3. \A t \in Sessions : sessions'[t] # None => sessions'[t] = sessions[t]
    BY <1>1 DEF PushFailed, Deleted, TypeOK
  <1>4. /\ payments'[p] # None /\ payments'[p].status = "failed"
        /\ \A q \in Payments \ {p} : payments'[q] = payments[q]
    <2>1. [status |-> "failed", period_start |-> day] \in Payment
      BY DEF TypeOK, Payment
    <2> QED BY <1>1, <2>1, NoRowAssumption DEF PushFailed, TypeOK
  <1>5. /\ payments[p] = None
        /\ \A d \in Checkouts : pushes[d] # None => (pushes[d].payment = p <=> d = run[h].checkout)
        /\ \A t \in Sessions : sessions[t] # None =>
              run[h].checkout = None \/ sessions[t].checkout_request_id # run[h].checkout
    BY <1>1 DEF HoldsPayment
  <1>6. OneWriter'
    BY <1>2 DEF OneWriter
  <1>7. \A g \in Handlers : run'[g] # None => run'[g] = run[g] /\ run[g].at # "flushed" /\ g # h
    BY <1>2
  <1>8. Shape'
    <2>1. \A g \in Handlers : run'[g] # None /\ HoldsPush(run[g]) => HoldsPush(run[g])'
      BY <1>2, <1>4, <1>5, <1>7 DEF HoldsPush
    <2> QED BY <1>2, <1>7, <2>1 DEF Shape, HasSession
  <1>9. Matched'
    <2>1. ASSUME NEW t \in Sessions, sessions'[t] # None
          PROVE  /\ sessions'[t].checkout_request_id = None <=> sessions'[t].payment_id = None
                 /\ sessions'[t].checkout_request_id # None =>
                      /\ pushes'[sessions'[t].checkout_request_id] # None
                      /\ pushes'[sessions'[t].checkout_request_id].payment
                            = sessions'[t].payment_id
                      /\ payments'[sessions'[t].payment_id] # None
      <3>1. sessions'[t] = sessions[t] /\ sessions[t] \in PaymentSession
        BY <1>3, <2>1 DEF TypeOK
      <3> QED BY <1>2, <1>4, <2>1, <3>1 DEF Matched, PaymentSession
    <2> QED BY <2>1 DEF Matched
  <1>10. OwnPayment'
    BY <1>2 DEF OwnPayment
  <1>11. WrittenOff'
    <2> SUFFICES ASSUME NEW d \in Checkouts, pushes[d] # None,
                        payments'[pushes[d].payment] # None,
                        payments'[pushes[d].payment].status = "failed", Followed(d)'
                 PROVE  pushes[d].result = "refused"
      BY <1>2 DEF WrittenOff
    <2>1. Followed(d)
      BY <1>2, <1>3, <1>7 DEF Followed
    <2>2. CASE pushes[d].payment = p
      <3>1. d = run[h].checkout
        BY <1>5, <2>2
      <3>2. \A t \in Sessions : sessions[t] # None => sessions[t].checkout_request_id # d
        BY <1>5, <3>1
      <3>3. PICK g \in Handlers : /\ run[g] # None /\ run[g].at = "read"
                                  /\ run[g].job = "callback" /\ run[g].checkout = d
        BY <2>1, <3>2 DEF Followed
      <3>4. HoldsPush(run[g])
        BY <3>3 DEF Shape
      <3> QED BY <1>5, <2>2, <3>3, <3>4 DEF HoldsPush
    <2>3. CASE pushes[d].payment # p
      <3>1. pushes[d].payment \in Payments
        BY DEF TypeOK, Push
      <3> QED BY <1>4, <2>1, <2>3, <3>1 DEF WrittenOff
    <2> QED BY <2>2, <2>3
  <1>12. ConfirmedIsPaid'
    BY <1>2, <1>4 DEF ConfirmedIsPaid, Confirmed
  <1> QED BY <1>6, <1>8, <1>9, <1>10, <1>11, <1>12 DEF Rest

\* A callback finds its session, or nothing.
LEMMA CallbackStep ==
    ASSUME IInv, TypeOK', NEW h \in Handlers, NEW c \in Checkouts, Callback(h, c)
    PROVE  Rest'
  <1> USE BillingAssumption DEF IInv
  <1>1. pushes[c] # None /\ pushes[c].result # "waiting" /\ UNCHANGED <<sessions, payments>>
    BY DEF Callback
  <1>2. CASE pushes' = [pushes EXCEPT ![c].accepted = TRUE] /\ UNCHANGED run
    <2>1. pushes[c] \in Push
      BY <1>1 DEF TypeOK
    <2>2. pushes'[c] = [pushes[c] EXCEPT !.accepted = TRUE]
      BY <1>2 DEF TypeOK
    <2>3. /\ pushes'[c] # None /\ pushes'[c].payment = pushes[c].payment
          /\ pushes'[c].result = pushes[c].result
      <3>1. /\ [pushes[c] EXCEPT !.accepted = TRUE] \in Push
            /\ [pushes[c] EXCEPT !.accepted = TRUE].payment = pushes[c].payment
            /\ [pushes[c] EXCEPT !.accepted = TRUE].result = pushes[c].result
        BY <2>1 DEF Push
      <3> QED BY <2>2, <3>1, NoRowAssumption
    <2>4. PushesStay
      BY <1>1, <1>2, <2>3 DEF PushesStay, TypeOK
    <2>5. RunsShrink /\ SessionsShrink
      BY <1>1, <1>2 DEF RunsShrink, SessionsShrink
    <2> QED BY <1>1, <2>4, <2>5, Shrinks
  <1>3. ASSUME NEW s \in Sessions, sessions[s] # None, sessions[s].checkout_request_id = c,
               run' = [run EXCEPT ![h] =
                [at |-> "read", job |-> "callback", client |-> client, sid |-> s,
                 session |-> sessions[s], checkout |-> c,
                 payment |-> sessions[s].payment_id]],
               UNCHANGED pushes
        PROVE  Rest'
    <2>1. sessions[s] \in PaymentSession
      BY <1>3 DEF TypeOK
    <2>2. /\ sessions[s].payment_id \in Payments /\ payments[sessions[s].payment_id] # None
          /\ pushes[c].payment = sessions[s].payment_id
      BY <1>3, <2>1 DEF Matched, PaymentSession
    <2>3. /\ run'[h].at = "read" /\ run'[h].job = "callback" /\ run'[h].client = client
          /\ run'[h].sid = s /\ run'[h].session = sessions[s] /\ run'[h].checkout = c
          /\ run'[h].payment = sessions[s].payment_id
      BY <1>3 DEF TypeOK
    <2>4. \A g \in Handlers \ {h} : run'[g] = run[g]
      BY <1>3 DEF TypeOK
    <2>5. OneWriter'
      BY <2>3, <2>4 DEF OneWriter
    <2>6. HoldsPush(run[h])'
      BY <1>1, <1>3, <2>2, <2>3 DEF HoldsPush
    <2>7. Shape'
      <3>1. ASSUME NEW g \in Handlers, run'[g] # None
            PROVE  /\ HasSession(run'[g])
                   /\ run'[g].at = "flushed" => HoldsPayment(run[g])'
                   /\ run'[g].at = "read" /\ run'[g].job = "callback" => HoldsPush(run[g])'
                   /\ run'[g].at = "docker" /\ run'[g].job = "callback" =>
                         run'[g].checkout \in Checkouts /\ pushes'[run'[g].checkout] # None
                   /\ run'[g].at = "read" /\ run'[g].job \in Acts
                         => run'[g].client \in Client
                   /\ run'[g].at = "read" /\ run'[g].job = "callback" => run'[g].client \in Client
                   /\ run'[g].at = "read" /\ run'[g].job \in Texts => run'[g].checkout = None
        <4>1. CASE g = h
          <5>1. client \in Client
            BY DEF TypeOK
          <5>2. "callback" \notin Texts /\ "callback" \notin Acts
            BY DEF Texts, Acts
          <5> QED BY <2>1, <2>3, <2>6, <4>1, <5>1, <5>2 DEF HasSession
        <4>2. CASE g # h
          <5>1. HoldsPush(run[g]) => HoldsPush(run[g])'
            BY <1>1, <1>3, <2>4, <4>2 DEF HoldsPush
          <5>2. HoldsPayment(run[g]) => HoldsPayment(run[g])'
            BY <1>1, <1>3, <2>4, <4>2 DEF HoldsPayment
          <5> QED BY <1>3, <2>4, <3>1, <4>2, <5>1, <5>2 DEF Shape
        <4> QED BY <4>1, <4>2
      <3> QED BY <3>1 DEF Shape, HasSession
    <2>8. Matched' /\ OwnPayment' /\ ConfirmedIsPaid'
      BY <1>1, <1>3 DEF Matched, OwnPayment, ConfirmedIsPaid, Confirmed
    <2>9. \A d \in Checkouts : Followed(d)' => Followed(d)
      BY <1>1, <1>3, <2>3, <2>4 DEF Followed
    <2>10. WrittenOff'
      BY <1>1, <1>3, <2>9 DEF WrittenOff
    <2> QED BY <2>5, <2>7, <2>8, <2>10 DEF Rest
  <1> QED BY <1>2, <1>3 DEF Callback

\* What Confirm and Refuse do with a payment, a session and a handler.
Settles(h, result) ==
    /\ run[h] # None /\ run[h].at = "read" /\ run[h].job = "callback" /\ CanWrite(h)
    /\ payments'[run[h].payment] # None /\ payments'[run[h].payment].status = result
    /\ \A q \in Payments \ {run[h].payment} : payments'[q] = payments[q]
    /\ \A t \in Sessions : sessions'[t] # None => sessions'[t] = sessions[t]
    /\ \A g \in Handlers \ {h} : run'[g] = run[g]
    /\ run'[h] # None =>
          /\ run'[h].at = "docker" /\ run'[h].checkout = run[h].checkout
          /\ HasSession(run'[h])

\* Of a settled payment the invariant asks that the result is what its push says.
LEMMA SettledStep ==
    ASSUME IInv, TypeOK', NEW h \in Handlers, NEW result \in {"confirmed", "failed"},
           Settles(h, result), PushesStay,
           pushes[run[h].checkout].result = IF result = "confirmed" THEN "paid" ELSE "refused"
    PROVE  Rest'
  <1> USE BillingAssumption DEF IInv
  <1> DEFINE p == run[h].payment
             c == run[h].checkout
  <1>1. HoldsPush(run[h])
    BY DEF Settles, Shape
  <1>2. /\ c \in Checkouts /\ p \in Payments /\ pushes[c] # None /\ pushes[c].payment = p
        /\ \A d \in Checkouts : pushes[d] # None => (pushes[d].payment = p <=> d = c)
    BY <1>1 DEF HoldsPush, OwnPayment
  <1>3. \A g \in Handlers : run[g] # None => run[g].at # "flushed"
    BY NoOtherFlushed DEF Settles
  <1>4. \A g \in Handlers : run'[g] # None =>
          \/ run'[g] = run[g] /\ g # h
          \/ /\ g = h /\ run'[g].at = "docker" /\ run'[g].checkout = c
             /\ HasSession(run'[g])
    BY DEF Settles
  <1>5. OneWriter'
    BY <1>3, <1>4 DEF OneWriter
  <1>6. Shape'
    <2>1. ASSUME NEW g \in Handlers, run'[g] # None
          PROVE  /\ HasSession(run'[g])
                 /\ run'[g].at = "flushed" => HoldsPayment(run[g])'
                 /\ run'[g].at = "read" /\ run'[g].job = "callback" => HoldsPush(run[g])'
                 /\ run'[g].at = "docker" /\ run'[g].job = "callback" =>
                       run'[g].checkout \in Checkouts /\ pushes'[run'[g].checkout] # None
                 /\ run'[g].at = "read" /\ run'[g].job \in Acts
                       => run'[g].client \in Client
                 /\ run'[g].at = "read" /\ run'[g].job = "callback" => run'[g].client \in Client
                 /\ run'[g].at = "read" /\ run'[g].job \in Texts => run'[g].checkout = None
      <3>1. CASE g = h
        BY <1>2, <1>4, <2>1, <3>1 DEF PushesStay
      <3>2. CASE g # h
        <4>1. run'[g] = run[g] /\ run[g].at # "flushed" /\ run[g] # None
          BY <1>3, <1>4, <2>1, <3>2
        <4>2. HoldsPush(run[g]) => HoldsPush(run[g])'
          <5> SUFFICES ASSUME HoldsPush(run[g]) PROVE HoldsPush(run[g])'
            OBVIOUS
          <5>1. payments'[run[g].payment] # None
            BY DEF HoldsPush, Settles
          <5> QED BY <4>1, <5>1 DEF HoldsPush, PushesStay
        <4> QED BY <4>1, <4>2, <2>1 DEF Shape, PushesStay
      <3> QED BY <3>1, <3>2
    <2> QED BY <2>1 DEF Shape, HasSession
  <1>7. Matched'
    <2>1. ASSUME NEW t \in Sessions, sessions'[t] # None
          PROVE  /\ sessions'[t].checkout_request_id = None <=> sessions'[t].payment_id = None
                 /\ sessions'[t].checkout_request_id # None =>
                      /\ pushes'[sessions'[t].checkout_request_id] # None
                      /\ pushes'[sessions'[t].checkout_request_id].payment
                            = sessions'[t].payment_id
                      /\ payments'[sessions'[t].payment_id] # None
      <3>1. sessions'[t] = sessions[t] /\ sessions[t] \in PaymentSession
        BY <2>1 DEF TypeOK, Settles
      <3>2. \A q \in Payments : payments[q] # None => payments'[q] # None
        BY DEF Settles
      <3> QED BY <2>1, <3>1, <3>2 DEF Matched, PaymentSession, PushesStay
    <2> QED BY <2>1 DEF Matched
  <1>8. OwnPayment'
    BY DEF OwnPayment, PushesStay
  <1>9. \A d \in Checkouts : Followed(d)' => Followed(d)
    BY <1>4 DEF Followed, Settles
  <1>10. WrittenOff'
    <2> SUFFICES ASSUME NEW d \in Checkouts, pushes'[d] # None,
                        payments'[pushes'[d].payment] # None,
                        payments'[pushes'[d].payment].status = "failed", Followed(d)'
                 PROVE  pushes'[d].result = "refused"
      BY DEF WrittenOff
    <2>1. pushes[d] # None /\ pushes'[d].payment = pushes[d].payment /\ Followed(d)
      BY <1>9 DEF PushesStay
    <2>2. CASE d = c
      BY <1>2, <2>1, <2>2 DEF Settles, PushesStay
    <2>3. CASE d # c
      <3>1. pushes[d].payment \in Payments \ {p}
        BY <1>2, <2>1, <2>3 DEF TypeOK, Push
      <3>2. payments'[pushes[d].payment] = payments[pushes[d].payment]
        BY <3>1 DEF Settles
      <3> QED BY <2>1, <3>2 DEF WrittenOff, PushesStay
    <2> QED BY <2>2, <2>3
  <1>11. ConfirmedIsPaid'
    <2> SUFFICES ASSUME NEW q \in Payments, Confirmed(q)'
                 PROVE  \E d \in Checkouts : pushes'[d] # None /\ pushes'[d].payment = q
                                              /\ pushes'[d].result = "paid"
      BY DEF ConfirmedIsPaid
    <2>1. CASE q = p
      <3>1. result = "confirmed"
        BY <2>1 DEF Confirmed, Settles
      <3> QED BY <1>2, <2>1, <3>1 DEF PushesStay
    <2>2. CASE q # p
      <3>1. Confirmed(q)
        BY <2>2 DEF Confirmed, Settles
      <3> QED BY <3>1 DEF ConfirmedIsPaid, PushesStay
    <2> QED BY <2>1, <2>2
  <1> QED BY <1>5, <1>6, <1>7, <1>8, <1>10, <1>11 DEF Rest

\* A paid push confirms its payment.
LEMMA ConfirmStep ==
    ASSUME IInv, TypeOK', NEW h \in Handlers, Confirm(h)
    PROVE  Rest' /\ Settles(h, "confirmed")
  <1> USE BillingAssumption DEF IInv
  <1>1. /\ run[h] \in Run /\ run[h].at = "read" /\ run[h].job = "callback"
        /\ HoldsPush(run[h]) /\ HasSession(run[h])
    BY DEF Confirm, Reading, TypeOK, Shape
  <1>2. payments[run[h].payment] \in Payment /\ run[h].payment \in Payments
    BY <1>1 DEF HoldsPush, TypeOK
  <1>3. /\ payments'[run[h].payment] # None /\ payments'[run[h].payment].status = "confirmed"
        /\ \A q \in Payments \ {run[h].payment} : payments'[q] = payments[q]
    <2>1. payments' = [payments EXCEPT ![run[h].payment] =
             [payments[run[h].payment] EXCEPT !.status = "confirmed"]]
      BY <1>2 DEF Confirm, TypeOK, Payment
    <2>2. /\ [payments[run[h].payment] EXCEPT !.status = "confirmed"] \in Payment
          /\ [payments[run[h].payment] EXCEPT !.status = "confirmed"].status = "confirmed"
      BY <1>2 DEF Payment
    <2> QED BY <1>2, <2>1, <2>2, NoRowAssumption DEF TypeOK
  <1>4. /\ run'[h].at = "docker" /\ run'[h].checkout = run[h].checkout
        /\ run'[h].sid = run[h].sid /\ run'[h].session = run[h].session
        /\ \A g \in Handlers \ {h} : run'[g] = run[g]
    BY <1>1 DEF Confirm, TypeOK, Run
  <1>5. \A t \in Sessions : sessions'[t] # None => sessions'[t] = sessions[t]
    BY DEF Confirm, Deleted, TypeOK
  <1>6. HasSession(run'[h])
    BY <1>1, <1>4 DEF HasSession
  <1>7. Settles(h, "confirmed")
    BY <1>1, <1>3, <1>4, <1>5, <1>6 DEF Settles, Confirm, Reading
  <1>8. PushesStay
    BY DEF Confirm, PushesStay
  <1>9. pushes[run[h].checkout].result = "paid"
    BY DEF Confirm
  <1> QED BY <1>7, <1>8, <1>9, SettledStep

\* A refused one writes it off.
LEMMA RefuseStep ==
    ASSUME IInv, TypeOK', NEW h \in Handlers, Refuse(h)
    PROVE  Rest' /\ Settles(h, "failed")
  <1> USE BillingAssumption DEF IInv
  <1>1. /\ run[h] \in Run /\ run[h].at = "read" /\ run[h].job = "callback"
        /\ HoldsPush(run[h])
    BY DEF Refuse, Reading, TypeOK, Shape
  <1>2. /\ payments[run[h].payment] \in Payment /\ run[h].payment \in Payments
        /\ pushes[run[h].checkout] \in Push /\ run[h].checkout \in Checkouts
    BY <1>1 DEF HoldsPush, TypeOK
  <1>3. /\ payments'[run[h].payment] # None /\ payments'[run[h].payment].status = "failed"
        /\ \A q \in Payments \ {run[h].payment} : payments'[q] = payments[q]
    <2>1. payments' = [payments EXCEPT ![run[h].payment] =
             [payments[run[h].payment] EXCEPT !.status = "failed"]]
      BY <1>2 DEF Refuse, TypeOK, Payment
    <2>2. /\ [payments[run[h].payment] EXCEPT !.status = "failed"] \in Payment
          /\ [payments[run[h].payment] EXCEPT !.status = "failed"].status = "failed"
      BY <1>2 DEF Payment
    <2> QED BY <1>2, <2>1, <2>2, NoRowAssumption DEF TypeOK
  <1>4. run'[h] = None /\ \A g \in Handlers \ {h} : run'[g] = run[g]
    BY DEF Refuse, Ends, TypeOK
  <1>5. \A t \in Sessions : sessions'[t] # None => sessions'[t] = sessions[t]
    BY DEF Refuse, Deleted, TypeOK
  <1>6. Settles(h, "failed")
    BY <1>1, <1>3, <1>4, <1>5 DEF Settles, Refuse, Reading
  <1>7. PushesStay
    <2>1. pushes' = [pushes EXCEPT ![run[h].checkout] =
             [pushes[run[h].checkout] EXCEPT !.accepted = TRUE]]
      BY <1>2 DEF Refuse, TypeOK, Push
    <2>2. LET new == [pushes[run[h].checkout] EXCEPT !.accepted = TRUE] IN
          /\ new \in Push /\ new.payment = pushes[run[h].checkout].payment
          /\ new.result = pushes[run[h].checkout].result
      BY <1>2 DEF Push
    <2> QED BY <1>2, <2>1, <2>2, NoRowAssumption DEF PushesStay, TypeOK
  <1>8. pushes[run[h].checkout].result = "refused"
    BY DEF Refuse
  <1> QED BY <1>6, <1>7, <1>8, SettledStep

-----------------------------------------------------------------------------
(* The theorems                                                            *)

\* One request keeps the invariant.
LEMMA HandlerKeeps ==
    ASSUME IInv, NEW h \in Handlers, HandlerStep(h)
    PROVE  IInv'
  <1>1. TypeOK'
    BY HandlerTypes
  <1> SUFFICES Rest'
    BY <1>1 DEF IInv, Rest
  <1>2. ASSUME NEW c \in Checkouts, Callback(h, c) PROVE Rest'
    BY <1>1, <1>2, CallbackStep
  <1>3. CASE RequestPush(h)
    BY <1>1, <1>3, RequestPushStep
  <1>4. CASE PushAccepted(h)
    BY <1>1, <1>4, PushAcceptedStep
  <1>5. CASE PushSent(h)
    BY <1>1, <1>5, PushSentStep
  <1>6. CASE PushFailed(h)
    BY <1>1, <1>6, PushFailedStep
  <1>7. CASE Confirm(h)
    BY <1>1, <1>7, ConfirmStep
  <1>8. CASE Refuse(h)
    BY <1>1, <1>8, RefuseStep
  <1>9. CASE \/ \E text \in Texts : Receive(h, text)
             \/ StartConversation(h) \/ NoSession(h) \/ GivePhone(h) \/ DropSession(h)
             \/ Unexpected(h) \/ (\E act \in Acts : Administer(h, act))
             \/ Close(h) \/ Reactivate(h) \/ EditRenewal(h) \/ Docker(h) \/ Busy(h)
    BY <1>1, <1>9, PlainSteps
  <1> QED BY <1>2, <1>3, <1>4, <1>5, <1>6, <1>7, <1>8, <1>9 DEF HandlerStep

\* Every step keeps it.
LEMMA NextKeeps ==
    ASSUME IInv, [Next]_vars
    PROVE  IInv'
  <1>1. ASSUME NEW h \in Handlers, HandlerStep(h) PROVE IInv'
    BY <1>1, HandlerKeeps
  <1>2. CASE \/ \E c \in Checkouts : CustomerAnswers(c)
             \/ LoadClients \/ CheckClient \/ CheckFails
             \/ \E s \in Sessions : Expire(s)
             \/ NextDay \/ ProcessEnds
    BY <1>2, OtherTypes, OtherSteps DEF IInv, Rest
  <1>3. CASE UNCHANGED vars
    BY <1>3 DEF vars, IInv, TypeOK, OneWriter, Shape, HasSession, HoldsPayment, HoldsPush,
                Matched, OwnPayment, WrittenOff, Followed, ConfirmedIsPaid, Confirmed
  <1> QED BY <1>1, <1>2, <1>3 DEF Next

\* The invariant holds at the start.
LEMMA InitHolds == Init => IInv
  <1> SUFFICES ASSUME Init PROVE IInv
    OBVIOUS
  <1> USE BillingAssumption, NoRowAssumption DEF Init
  <1>0. /\ client \in Client /\ day \in Nat /\ texts \in Nat /\ acts \in Nat
        /\ checked \in BOOLEAN /\ scan = None
        /\ run \in [Handlers -> Run \cup {None}] /\ \A h \in Handlers : run[h] = None
    BY RestoredType
  <1>1. CASE NothingBefore
    <2>1. TypeOK
      BY <1>0, <1>1 DEF TypeOK, NothingBefore
    <2>2. OneWriter /\ Shape /\ Matched /\ OwnPayment /\ WrittenOff /\ ConfirmedIsPaid
      BY <1>0, <1>1 DEF NothingBefore, OneWriter, Shape, Matched, OwnPayment, WrittenOff,
                        ConfirmedIsPaid, Confirmed
    <2> QED BY <2>1, <2>2 DEF IInv
  <1>2. CASE AskedBefore
    <2>1. sessions \in [Sessions -> PaymentSession \cup {None}]
      BY <1>2 DEF AskedBefore, PaymentSession
    <2>2. TypeOK
      BY <1>0, <1>2, <2>1 DEF TypeOK, AskedBefore
    <2>3. \A s \in Sessions : sessions[s] # None =>
             sessions[s].checkout_request_id = None /\ sessions[s].payment_id = None
      BY <1>2 DEF AskedBefore
    <2>4. OneWriter /\ Shape /\ Matched /\ OwnPayment /\ WrittenOff /\ ConfirmedIsPaid
      BY <1>0, <1>2, <2>3 DEF AskedBefore, OneWriter, Shape, Matched, OwnPayment, WrittenOff,
                              ConfirmedIsPaid, Confirmed
    <2> QED BY <2>2, <2>4 DEF IInv
  <1>3. CASE PushBefore
    <2>1. PICK d \in Before, s \in Sessions, p \in Payments, c \in Checkouts :
             /\ sessions = [t \in Sessions |-> IF t # s THEN None ELSE
                    [state |-> "awaiting_stk_confirm", checkout_request_id |-> c,
                     payment_id |-> p, open |-> FALSE]]
             /\ payments = [q \in Payments |-> IF q # p THEN None ELSE
                    [status |-> "pending", period_start |-> d]]
             /\ pushes = [b \in Checkouts |-> IF b # c THEN None ELSE
                    [payment |-> p, result |-> "waiting", accepted |-> FALSE]]
      BY <1>3 DEF PushBefore
    <2>2. sessions \in [Sessions -> PaymentSession \cup {None}]
      BY <2>1 DEF PaymentSession
    <2>3. payments \in [Payments -> Payment \cup {None}]
      BY <2>1 DEF Payment
    <2>4. pushes \in [Checkouts -> Push \cup {None}]
      BY <2>1 DEF Push
    <2>5. TypeOK
      BY <1>0, <2>2, <2>3, <2>4 DEF TypeOK
    <2>6. /\ \A t \in Sessions : sessions[t] # None =>
                sessions[t].checkout_request_id = c /\ sessions[t].payment_id = p
          /\ \A q \in Payments : payments[q] # None => q = p /\ payments[q].status = "pending"
          /\ \A b \in Checkouts : pushes[b] # None => b = c
          /\ pushes[c].payment = p /\ p # None /\ c # None
      BY <2>1
    <2>7. pushes[c] # None /\ payments[p] # None
      <3>1. /\ pushes[c] = [payment |-> p, result |-> "waiting", accepted |-> FALSE]
            /\ payments[p] = [status |-> "pending", period_start |-> d]
        BY <2>1
      <3>2. pushes[c] \in Push /\ payments[p] \in Payment
        BY <3>1 DEF Push, Payment
      <3> QED BY <3>2
    <2>8. OneWriter /\ Shape
      BY <1>0 DEF OneWriter, Shape
    <2>9. Matched
      BY <2>6, <2>7 DEF Matched
    <2>10. OwnPayment
      BY <2>6 DEF OwnPayment
    <2>11. WrittenOff /\ ConfirmedIsPaid
      BY <2>6 DEF WrittenOff, ConfirmedIsPaid, Confirmed
    <2> QED BY <2>5, <2>8, <2>9, <2>10, <2>11 DEF IInv
  <1> QED BY <1>1, <1>2, <1>3

\* In every state the service reaches, rows, pushes and handlers point to each
\* other as IInv says, whatever conversations, callbacks and restarts overlap.
THEOREM BillingInvariant == Spec => []IInv
  <1> QED BY InitHolds, NextKeeps, PTL DEF Spec

\* Every variable has its type: the daily check and the column-wise commits of
\* stale rows always leave a client of one of the four statuses.
THEOREM BillingTypes == Spec => []TypeOK
  <1>1. IInv => TypeOK
    BY DEF IInv
  <1> QED BY <1>1, BillingInvariant, PTL

\* mpesa_callback confirms a payment only when the customer paid the push that
\* was requested for it.
THEOREM BillingConfirmsPaid == Spec => []ConfirmedIsPaid
  <1>1. IInv => ConfirmedIsPaid
    BY DEF IInv
  <1> QED BY <1>1, BillingInvariant, PTL

\* A step of a handler leaves a settled payment as it is.
LEMMA HandlerSettlesOnce ==
    ASSUME IInv, IInv', NEW h \in Handlers, HandlerStep(h)
    PROVE  ResultFinalStep
  <1> USE BillingAssumption DEF IInv
  <1> SUFFICES ASSUME NEW p \in Payments, payments[p] # None, payments[p].status # "pending"
               PROVE  payments'[p] = payments[p]
    BY DEF ResultFinalStep
  <1>1. payments[p] \in Payment /\ payments[p].status \in {"confirmed", "failed"}
    BY DEF TypeOK, Payment
  <1>2. CASE PushSent(h) \/ PushFailed(h)
    <2>1. HoldsPayment(run[h])
      BY <1>2 DEF PushSent, PushFailed, Shape
    <2>2. p # run[h].payment
      BY <2>1 DEF HoldsPayment
    <2> QED BY <1>2, <2>2 DEF PushSent, PushFailed, TypeOK
  <1>3. CASE Confirm(h)
    <2>1. HoldsPush(run[h])
      BY <1>3 DEF Confirm, Reading, Shape
    <2>2. CASE p = run[h].payment
      <3>1. Followed(run[h].checkout)
        BY <1>3, <2>1 DEF Confirm, Reading, Followed, HoldsPush
      <3>2. payments[p].status # "failed"
        BY <1>3, <2>1, <2>2, <3>1 DEF WrittenOff, HoldsPush, Confirm
      <3>3. payments[p].status = "confirmed"
        BY <1>1, <3>2
      <3>4. payments'[p] = [payments[p] EXCEPT !.status = "confirmed"]
        BY <1>3, <2>2 DEF Confirm, TypeOK
      <3> QED BY <1>1, <3>3, <3>4 DEF Payment
    <2>3. CASE p # run[h].payment
      BY <1>3, <2>3, ConfirmStep DEF Settles
    <2> QED BY <2>2, <2>3
  <1>4. CASE Refuse(h)
    <2>1. HoldsPush(run[h])
      BY <1>4 DEF Refuse, Reading, Shape
    <2>2. CASE p = run[h].payment
      <3>1. payments[p].status # "confirmed"
        <4> SUFFICES ASSUME Confirmed(p) PROVE FALSE
          BY DEF Confirmed
        <4>1. PICK c \in Checkouts : /\ pushes[c] # None /\ pushes[c].payment = p
                                     /\ pushes[c].result = "paid"
          BY DEF ConfirmedIsPaid
        <4>2. c = run[h].checkout
          BY <2>1, <2>2, <4>1 DEF OwnPayment, HoldsPush
        <4> QED BY <1>4, <4>1, <4>2 DEF Refuse
      <3>2. payments[p].status = "failed"
        BY <1>1, <3>1
      <3>3. payments'[p] = [payments[p] EXCEPT !.status = "failed"]
        BY <1>4, <2>2 DEF Refuse, TypeOK
      <3> QED BY <1>1, <3>2, <3>3 DEF Payment
    <2>3. CASE p # run[h].payment
      BY <1>4, <2>3, RefuseStep DEF Settles
    <2> QED BY <2>2, <2>3
  <1>5. CASE ~ (PushSent(h) \/ PushFailed(h) \/ Confirm(h) \/ Refuse(h))
    BY <1>5 DEF HandlerStep, Receive, StartConversation, NoSession, GivePhone, DropSession,
                Unexpected, RequestPush, PushAccepted, Callback, Administer, Close, Reactivate,
                EditRenewal, Docker, Busy
  <1> QED BY <1>2, <1>3, <1>4, <1>5

\* The outcome of a payment is final.
THEOREM BillingResultFinal == Spec => ResultFinal
  <1>1. IInv /\ IInv' /\ [Next]_vars => [ResultFinalStep]_vars
    <2> SUFFICES ASSUME IInv, IInv', Next PROVE ResultFinalStep
      BY DEF ResultFinalStep
    <2>1. ASSUME NEW h \in Handlers, HandlerStep(h) PROVE ResultFinalStep
      BY <2>1, HandlerSettlesOnce
    <2>2. CASE ~ \E h \in Handlers : HandlerStep(h)
      BY <2>2 DEF Next, ResultFinalStep, CustomerAnswers, LoadClients, CheckClient, CheckFails,
                  Expire, NextDay, ProcessEnds
    <2> QED BY <2>1, <2>2
  <1> QED BY <1>1, BillingInvariant, PTL DEF Spec, ResultFinal

\* A commit moves renewal_date to what the handler made of it, if it changed it.
LEMMA FlushRenewal ==
    ASSUME NEW row \in Client, NEW seen \in Client, NEW left \in Client
    PROVE  Flush(row, seen, left).renewal_date =
              IF left.renewal_date = seen.renewal_date THEN row.renewal_date
              ELSE left.renewal_date
  <1>1. "renewal_date" \in DOMAIN row
    BY DEF Client
  <1> QED BY <1>1 DEF Flush

\* The daily check leaves renewal_date alone.
LEMMA CheckedRenewal ==
    ASSUME NEW c \in Client, NEW zoned \in BOOLEAN
    PROVE  Checked(c, zoned).renewal_date = c.renewal_date
  <1>1. CheckActive(c).renewal_date = c.renewal_date
    BY DEF CheckActive, Client
  <1>2. CheckGrace(c, zoned).renewal_date = c.renewal_date
    BY DEF CheckGrace, Client
  <1>3. CheckSuspended(c, zoned).renewal_date = c.renewal_date
    BY DEF CheckSuspended, Client
  <1> QED BY <1>1, <1>2, <1>3 DEF Checked

\* renewal_date moves only in the commit of a callback, to the end of the period of the
\* payment that it confirms and that was paid, or where the administrator puts it.
THEOREM BillingRenewalMoves == Spec => RenewalMoves
  <1>1. IInv /\ IInv' /\ [Next]_vars => [RenewalMovesStep]_vars
    <2> SUFFICES ASSUME IInv, IInv', Next, client'.renewal_date # client.renewal_date
                 PROVE  RenewalMovesStep
      BY DEF RenewalMovesStep, vars
    <2> USE BillingAssumption DEF IInv
    <2>1. client \in Client
      BY DEF TypeOK
    <2>2. ASSUME NEW h \in Handlers, Confirm(h)
          PROVE  RenewalMovesStep
      <3> DEFINE p == run[h].payment
                 paid == Restored(payments[p].period_start + Period)
      <3>1. HoldsPush(run[h]) /\ run[h].client \in Client /\ p \in Payments
        BY <2>2 DEF Confirm, Reading, Shape, HoldsPush
      <3>2. payments[p] \in Payment
        BY <3>1 DEF HoldsPush, TypeOK
      <3>3. paid \in Client /\ paid.renewal_date = payments[p].period_start + Period
        BY <3>2, RestoredType DEF Payment, Restored
      <3>4. client' = Flush(client, run[h].client, paid)
        BY <2>2 DEF Confirm
      <3>5. client'.renewal_date = payments[p].period_start + Period
        <4> HIDE DEF paid
        <4> QED BY <2>1, <3>1, <3>3, <3>4, FlushRenewal
      <3>6. payments'[p] = [payments[p] EXCEPT !.status = "confirmed"]
        BY <2>2, <3>1 DEF Confirm, TypeOK
      <3>7. payments'[p].period_start = payments[p].period_start /\ payments'[p].status = "confirmed"
        BY <3>2, <3>6 DEF Payment
      <3>8. payments'[p] # None
        BY <2>2, ConfirmStep DEF Settles
      <3>9. /\ Reading(h, {"callback"}) /\ pushes[run[h].checkout].result = "paid"
            /\ pushes[run[h].checkout].payment = p
        BY <2>2, <3>1 DEF Confirm, HoldsPush
      <3>10. /\ payments'[p] # None /\ payments'[p].status = "confirmed"
             /\ client'.renewal_date = payments'[p].period_start + Period
        BY <3>5, <3>7, <3>8
      <3> HIDE DEF p
      <3>11. \A q : q = p => Confirmed(q)'
        BY <3>10 DEF Confirmed
      <3> QED BY <3>1, <3>9, <3>10, <3>11 DEF RenewalMovesStep, p
    <2>3. ASSUME NEW h \in Handlers, Close(h) PROVE FALSE
      <3> DEFINE left == [run[h].client EXCEPT !.status = "closed"]
      <3>1. run[h].client \in Client
        BY <2>3 DEF Close, Reading, Shape, Acts
      <3>2. left \in Client /\ left.renewal_date = run[h].client.renewal_date
        BY <3>1 DEF Client, Statuses
      <3>3. client' = Flush(client, run[h].client, left)
        BY <2>3 DEF Close
      <3> HIDE DEF left
      <3> QED BY <2>1, <3>1, <3>2, <3>3, FlushRenewal
    <2>4. ASSUME NEW h \in Handlers, Reactivate(h) PROVE FALSE
      <3> DEFINE left == Restored(run[h].client.renewal_date)
      <3>1. run[h].client \in Client
        BY <2>4 DEF Reactivate, Reading, Shape, Acts
      <3>2. left \in Client /\ left.renewal_date = run[h].client.renewal_date
        BY <3>1, RestoredType DEF Client, Restored
      <3>3. client' = Flush(client, run[h].client, left)
        BY <2>4 DEF Reactivate
      <3> HIDE DEF left
      <3> QED BY <2>1, <3>1, <3>2, <3>3, FlushRenewal
    <2>5. ASSUME NEW h \in Handlers, EditRenewal(h)
          PROVE  Reading(h, {"edit"}) /\ run'[h] = None
      BY <2>5 DEF EditRenewal, Ends, TypeOK
    <2>6. ASSUME CheckClient PROVE FALSE
      <3>1. PICK zoned \in ZoneKept : client' = Flush(client, scan, Checked(scan, zoned))
        BY <2>6 DEF CheckClient
      <3>2. scan \in Client /\ zoned \in BOOLEAN
        BY <2>6 DEF CheckClient, TypeOK
      <3>3. Checked(scan, zoned) \in Client /\ Checked(scan, zoned).renewal_date = scan.renewal_date
        BY <3>2, CheckedType, CheckedRenewal DEF TypeOK
      <3> QED BY <2>1, <3>1, <3>2, <3>3, FlushRenewal
    <2>7. CASE /\ ~ CheckClient
               /\ \A h \in Handlers : ~ (Confirm(h) \/ Close(h) \/ Reactivate(h) \/ EditRenewal(h))
      <3>1. client' = client
        BY <2>7 DEF Next, HandlerStep, Receive, StartConversation, NoSession, GivePhone,
                    DropSession, Unexpected, RequestPush, PushAccepted, PushSent, PushFailed,
                    Callback, Refuse, Administer, Docker, Busy, CustomerAnswers, LoadClients,
                    CheckFails, Expire, NextDay, ProcessEnds
      <3> QED BY <3>1
    <2> QED BY <2>2, <2>3, <2>4, <2>5, <2>6, <2>7 DEF RenewalMovesStep
  <1> QED BY <1>1, BillingInvariant, PTL DEF Spec, RenewalMoves
=============================================================================
