---------------------------- MODULE SendingProofs ----------------------------
(* What TLAPS proves of MessageSending: types; rows and answers are true of *)
(* what WhatsApp has carried out; a cancel stops a batch, and a batch's     *)
(* counters add up; for any engine types, operations, requests, batches and *)
(* bounds.                                                                  *)
EXTENDS MessageSending, Integers, TLAPS

IsRequest(q) == q = [job |-> q.job, at |-> q.at, of |-> q.of, answer |-> q.answer]

\* A row of a batch, or a copy of it, has a status.
HasStatus(c) == c = [x \in DOMAIN c |-> c[x]] /\ "status" \in DOMAIN c

\* A request q, the row m of its message, whether WhatsApp has carried it out (c), and the engine
\* type (k): the row
\* is there before the engine is called, SENT is only written after the engine has answered,
\* and only requests that came to their end are answered as done.
Good(q, m, c, k) ==
    /\ IsRequest(q)
    /\ q.at \in {"unasked", "hooks", "asked", "free", "taken", "reading"} => m = "none" /\ ~c
    /\ q.at = "unasked" => q.answer = "none"
    /\ q.at \in {"free", "taken"} => q.job = "bulk"
    /\ q.at = "reading" => q.job = "cancel" /\ HasStatus(q.of)
    /\ q.at = "recording" => ~c /\ q.job \in Sends
    /\ q.at \in {"finding", "sending", "marking", "failing"} => m # "sent"
    /\ q.at \in {"finding", "sending", "marking", "failing"} /\ q.job \in Sends => m # "none"
    /\ q.at = "marking" => c /\ q.job \in Sends
    /\ q.job \in Sends /\ c => m # "none"
    /\ m = "sent" => c
    /\ q.at = "telling" => q.answer # "none" /\ q.job \in Sends
    /\ q.answer = "ok" => /\ q.at \in {"telling", "answered"}
                          /\ q.job \in Operations \ Queries => c \/ (k = "wwjs" /\ q.job \in Ignored)
                          /\ q.job \in Sends => m = "sent"

IInv ==
    /\ request = [r \in 1..Requests |-> request[r]]
    /\ message = [r \in 1..Requests |-> message[r]]
    /\ \A r \in 1..Requests : Good(request[r], message[r], r \in carried, kind)

\* The batch: a run works on a row that has been made, with a copy that is not completed before
\* its last save, and once a cancel has come while it was sending the flag stays down.
BInv ==
    /\ HasStatus(batch) /\ HasStatus(run.copy)
    /\ run = [at |-> run.at, of |-> run.of, copy |-> run.copy]
    /\ run.at # "none" => batch.status # "none" /\ run.copy.status # "none"
    /\ run.at \notin {"none", "leaving"} => run.copy.status # "completed"
    /\ stopped => batch.status # "none" /\ run.at # "finding" /\ flag # "go"

-----------------------------------------------------------------------------
(* The operations.                                                          *)

LEMMA SendsAreNoQueries == Sends \subseteq Operations /\ Sends \cap Queries = {}
    BY DEF Sends, WithMedia, Operations, Queries

LEMMA SwallowedAreQueries == Swallows \subseteq Queries /\ Swallows \cap Sends = {}
    BY DEF Swallows, Queries, Sends, WithMedia

LEMMA IgnoredAreNoSends == Ignored \cap Sends = {}
    BY DEF Ignored, Sends, WithMedia

LEMMA BatchesAreNoOperations == "bulk" \notin Operations /\ "cancel" \notin Operations
    BY DEF Operations, Sends, WithMedia, OnMessages, OnGroups, OnContacts, OnLabels, OnChannels,
           OnStatuses, OnCatalog

\* An adapter answers without asking WhatsApp to queries only.
LEMMA EmptyAreQueries == ASSUME NEW k, NEW op, "empty" \in Ways(k, op) PROVE op \in Queries
<1>1. Way(k, op) = "empty"
    BY DEF Ways
<1>2. BaileysEmpty \subseteq Queries
    BY DEF BaileysEmpty, Queries
<1>3. op \in BaileysEmpty \/ op \in Queries
    BY <1>1 DEF Way
<1> QED
    BY <1>2, <1>3

-----------------------------------------------------------------------------
(* One request moves.                                                       *)

LEMMA MovesTo ==
    ASSUME NEW q, IsRequest(q), NEW place
    PROVE  At(q, place) = [job |-> q.job, at |-> place, of |-> q.of, answer |-> q.answer]
    BY DEF IsRequest, At

LEMMA AnswersWith ==
    ASSUME NEW q, IsRequest(q), NEW what
    PROVE  Answered(q, what) = [job |-> q.job, at |-> "answered", of |-> NoEngine, answer |-> what]
<1> DEFINE one == [q EXCEPT !.at = "answered"]
           two == [one EXCEPT !.answer = what]
<1>1. one = [job |-> q.job, at |-> "answered", of |-> q.of, answer |-> q.answer]
    BY DEF IsRequest
<1>2. Answered(q, what) = [two EXCEPT !.of = NoEngine]
    BY DEF Answered
<1> HIDE DEF one
<1>3. two = [job |-> q.job, at |-> "answered", of |-> q.of, answer |-> what]
    BY <1>1
<1> HIDE DEF two
<1> QED
    BY <1>2, <1>3

\* A text's outcome is told first.
LEMMA ConcludesWith ==
    ASSUME NEW q, IsRequest(q), NEW what
    PROVE  \/ Concluded(q, what) = Answered(q, what)
           \/ /\ q.job = "text"
              /\ Concluded(q, what) = [job |-> q.job, at |-> "telling", of |-> q.of, answer |-> what]
<1> DEFINE one == [q EXCEPT !.at = "telling"]
<1>1. one = [job |-> q.job, at |-> "telling", of |-> q.of, answer |-> q.answer]
    BY DEF IsRequest
<1>2. CASE q.job = "text"
    <2>1. Concluded(q, what) = [one EXCEPT !.answer = what]
        BY <1>2 DEF Concluded
    <2> HIDE DEF one
    <2> QED
        BY <1>1, <1>2, <2>1
<1>3. CASE q.job # "text"
    BY <1>3 DEF Concluded
<1> QED
    BY <1>2, <1>3

\* A step of one request that leaves it good.
LEMMA OneMoves ==
    ASSUME IInv, NEW r \in 1..Requests, NEW q, NEW m, NEW c \in BOOLEAN, Good(q, m, c, kind),
           request' = [request EXCEPT ![r] = q],
           message' = [message EXCEPT ![r] = m] \/ (message' = message /\ m = message[r]),
           (r \in carried') = c,
           \A s \in 1..Requests \ {r} : (s \in carried') = (s \in carried),
           UNCHANGED kind
    PROVE  IInv'
<1>1. /\ request'[r] = q /\ message'[r] = m
      /\ \A s \in 1..Requests \ {r} : request'[s] = request[s] /\ message'[s] = message[s]
    BY DEF IInv
<1>2. /\ request' = [s \in 1..Requests |-> request'[s]]
      /\ message' = [s \in 1..Requests |-> message'[s]]
    BY DEF IInv
<1>3. ASSUME NEW s \in 1..Requests PROVE Good(request'[s], message'[s], s \in carried', kind')
    <2>1. CASE s = r
        BY <1>1, <2>1
    <2>2. CASE s # r
        BY <1>1, <2>2 DEF IInv
    <2> QED
        BY <2>1, <2>2
<1> QED
    BY <1>2, <1>3 DEF IInv

\* One that neither writes a row nor reaches WhatsApp.
LEMMA OneMovesOn ==
    ASSUME IInv, NEW r \in 1..Requests, NEW q, Good(q, message[r], r \in carried, kind), Becomes(r, q),
           UNCHANGED <<kind, message, carried>>
    PROVE  IInv'
<1> DEFINE c == r \in carried
<1>1. /\ request' = [request EXCEPT ![r] = q] /\ message' = message /\ c \in BOOLEAN
      /\ (r \in carried') = c /\ Good(q, message[r], c, kind)
      /\ \A s \in 1..Requests \ {r} : (s \in carried') = (s \in carried)
    BY DEF Becomes
<1> QED
    BY <1>1, OneMoves

\* A step that leaves the requests alone.
LEMMA NoneMoves == ASSUME IInv, UNCHANGED <<kind, sendVars>> PROVE IInv'
    BY DEF IInv, Good, IsRequest, sendVars

LEMMA AnsweredError ==
    ASSUME NEW q, NEW m, NEW c, Good(q, m, c, kind) PROVE Good(Answered(q, "error"), m, c, kind)
<1>1. Answered(q, "error") = [job |-> q.job, at |-> "answered", of |-> NoEngine, answer |-> "error"]
    BY AnswersWith DEF Good
<1> QED
    BY <1>1 DEF Good, IsRequest

LEMMA ThrownIsGood ==
    ASSUME NEW q, NEW m, NEW c, Good(q, m, c, kind), q.answer # "ok",
           q.job \in Sends => m \notin {"none", "sent"}
    PROVE  Good(Thrown(q), m, c, kind)
<1>1. CASE q.job \in Sends
    <2>1. Thrown(q) = [job |-> q.job, at |-> "failing", of |-> q.of, answer |-> q.answer]
        BY <1>1, MovesTo DEF Thrown, Good
    <2> QED
        BY <1>1, <2>1 DEF Good, IsRequest
<1>2. CASE q.job \notin Sends
    BY <1>2, AnsweredError DEF Thrown
<1> QED
    BY <1>1, <1>2

\* The call of the adapter.
LEMMA CalledIsGood ==
    ASSUME NEW q, NEW m, NEW c, Good(q, m, c, kind), q.answer # "ok", m # "sent",
           q.job \in Sends => m # "none",
           NEW called \in Called(q)
    PROVE  Good(called, m, c, kind)
<1>1. PICK way \in Ways(kind, q.job) :
        called = CASE way = "throws" -> Thrown(q)
                   [] way = "empty" ->
                        IF q.job \in NeedsResult \/ (kind = "wwjs" /\ ~Ready(q.of))
                        THEN Answered(q, "error") ELSE Answered(q, "ok")
                   [] ~Ready(q.of) -> Thrown(q)
                   [] way = "finds" -> At(q, "finding")
                   [] OTHER -> At(q, "sending")
    BY DEF Called
<1>2. \/ called = Thrown(q) \/ called = Answered(q, "error")
      \/ way = "empty" /\ called = Answered(q, "ok")
      \/ called = At(q, "finding") \/ called = At(q, "sending")
    BY <1>1
<1>3. CASE called = Thrown(q)
    BY <1>3, ThrownIsGood
<1>4. CASE called = Answered(q, "error")
    BY <1>4, AnsweredError
<1>5. CASE way = "empty" /\ called = Answered(q, "ok")
    <2>1. q.job \in Queries /\ q.job \notin Sends
        BY <1>5, EmptyAreQueries, SendsAreNoQueries
    <2>2. called = [job |-> q.job, at |-> "answered", of |-> NoEngine, answer |-> "ok"]
        BY <1>5, AnswersWith DEF Good
    <2> QED
        BY <2>1, <2>2 DEF Good, IsRequest
<1>6. ASSUME NEW place \in {"finding", "sending"}, called = At(q, place) PROVE Good(called, m, c, kind)
    <2>1. called = [job |-> q.job, at |-> place, of |-> q.of, answer |-> q.answer]
        BY <1>6, MovesTo DEF Good
    <2> QED
        BY <1>6, <2>1 DEF Good, IsRequest
<1> QED
    BY <1>2, <1>3, <1>4, <1>5, <1>6

\* An operation whose errors are swallowed is a query.
LEMMA SwallowedIsGood ==
    ASSUME NEW q, NEW m, NEW c, Good(q, m, c, kind), q.job \in Swallows
    PROVE  Good(Answered(q, "ok"), m, c, kind)
<1>1. Answered(q, "ok") = [job |-> q.job, at |-> "answered", of |-> NoEngine, answer |-> "ok"]
    BY AnswersWith DEF Good
<1>2. q.job \in Queries /\ q.job \notin Sends
    BY SwallowedAreQueries
<1> QED
    BY <1>1, <1>2 DEF Good, IsRequest

-----------------------------------------------------------------------------
(* Every step keeps the invariant.                                          *)

LEMMA IInvInit == Init => IInv
<1> SUFFICES ASSUME Init PROVE IInv
    OBVIOUS
<1>1. /\ request = [r \in 1..Requests |-> Unasked] /\ message = [r \in 1..Requests |-> "none"]
      /\ carried = {}
    BY DEF Init
<1>2. Good(Unasked, "none", FALSE, kind)
    BY DEF Good, IsRequest, Unasked, Sends, WithMedia, Operations
<1>3. \A r \in 1..Requests : request[r] = Unasked /\ message[r] = "none" /\ ~(r \in carried)
    BY <1>1
<1>4. /\ request = [r \in 1..Requests |-> request[r]]
      /\ message = [r \in 1..Requests |-> message[r]]
    BY <1>1, <1>3
<1>5. ASSUME NEW r \in 1..Requests PROVE Good(request[r], message[r], r \in carried, kind)
    BY <1>2, <1>3 DEF Good
<1> QED
    BY <1>4, <1>5 DEF IInv

LEMMA IInvAsk ==
    ASSUME IInv, NEW r \in 1..Requests, NEW op \in Ops, Ask(r, op) PROVE IInv'
<1> DEFINE q == [Unasked EXCEPT !.job = op, !.at = IF op = "text" THEN "hooks" ELSE "asked"]
<1>1. /\ request[r].at = "unasked" /\ Becomes(r, q) /\ UNCHANGED <<kind, message, carried>>
    BY DEF Ask
<1>2. \E place \in {"hooks", "asked"} :
        q = [job |-> op, at |-> place, of |-> NoEngine, answer |-> "none"]
    <2> DEFINE one == [Unasked EXCEPT !.job = op]
               place == IF op = "text" THEN "hooks" ELSE "asked"
    <2>1. one = [job |-> op, at |-> "unasked", of |-> NoEngine, answer |-> "none"]
        BY DEF Unasked
    <2>2. q = [one EXCEPT !.at = place] /\ place \in {"hooks", "asked"}
        OBVIOUS
    <2> HIDE DEF one, place, q
    <2>3. q = [job |-> op, at |-> place, of |-> NoEngine, answer |-> "none"]
        BY <2>1, <2>2
    <2> QED
        BY <2>2, <2>3
<1>3. message[r] = "none" /\ r \notin carried
    BY <1>1 DEF IInv, Good
<1> HIDE DEF q
<1>4. Good(q, message[r], r \in carried, kind)
    BY <1>2, <1>3 DEF Good, IsRequest
<1> QED
    BY <1>1, <1>4, OneMovesOn

LEMMA IInvAskBatch == ASSUME IInv, NEW r \in 1..Requests, AskBatch(r) PROVE IInv'
<1> DEFINE asked == [Unasked EXCEPT !.job = "bulk"]
           q == IF current = NoEngine THEN Answered(asked, "error")
                ELSE At(asked, IF batch.status = "none" THEN "free" ELSE "taken")
<1>1. /\ request[r].at = "unasked" /\ Becomes(r, q) /\ UNCHANGED <<kind, message, carried>>
    BY DEF AskBatch
<1>2. asked = [job |-> "bulk", at |-> "unasked", of |-> NoEngine, answer |-> "none"]
    BY DEF Unasked
<1> HIDE DEF asked
<1>3. IsRequest(asked) /\ asked.job = "bulk" /\ asked.answer = "none" /\ asked.of = NoEngine
    BY <1>2 DEF IsRequest
<1>4. \E place \in {"free", "taken", "answered"}, answer \in {"none", "error"} :
        q = [job |-> "bulk", at |-> place, of |-> NoEngine, answer |-> answer]
    BY <1>3, MovesTo, AnswersWith
<1>5. message[r] = "none" /\ r \notin carried
    BY <1>1 DEF IInv, Good
<1> HIDE DEF q
<1>6. Good(q, message[r], r \in carried, kind)
    BY <1>4, <1>5 DEF Good, IsRequest
<1> QED
    BY <1>1, <1>6, OneMovesOn

LEMMA IInvAskCancel == ASSUME IInv, BInv, NEW r \in 1..Requests, AskCancel(r) PROVE IInv'
<1> DEFINE q == [Unasked EXCEPT !.job = "cancel", !.at = "reading", !.of = batch]
<1>1. /\ request[r].at = "unasked" /\ Becomes(r, q) /\ UNCHANGED <<kind, message, carried>>
    BY DEF AskCancel
<1>2. q = [job |-> "cancel", at |-> "reading", of |-> batch, answer |-> "none"]
    <2> DEFINE one == [Unasked EXCEPT !.job = "cancel"]
               two == [one EXCEPT !.at = "reading"]
    <2>1. one = [job |-> "cancel", at |-> "unasked", of |-> NoEngine, answer |-> "none"]
        BY DEF Unasked
    <2>2. q = [two EXCEPT !.of = batch]
        OBVIOUS
    <2> HIDE DEF one, q
    <2>3. two = [job |-> "cancel", at |-> "reading", of |-> NoEngine, answer |-> "none"]
        BY <2>1
    <2> HIDE DEF two
    <2> QED
        BY <2>2, <2>3
<1>3. message[r] = "none" /\ r \notin carried
    BY <1>1 DEF IInv, Good
<1> HIDE DEF q
<1>4. Good(q, message[r], r \in carried, kind)
    BY <1>2, <1>3 DEF Good, IsRequest, BInv
<1> QED
    BY <1>1, <1>4, OneMovesOn

LEMMA IInvHooked == ASSUME IInv, NEW r \in 1..Requests, Hooked(r) PROVE IInv'
<1>1. Good(request[r], message[r], r \in carried, kind)
    BY DEF IInv
<1>2. request[r].at = "hooks" /\ UNCHANGED <<kind, message, carried>>
    BY DEF Hooked
<1>3. CASE Becomes(r, At(request[r], "asked"))
    <2>1. At(request[r], "asked") = [job |-> request[r].job, at |-> "asked",
                                     of |-> request[r].of, answer |-> request[r].answer]
        BY <1>1, MovesTo DEF Good
    <2>2. Good(At(request[r], "asked"), message[r], r \in carried, kind)
        BY <1>1, <1>2, <2>1 DEF Good, IsRequest
    <2> QED
        BY <1>2, <1>3, <2>2, OneMovesOn
<1>4. CASE Becomes(r, Answered(request[r], "error"))
    BY <1>1, <1>2, <1>4, AnsweredError, OneMovesOn
<1> QED
    BY <1>3, <1>4 DEF Hooked

LEMMA IInvGetEngine == ASSUME IInv, NEW r \in 1..Requests, GetEngine(r) PROVE IInv'
<1> DEFINE q == [request[r] EXCEPT !.of = current]
<1>1. Good(request[r], message[r], r \in carried, kind)
    BY DEF IInv
<1>2. /\ request[r].at = "asked" /\ UNCHANGED <<kind, message, carried>>
      /\ IF current = NoEngine THEN Becomes(r, Answered(q, "error"))
         ELSE IF q.job \in Sends THEN Becomes(r, At(q, "recording"))
         ELSE \E called \in Called(q) : Becomes(r, called)
    BY DEF GetEngine
<1>3. q = [job |-> request[r].job, at |-> "asked", of |-> current, answer |-> request[r].answer]
    BY <1>1, <1>2 DEF Good, IsRequest
<1> HIDE DEF q
<1>4. Good(q, message[r], r \in carried, kind) /\ q.answer # "ok" /\ message[r] = "none" /\ r \notin carried
    BY <1>1, <1>2, <1>3 DEF Good, IsRequest
<1>5. CASE Becomes(r, Answered(q, "error"))
    BY <1>2, <1>4, <1>5, AnsweredError, OneMovesOn
<1>6. CASE q.job \in Sends /\ Becomes(r, At(q, "recording"))
    <2>1. At(q, "recording") = [job |-> q.job, at |-> "recording", of |-> q.of, answer |-> q.answer]
        BY <1>4, MovesTo DEF Good
    <2>2. Good(At(q, "recording"), message[r], r \in carried, kind)
        BY <1>4, <1>6, <2>1 DEF Good, IsRequest
    <2> QED
        BY <1>2, <1>6, <2>2, OneMovesOn
<1>7. ASSUME q.job \notin Sends, NEW called \in Called(q), Becomes(r, called) PROVE IInv'
    <2>1. Good(called, message[r], r \in carried, kind)
        BY <1>4, <1>7, CalledIsGood
    <2> QED
        BY <1>2, <1>7, <2>1, OneMovesOn
<1> QED
    BY <1>2, <1>5, <1>6, <1>7

LEMMA IInvBadMedia == ASSUME IInv, NEW r \in 1..Requests, BadMedia(r) PROVE IInv'
    BY AnsweredError, OneMovesOn DEF BadMedia, IInv

LEMMA IInvSaveOutgoing == ASSUME IInv, NEW r \in 1..Requests, SaveOutgoing(r) PROVE IInv'
<1>1. Good(request[r], message[r], r \in carried, kind)
    BY DEF IInv
<1>2. request[r].at = "recording" /\ UNCHANGED <<kind, carried>>
    BY DEF SaveOutgoing
<1>3. ASSUME message' = [message EXCEPT ![r] = "pending"],
             NEW called \in Called(request[r]), Becomes(r, called)
      PROVE  IInv'
    <2>1. request[r].answer # "ok" /\ request[r].job \in Sends
        BY <1>1, <1>2 DEF Good
    <2>4. Good(request[r], "pending", r \in carried, kind)
        <3>1. IsRequest(request[r]) /\ ~(r \in carried)
            BY <1>1, <1>2 DEF Good
        <3> QED
            BY <1>2, <2>1, <3>1 DEF Good
    <2>2. Good(called, "pending", r \in carried, kind)
        BY <1>3, <2>1, <2>4, CalledIsGood
    <2> DEFINE c == r \in carried
    <2>3. /\ c \in BOOLEAN /\ (r \in carried') = c /\ Good(called, "pending", c, kind)
          /\ \A s \in 1..Requests \ {r} : (s \in carried') = (s \in carried)
          /\ request' = [request EXCEPT ![r] = called]
        BY <1>2, <1>3, <2>2 DEF Becomes
    <2> QED
        BY <1>2, <1>3, <2>3, OneMoves
<1>4. CASE Becomes(r, Answered(request[r], "error")) /\ UNCHANGED message
    BY <1>1, <1>2, <1>4, AnsweredError, OneMovesOn
<1> QED
    BY <1>3, <1>4 DEF SaveOutgoing

LEMMA IInvFind == ASSUME IInv, NEW r \in 1..Requests, Find(r) PROVE IInv'
<1>1. Good(request[r], message[r], r \in carried, kind)
    BY DEF IInv
<1>2. request[r].at = "finding" /\ UNCHANGED <<kind, message, carried>>
    BY DEF Find
<1>3. CASE Becomes(r, At(request[r], "sending"))
    <2>1. At(request[r], "sending") = [job |-> request[r].job, at |-> "sending",
                                       of |-> request[r].of, answer |-> request[r].answer]
        BY <1>1, MovesTo DEF Good
    <2>2. Good(At(request[r], "sending"), message[r], r \in carried, kind)
        BY <1>1, <1>2, <2>1 DEF Good, IsRequest
    <2> QED
        BY <1>2, <1>3, <2>2, OneMovesOn
<1>4. CASE request[r].job \in Swallows /\ Becomes(r, Answered(request[r], "ok"))
    <2>1. Good(Answered(request[r], "ok"), message[r], r \in carried, kind)
        BY <1>1, <1>2, <1>4, SwallowedIsGood
    <2> QED
        BY <1>2, <1>4, <2>1, OneMovesOn
<1>5. CASE Becomes(r, Thrown(request[r]))
    <2>1. Good(Thrown(request[r]), message[r], r \in carried, kind)
        BY <1>1, <1>2, ThrownIsGood DEF Good
    <2> QED
        BY <1>2, <1>5, <2>1, OneMovesOn
<1> QED
    BY <1>3, <1>4, <1>5 DEF Find

LEMMA IInvCarry == ASSUME IInv, NEW r \in 1..Requests, Carry(r) PROVE IInv'
<1>1. /\ request[r].at = "sending" /\ carried' = carried \cup {r} /\ UNCHANGED <<kind, request, message>>
    BY DEF Carry
<1>2. Good(request[r], message[r], r \in carried, kind)
    BY DEF IInv
<1>3. Good(request[r], message[r], TRUE, kind)
    BY <1>1, <1>2 DEF Good
<1>4. request' = [request EXCEPT ![r] = request[r]]
    BY <1>1 DEF IInv
<1>5. /\ (r \in carried') = TRUE /\ message' = message
      /\ \A s \in 1..Requests \ {r} : (s \in carried') = (s \in carried)
    BY <1>1
<1> QED
    BY <1>1, <1>3, <1>4, <1>5, OneMoves

LEMMA IInvReturns == ASSUME IInv, NEW r \in 1..Requests, Returns(r) PROVE IInv'
<1>1. Good(request[r], message[r], r \in carried, kind)
    BY DEF IInv
<1>2. /\ request[r].at = "sending" /\ UNCHANGED <<kind, message, carried>>
      /\ r \in carried \/ (kind = "wwjs" /\ request[r].job \in Ignored)
    BY DEF Returns, IsIgnored
<1>3. CASE request[r].job \in Sends /\ Becomes(r, At(request[r], "marking"))
    <2>1. At(request[r], "marking") = [job |-> request[r].job, at |-> "marking",
                                       of |-> request[r].of, answer |-> request[r].answer]
        BY <1>1, MovesTo DEF Good
    <2>2. Good(At(request[r], "marking"), message[r], r \in carried, kind)
        BY <1>1, <1>2, <1>3, <2>1, IgnoredAreNoSends DEF Good, IsRequest
    <2> QED
        BY <1>2, <1>3, <2>2, OneMovesOn
<1>4. CASE request[r].job \notin Sends /\ Becomes(r, Answered(request[r], "ok"))
    <2>1. Answered(request[r], "ok") = [job |-> request[r].job, at |-> "answered",
                                        of |-> NoEngine, answer |-> "ok"]
        BY <1>1, AnswersWith DEF Good
    <2>2. Good(Answered(request[r], "ok"), message[r], r \in carried, kind)
        BY <1>1, <1>2, <1>4, <2>1 DEF Good, IsRequest
    <2> QED
        BY <1>2, <1>4, <2>2, OneMovesOn
<1> QED
    BY <1>3, <1>4 DEF Returns

LEMMA IInvRejects == ASSUME IInv, NEW r \in 1..Requests, Rejects(r) PROVE IInv'
<1>1. Good(request[r], message[r], r \in carried, kind)
    BY DEF IInv
<1>2. request[r].at = "sending" /\ UNCHANGED <<kind, message, carried>>
    BY DEF Rejects
<1>3. CASE request[r].job \in Swallows /\ Becomes(r, Answered(request[r], "ok"))
    <2>1. Good(Answered(request[r], "ok"), message[r], r \in carried, kind)
        BY <1>1, <1>2, <1>3, SwallowedIsGood
    <2> QED
        BY <1>2, <1>3, <2>1, OneMovesOn
<1>4. CASE Becomes(r, Thrown(request[r]))
    <2>1. Good(Thrown(request[r]), message[r], r \in carried, kind)
        BY <1>1, <1>2, ThrownIsGood DEF Good
    <2> QED
        BY <1>2, <1>4, <2>1, OneMovesOn
<1> QED
    BY <1>3, <1>4 DEF Rejects

LEMMA IInvMarkSent == ASSUME IInv, NEW r \in 1..Requests, MarkSent(r) PROVE IInv'
<1>1. Good(request[r], message[r], r \in carried, kind)
    BY DEF IInv
<1>2. request[r].at = "marking" /\ UNCHANGED <<kind, carried>>
    BY DEF MarkSent
<1>3. CASE message' = [message EXCEPT ![r] = "sent"] /\ Becomes(r, Concluded(request[r], "ok"))
    <2>1. r \in carried /\ request[r].job \in Sends /\ IsRequest(request[r])
        BY <1>1, <1>2 DEF Good
    <2> DEFINE q == [job |-> request[r].job, at |-> "answered", of |-> NoEngine, answer |-> "ok"]
    <2>2. Good(Concluded(request[r], "ok"), "sent", TRUE, kind)
        <3>1. CASE Concluded(request[r], "ok") = Answered(request[r], "ok")
            <4>1. Concluded(request[r], "ok") = q
                BY <2>1, <3>1, AnswersWith
            <4> QED
                BY <2>1, <4>1 DEF Good, IsRequest
        <3>2. CASE Concluded(request[r], "ok") = [job |-> request[r].job, at |-> "telling",
                                                  of |-> request[r].of, answer |-> "ok"]
            BY <2>1, <3>2 DEF Good, IsRequest
        <3> QED
            BY <2>1, <3>1, <3>2, ConcludesWith
    <2>3. /\ (r \in carried') = TRUE
          /\ request' = [request EXCEPT ![r] = Concluded(request[r], "ok")]
          /\ \A s \in 1..Requests \ {r} : (s \in carried') = (s \in carried)
        BY <1>2, <1>3, <2>1 DEF Becomes
    <2> QED
        BY <1>2, <1>3, <2>2, <2>3, OneMoves
<1>4. CASE Becomes(r, At(request[r], "failing")) /\ UNCHANGED message
    <2>1. At(request[r], "failing") = [job |-> request[r].job, at |-> "failing",
                                       of |-> request[r].of, answer |-> request[r].answer]
        BY <1>1, MovesTo DEF Good
    <2>2. Good(At(request[r], "failing"), message[r], r \in carried, kind)
        BY <1>1, <1>2, <2>1 DEF Good, IsRequest
    <2> QED
        BY <1>2, <1>4, <2>2, OneMovesOn
<1> QED
    BY <1>3, <1>4 DEF MarkSent

LEMMA IInvMarkFailed == ASSUME IInv, NEW r \in 1..Requests, MarkFailed(r) PROVE IInv'
<1>1. Good(request[r], message[r], r \in carried, kind)
    BY DEF IInv
<1>2. request[r].at = "failing" /\ UNCHANGED <<kind, carried>>
    BY DEF MarkFailed
<1>3. CASE message' = [message EXCEPT ![r] = "failed"] /\ Becomes(r, Concluded(request[r], "error"))
    <2> DEFINE c == r \in carried
               q == Concluded(request[r], "error")
    <2>1. Good(request[r], "failed", c, kind) /\ IsRequest(request[r])
        BY <1>1, <1>2 DEF Good
    <2>2. Good(q, "failed", c, kind)
        <3>1. CASE q = Answered(request[r], "error")
            BY <2>1, <3>1, AnsweredError
        <3>2. CASE request[r].job = "text" /\ q = [job |-> request[r].job, at |-> "telling",
                                                  of |-> request[r].of, answer |-> "error"]
            <4>1. request[r].job \in Sends
                BY <3>2 DEF Sends
            <4> QED
                BY <2>1, <3>2, <4>1 DEF Good, IsRequest
        <3> QED
            BY <2>1, <3>1, <3>2, ConcludesWith
    <2>3. /\ (r \in carried') = c /\ c \in BOOLEAN
          /\ request' = [request EXCEPT ![r] = q]
          /\ \A s \in 1..Requests \ {r} : (s \in carried') = (s \in carried)
        BY <1>2, <1>3 DEF Becomes
    <2> HIDE DEF q
    <2> QED
        BY <1>2, <1>3, <2>2, <2>3, OneMoves
<1>4. CASE Becomes(r, Answered(request[r], "error")) /\ UNCHANGED message
    BY <1>1, <1>2, <1>4, AnsweredError, OneMovesOn
<1> QED
    BY <1>3, <1>4 DEF MarkFailed

LEMMA IInvTold == ASSUME IInv, NEW r \in 1..Requests, Told(r) PROVE IInv'
<1> DEFINE q == Answered(request[r], request[r].answer)
<1>1. Good(request[r], message[r], r \in carried, kind)
    BY DEF IInv
<1>2. request[r].at = "telling" /\ Becomes(r, q) /\ UNCHANGED <<kind, message, carried>>
    BY DEF Told
<1>3. q = [job |-> request[r].job, at |-> "answered", of |-> NoEngine, answer |-> request[r].answer]
    BY <1>1, AnswersWith DEF Good
<1> HIDE DEF q
<1>4. Good(q, message[r], r \in carried, kind)
    BY <1>1, <1>2, <1>3 DEF Good, IsRequest
<1> QED
    BY <1>2, <1>4, OneMovesOn

\* A batch's request is answered.
LEMMA BatchAnswered ==
    ASSUME IInv, NEW r \in 1..Requests, request[r].at \in {"free", "taken", "reading"},
           NEW what \in {"ok", "error"}, Becomes(r, Answered(request[r], what)),
           UNCHANGED <<kind, message, carried>>
    PROVE  IInv'
<1>1. Good(request[r], message[r], r \in carried, kind)
    BY DEF IInv
<1>2. request[r].job \notin Operations /\ request[r].job \notin Sends
    BY <1>1, BatchesAreNoOperations, SendsAreNoQueries DEF Good
<1>3. Answered(request[r], what) = [job |-> request[r].job, at |-> "answered",
                                    of |-> NoEngine, answer |-> what]
    BY <1>1, AnswersWith DEF Good
<1>4. Good(Answered(request[r], what), message[r], r \in carried, kind)
    BY <1>1, <1>2, <1>3 DEF Good, IsRequest
<1> QED
    BY <1>4, OneMovesOn

LEMMA IInvCreateBatch == ASSUME IInv, NEW r \in 1..Requests, CreateBatch(r) PROVE IInv'
<1>1. request[r].at \in {"free", "taken", "reading"} /\ UNCHANGED <<kind, message, carried>>
    BY DEF CreateBatch
<1>2. Becomes(r, Answered(request[r], "error")) \/ Becomes(r, Answered(request[r], "ok"))
    BY DEF CreateBatch, SaveOr
<1> QED
    BY <1>1, <1>2, BatchAnswered

LEMMA IInvCancelBatch == ASSUME IInv, NEW r \in 1..Requests, CancelBatch(r) PROVE IInv'
<1>1. request[r].at \in {"free", "taken", "reading"} /\ UNCHANGED <<kind, message, carried>>
    BY DEF CancelBatch
<1>2. Becomes(r, Answered(request[r], "error")) \/ Becomes(r, Answered(request[r], "ok"))
    BY DEF CancelBatch, SaveOr
<1> QED
    BY <1>1, <1>2, BatchAnswered

LEMMA IInvRestart == ASSUME IInv, Restart PROVE IInv'
<1>1. /\ request' = [r \in 1..Requests |->
                        IF InFlight(r) THEN Answered(request[r], "lost") ELSE request[r]]
      /\ UNCHANGED <<kind, message, carried>>
    BY DEF Restart
<1>2. ASSUME NEW r \in 1..Requests PROVE Good(request'[r], message[r], r \in carried, kind)
    <2>1. Good(request[r], message[r], r \in carried, kind)
        BY DEF IInv
    <2>2. CASE InFlight(r)
        <3>1. request'[r] = [job |-> request[r].job, at |-> "answered",
                             of |-> NoEngine, answer |-> "lost"]
            BY <1>1, <2>1, <2>2, AnswersWith DEF Good
        <3> QED
            BY <2>1, <3>1 DEF Good, IsRequest
    <2>3. CASE ~InFlight(r)
        BY <1>1, <2>1, <2>3
    <2> QED
        BY <2>2, <2>3
<1>3. request' = [r \in 1..Requests |-> request'[r]]
    BY <1>1
<1> QED
    BY <1>1, <1>2, <1>3 DEF IInv

\* The batch's own processing and the engines leave the requests alone.
LEMMA IInvProcess == ASSUME IInv, Process PROVE IInv'
    BY NoneMoves DEF Process, ProcessBatch, StartBatch, NextMessage, FindFile, CarryMessage,
                     MessageReturns, LeaveBatch

LEMMA IInvStep == IInv /\ BInv /\ [Next]_vars => IInv'
<1> SUFFICES ASSUME IInv, BInv, [Next]_vars PROVE IInv'
    OBVIOUS
<1>1. ASSUME NEW r \in 1..Requests, NEW op \in Ops, Ask(r, op) PROVE IInv'
    BY <1>1, IInvAsk
<1>2. ASSUME NEW r \in 1..Requests, AskBatch(r) \/ AskCancel(r) PROVE IInv'
    BY <1>2, IInvAskBatch, IInvAskCancel
<1>3. ASSUME NEW r \in 1..Requests, Handle(r) PROVE IInv'
    BY <1>3, IInvHooked, IInvGetEngine, IInvBadMedia, IInvSaveOutgoing, IInvFind, IInvCarry,
       IInvReturns, IInvRejects, IInvMarkSent, IInvMarkFailed, IInvTold, IInvCreateBatch, IInvCancelBatch
       DEF Handle
<1>4. CASE Process
    BY <1>4, IInvProcess
<1>5. CASE Started \/ Connected \/ Stopped
    BY <1>5, NoneMoves DEF Started, Connected, Stopped
<1>6. CASE Restart
    BY <1>6, IInvRestart
<1>7. CASE UNCHANGED vars
    BY <1>7, NoneMoves DEF vars, sendVars
<1> QED
    BY <1>1, <1>2, <1>3, <1>4, <1>5, <1>6, <1>7 DEF Next

-----------------------------------------------------------------------------
(* The batch.                                                               *)

LEMMA FieldSet ==
    ASSUME NEW c, HasStatus(c), NEW v
    PROVE  /\ HasStatus([c EXCEPT !.status = v]) /\ [c EXCEPT !.status = v].status = v
           /\ HasStatus([c EXCEPT !.index = v]) /\ [c EXCEPT !.index = v].status = c.status
           /\ HasStatus([c EXCEPT !.sent = v]) /\ [c EXCEPT !.sent = v].status = c.status
           /\ HasStatus([c EXCEPT !.failed = v]) /\ [c EXCEPT !.failed = v].status = c.status
           /\ HasStatus([c EXCEPT !.pending = v]) /\ [c EXCEPT !.pending = v].status = c.status
           /\ HasStatus([c EXCEPT !.cancelled = v]) /\ [c EXCEPT !.cancelled = v].status = c.status
           /\ HasStatus([c EXCEPT !.total = v]) /\ [c EXCEPT !.total = v].status = c.status
           /\ HasStatus([c EXCEPT !.stop = v]) /\ [c EXCEPT !.stop = v].status = c.status
           /\ HasStatus([c EXCEPT !.results = v]) /\ [c EXCEPT !.results = v].status = c.status
    BY DEF HasStatus

\* The run becomes one with another place and copy.
LEMMA RunBecomes ==
    ASSUME BInv, NEW place, NEW copy, RunIs(place, copy)
    PROVE  run' = [at |-> place, of |-> run.of, copy |-> copy]
    BY DEF BInv, RunIs

LEMMA NoRunIsOne ==
    /\ NoRun = [at |-> "none", of |-> NoEngine, copy |-> NoBatch]
    /\ HasStatus(NoBatch) /\ NoBatch.status = "none"
    BY DEF NoRun, NoBatch, HasStatus

\* What a run may be after a step, and what the batch's row.
RunFits ==
    /\ HasStatus(run'.copy) /\ run' = [at |-> run'.at, of |-> run'.of, copy |-> run'.copy]
    /\ run'.at # "none" => run'.copy.status # "none"
    /\ run'.at \notin {"none", "leaving"} => run'.copy.status # "completed"
    /\ run'.at \in {"none", "leaving", "next"}

RowFits(row) == HasStatus(row) /\ row.status # "none"

LEMMA NoRunFits == ASSUME run' = NoRun PROVE RunFits
    BY NoRunIsOne DEF RunFits

\* The last save of a run.
LEMMA Finishes ==
    ASSUME BInv, RowFits(batch), NEW copy, RowFits(copy), copy.status # "completed",
           FinishBatch(copy)
    PROVE  /\ RunFits /\ run'.at \in {"none", "leaving"} /\ RowFits(batch')
           /\ flag # "go" /\ batch'.status = "completed" => batch.status = "completed"
<1> DEFINE end == IF copy.failed > 0 /\ copy.sent = 0 THEN "failed" ELSE "completed"
           last == IF flag = "go" THEN [copy EXCEPT !.status = end] ELSE copy
<1>1. end \in {"failed", "completed"}
    OBVIOUS
<1> HIDE DEF end
<1>2. RowFits(last) /\ (flag # "go" => last.status # "completed")
    BY <1>1, FieldSet DEF RowFits
<1>3. SaveOr(last, run' = NoRun, RunIs("leaving", last))
    BY DEF FinishBatch, end
<1> HIDE DEF last
<1>4. CASE batch' = last /\ RunIs("leaving", last)
    <2>1. run' = [at |-> "leaving", of |-> run.of, copy |-> last]
        BY <1>4, RunBecomes
    <2> QED
        BY <1>2, <1>4, <2>1 DEF RunFits, RowFits
<1>5. CASE run' = NoRun /\ UNCHANGED batch
    BY <1>5, NoRunFits, NoRunIsOne DEF RowFits
<1> QED
    BY <1>3, <1>4, <1>5 DEF SaveOr

\* The result of a message is noted.
LEMMA Notes ==
    ASSUME BInv, RowFits(batch), NEW copy, RowFits(copy), copy.status # "completed",
           NoteResult(copy)
    PROVE  /\ RunFits /\ RowFits(batch')
           /\ flag # "go" /\ batch'.status = "completed" => batch.status = "completed"
<1> DEFINE next == [copy EXCEPT !.index = copy.index + 1]
<1>1. RowFits(next) /\ next.status # "completed"
    BY FieldSet DEF RowFits
<1>2. \/ FinishBatch(copy)
      \/ SaveOr(next, run' = NoRun, RunIs("next", next))
      \/ RunIs("next", next) /\ UNCHANGED batch
    BY DEF NoteResult
<1> HIDE DEF next
<1>3. CASE FinishBatch(copy)
    BY <1>3, Finishes
<1>4. CASE RunIs("next", next) /\ batch' \in {batch, next}
    <2>1. run' = [at |-> "next", of |-> run.of, copy |-> next]
        BY <1>4, RunBecomes
    <2> QED
        BY <1>1, <1>4, <2>1 DEF RunFits, RowFits
<1>5. CASE run' = NoRun /\ UNCHANGED batch
    BY <1>5, NoRunFits DEF RowFits
<1> QED
    BY <1>2, <1>3, <1>4, <1>5 DEF SaveOr

\* A message sent or failed leaves the copy a row.
LEMMA SentNotes ==
    ASSUME BInv, RowFits(batch), RowFits(run.copy), run.copy.status # "completed", MessageSent
    PROVE  /\ RunFits /\ RowFits(batch')
           /\ flag # "go" /\ batch'.status = "completed" => batch.status = "completed"
<1> DEFINE c == run.copy
           one == [c EXCEPT !.sent = c.sent + 1]
           two == [one EXCEPT !.pending = c.pending - 1]
           three == [two EXCEPT !.results = c.results + 1]
<1>1. NoteResult(three)
    BY DEF MessageSent
<1>2. RowFits(one) /\ one.status = c.status
    BY FieldSet DEF RowFits
<1> HIDE DEF one
<1>3. RowFits(two) /\ two.status = c.status
    BY <1>2, FieldSet DEF RowFits
<1> HIDE DEF two
<1>4. RowFits(three) /\ three.status = c.status
    BY <1>3, FieldSet DEF RowFits
<1> HIDE DEF three
<1> QED
    BY <1>1, <1>4, Notes

LEMMA FailedNotes ==
    ASSUME BInv, RowFits(batch), RowFits(run.copy), run.copy.status # "completed", MessageFailed
    PROVE  /\ RunFits /\ RowFits(batch')
           /\ flag # "go" /\ batch'.status = "completed" => batch.status = "completed"
<1> DEFINE c == run.copy
           one == [c EXCEPT !.failed = c.failed + 1]
           two == [one EXCEPT !.pending = c.pending - 1]
           three == [two EXCEPT !.results = c.results + 1]
           status == IF c.stop THEN "failed" ELSE c.status
           four == [three EXCEPT !.status = status]
<1>1. NoteResult(four)
    BY DEF MessageFailed
<1>2. RowFits(one)
    BY FieldSet DEF RowFits
<1> HIDE DEF one
<1>3. RowFits(two)
    BY <1>2, FieldSet DEF RowFits
<1> HIDE DEF two
<1>4. RowFits(three)
    BY <1>3, FieldSet DEF RowFits
<1> HIDE DEF three
<1>5. status \notin {"none", "completed"}
    BY DEF RowFits
<1> HIDE DEF status
<1>6. RowFits(four) /\ four.status # "completed"
    BY <1>4, <1>5, FieldSet DEF RowFits
<1> HIDE DEF four
<1> QED
    BY <1>1, <1>6, Notes

\* What CancelStops says of one step.
Calm ==
    stopped => /\ run'.at \in {"finding file", "sending"} => run.at # "next"
               /\ batch'.status = "completed" => batch.status = "completed"

LEMMA BFrame == ASSUME BInv, UNCHANGED <<batch, run, flag, stopped>> PROVE BInv' /\ Calm
    BY DEF BInv, HasStatus, Calm

LEMMA BFits ==
    ASSUME BInv, RunFits, RowFits(batch'), UNCHANGED <<flag, stopped>>,
           flag # "go" /\ batch'.status = "completed" => batch.status = "completed"
    PROVE  BInv' /\ Calm
    BY DEF BInv, RunFits, RowFits, Calm, HasStatus

\* The run goes on with the copy it has.
LEMMA BGoes ==
    ASSUME BInv, run.at \notin {"none", "leaving"}, ~stopped \/ run.at # "next",
           NEW place \in {"next", "finding file", "sending"}, NEW of,
           run' = [at |-> place, of |-> of, copy |-> run.copy],
           UNCHANGED <<batch, flag, stopped>>
    PROVE  BInv' /\ Calm
    BY DEF BInv, Calm, HasStatus

LEMMA BInvInit == Init => BInv
<1> SUFFICES ASSUME Init PROVE BInv
    OBVIOUS
<1>1. batch = NoBatch /\ run = NoRun /\ stopped = FALSE
    BY DEF Init
<1> QED
    BY <1>1, NoRunIsOne DEF BInv

LEMMA BInvCreateBatch ==
    ASSUME BInv, NEW r \in 1..Requests, CreateBatch(r) PROVE BInv' /\ Calm
<1>1. CASE UNCHANGED <<batch, run>>
    BY <1>1, BFrame DEF CreateBatch
<1>2. ASSUME batch.status = "none", NEW size, NEW stop,
             batch' = [NoBatch EXCEPT !.status = "pending", !.total = size, !.pending = size,
                                      !.stop = stop],
             run' = [NoRun EXCEPT !.at = "finding", !.copy = batch'],
             UNCHANGED <<flag, stopped>>
      PROVE  BInv' /\ Calm
    <2> DEFINE one == [NoBatch EXCEPT !.status = "pending"]
               two == [one EXCEPT !.total = size]
               three == [two EXCEPT !.pending = size]
               row == [three EXCEPT !.stop = stop]
               found == [NoRun EXCEPT !.at = "finding"]
    <2>1. batch' = row
        BY <1>2
    <2>10. HasStatus(NoBatch)
        BY NoRunIsOne
    <2>11. one.status = "pending"
        BY DEF NoBatch
    <2>12. HasStatus(one)
        BY <2>10, FieldSet
    <2>2. HasStatus(one) /\ one.status = "pending"
        BY <2>11, <2>12
    <2> HIDE DEF one
    <2>3. HasStatus(two) /\ two.status = "pending"
        BY <2>2, FieldSet
    <2> HIDE DEF two
    <2>4. HasStatus(three) /\ three.status = "pending"
        BY <2>3, FieldSet
    <2> HIDE DEF three
    <2>5. HasStatus(row) /\ row.status = "pending"
        BY <2>4, FieldSet
    <2>6. found = [at |-> "finding", of |-> NoEngine, copy |-> NoBatch]
        BY NoRunIsOne
    <2>7. run' = [found EXCEPT !.copy = batch']
        BY <1>2
    <2> HIDE DEF row, found
    <2>8. run' = [at |-> "finding", of |-> NoEngine, copy |-> row]
        BY <2>1, <2>6, <2>7
    <2>9. ~stopped
        BY <1>2 DEF BInv
    <2> QED
        BY <1>2, <2>1, <2>5, <2>8, <2>9 DEF BInv, Calm
<1> QED
    BY <1>1, <1>2 DEF CreateBatch, SaveOr

LEMMA CancelledFits ==
    ASSUME NEW row, HasStatus(row)
    PROVE  HasStatus(CancelledCopy(row)) /\ CancelledCopy(row).status = "cancelled"
<1> DEFINE one == [row EXCEPT !.status = "cancelled"]
           two == [one EXCEPT !.cancelled = row.pending]
           three == [two EXCEPT !.pending = 0]
<1>1. CancelledCopy(row) = three
    BY DEF CancelledCopy
<1>2. HasStatus(one) /\ one.status = "cancelled"
    BY FieldSet
<1> HIDE DEF one
<1>3. HasStatus(two) /\ two.status = "cancelled"
    BY <1>2, FieldSet
<1> HIDE DEF two
<1>4. HasStatus(three) /\ three.status = "cancelled"
    BY <1>3, FieldSet
<1> QED
    BY <1>1, <1>4

LEMMA BInvCancelBatch ==
    ASSUME IInv, BInv, NEW r \in 1..Requests, CancelBatch(r) PROVE BInv' /\ Calm
<1> DEFINE row == request[r].of
<1>1. HasStatus(row)
    BY DEF CancelBatch, IInv, Good
<1> HIDE DEF row
<1>6. HasStatus(CancelledCopy(row)) /\ CancelledCopy(row).status = "cancelled"
    BY <1>1, CancelledFits
<1>7. CASE UNCHANGED <<batch, flag, stopped>>
    BY <1>7, BFrame DEF CancelBatch
<1>8. CASE flag' = "stop" /\ stopped' = (stopped \/ run.at \notin {"none", "finding"})
           /\ batch' \in {batch, CancelledCopy(row)}
    BY <1>6, <1>8 DEF CancelBatch, BInv, Calm, HasStatus
<1> QED
    BY <1>7, <1>8 DEF CancelBatch, SaveOr, row

LEMMA BInvProcessBatch == ASSUME BInv, ProcessBatch PROVE BInv' /\ Calm
<1> DEFINE copy == [run.copy EXCEPT !.status = "processing"]
<1>1. run.at = "finding" /\ ~stopped /\ UNCHANGED stopped
    BY DEF ProcessBatch, BInv
<1>2. HasStatus(copy) /\ copy.status = "processing"
    BY FieldSet DEF BInv
<1>3. SaveOr(copy, run' = NoRun, RunIs("starting", copy))
    BY DEF ProcessBatch
<1> HIDE DEF copy
<1>4. CASE batch' = copy /\ RunIs("starting", copy)
    <2>1. run' = [at |-> "starting", of |-> run.of, copy |-> copy]
        BY <1>4, RunBecomes
    <2> QED
        BY <1>1, <1>2, <1>4, <2>1 DEF BInv, Calm
<1>5. CASE UNCHANGED batch /\ run' = NoRun
    BY <1>1, <1>5, NoRunIsOne DEF BInv, Calm, HasStatus
<1> QED
    BY <1>3, <1>4, <1>5 DEF SaveOr

LEMMA BInvStartBatch == ASSUME BInv, StartBatch PROVE BInv' /\ Calm
<1>1. run.at = "starting" /\ UNCHANGED <<flag, stopped>> /\ RowFits(batch)
    BY DEF StartBatch, BInv, RowFits
<1>2. CASE run' = [run EXCEPT !.at = "next", !.of = current] /\ UNCHANGED batch
    <2> DEFINE one == [run EXCEPT !.at = "next"]
    <2>1. one = [at |-> "next", of |-> run.of, copy |-> run.copy]
        BY DEF BInv
    <2>2. run' = [one EXCEPT !.of = current]
        BY <1>2
    <2> HIDE DEF one
    <2>3. run' = [at |-> "next", of |-> current, copy |-> run.copy]
        BY <2>1, <2>2
    <2> QED
        BY <1>1, <1>2, <2>3, BGoes
<1>3. CASE run' = NoRun /\ batch' \in {batch, [run.copy EXCEPT !.status = "failed"]}
    <2> DEFINE failed == [run.copy EXCEPT !.status = "failed"]
    <2>3. HasStatus(failed) /\ failed.status = "failed"
        BY FieldSet DEF BInv
    <2>4. batch' \in {batch, failed}
        BY <1>3
    <2> HIDE DEF failed
    <2>1. RowFits(batch') /\ (batch'.status = "completed" => batch.status = "completed")
        BY <1>1, <2>3, <2>4 DEF RowFits
    <2> QED
        BY <1>1, <1>3, <2>1, NoRunFits, BFits
<1> QED
    BY <1>2, <1>3 DEF StartBatch, SaveOr

LEMMA BInvNextMessage == ASSUME BInv, NextMessage PROVE BInv' /\ Calm
<1>1. run.at = "next" /\ UNCHANGED <<flag, stopped>> /\ RowFits(batch) /\ RowFits(run.copy)
      /\ run.copy.status # "completed"
    BY DEF NextMessage, BInv, RowFits
<1>2. CASE FinishBatch(run.copy)
    BY <1>1, <1>2, Finishes, BFits
<1>3. CASE MessageFailed
    BY <1>1, <1>3, FailedNotes, BFits
<1>4. ASSUME flag = "go", NEW place \in {"finding file", "sending"},
             run' = [run EXCEPT !.at = place], UNCHANGED batch
      PROVE  BInv' /\ Calm
    <2>1. run' = [at |-> place, of |-> run.of, copy |-> run.copy] /\ ~stopped
        BY <1>4 DEF BInv
    <2> QED
        BY <1>1, <1>4, <2>1, BGoes
<1> QED
    BY <1>2, <1>3, <1>4 DEF NextMessage, IsCancelled

LEMMA BInvFindFile == ASSUME BInv, FindFile PROVE BInv' /\ Calm
<1>1. run.at = "finding file" /\ UNCHANGED <<flag, stopped>> /\ RowFits(batch)
      /\ RowFits(run.copy) /\ run.copy.status # "completed"
    BY DEF FindFile, BInv, RowFits
<1>2. CASE MessageFailed
    BY <1>1, <1>2, FailedNotes, BFits
<1>3. CASE run' = [run EXCEPT !.at = "sending"] /\ UNCHANGED batch
    <2>1. run' = [at |-> "sending", of |-> run.of, copy |-> run.copy]
        BY <1>3 DEF BInv
    <2> QED
        BY <1>1, <1>3, <2>1, BGoes
<1> QED
    BY <1>2, <1>3 DEF FindFile

LEMMA BInvMessageReturns == ASSUME BInv, MessageReturns PROVE BInv' /\ Calm
<1>1. UNCHANGED <<flag, stopped>> /\ RowFits(batch)
      /\ RowFits(run.copy) /\ run.copy.status # "completed"
    BY DEF MessageReturns, BInv, RowFits
<1>2. MessageSent \/ MessageFailed
    BY DEF MessageReturns
<1> QED
    BY <1>1, <1>2, SentNotes, FailedNotes, BFits

\* A run ends, and its flag with it.
LEMMA BInvEnds ==
    ASSUME BInv, run' = NoRun, flag' = "none", UNCHANGED <<batch, stopped>> PROVE BInv' /\ Calm
    BY NoRunIsOne DEF BInv, Calm, HasStatus

LEMMA BInvStep == ASSUME IInv, BInv, [Next]_vars PROVE BInv' /\ Calm
<1>1. ASSUME NEW r \in 1..Requests, NEW op \in Ops, Ask(r, op) PROVE BInv' /\ Calm
    BY <1>1, BFrame DEF Ask, batchVars
<1>2. ASSUME NEW r \in 1..Requests, AskBatch(r) \/ AskCancel(r) PROVE BInv' /\ Calm
    BY <1>2, BFrame DEF AskBatch, AskCancel, batchVars
<1>3. ASSUME NEW r \in 1..Requests,
             \/ Hooked(r) \/ GetEngine(r) \/ BadMedia(r) \/ SaveOutgoing(r) \/ Find(r)
             \/ Carry(r) \/ Returns(r) \/ Rejects(r) \/ MarkSent(r) \/ MarkFailed(r)
             \/ Told(r)
      PROVE  BInv' /\ Calm
    BY <1>3, BFrame DEF Hooked, GetEngine, BadMedia, SaveOutgoing, Find, Carry, Returns, Rejects,
                        MarkSent, MarkFailed, Told, batchVars
<1>4. ASSUME NEW r \in 1..Requests, CreateBatch(r) \/ CancelBatch(r) PROVE BInv' /\ Calm
    BY <1>4, BInvCreateBatch, BInvCancelBatch
<1>5. CASE Process
    BY <1>5, BInvProcessBatch, BInvStartBatch, BInvNextMessage, BInvFindFile, BFrame,
       BInvMessageReturns, BInvEnds DEF Process, CarryMessage, LeaveBatch
<1>6. CASE Started \/ Connected \/ Stopped
    BY <1>6, BFrame DEF Started, Connected, Stopped, batchVars
<1>7. CASE Restart
    BY <1>7, BInvEnds DEF Restart
<1>8. CASE UNCHANGED vars
    BY <1>8, BFrame DEF vars
<1> QED
    BY <1>1, <1>2, <1>3, <1>4, <1>5, <1>6, <1>7, <1>8 DEF Next, Handle

\* Both invariants together are inductive.
LEMMA SendingInvariant == Spec => [](IInv /\ BInv)
<1>1. Init => IInv /\ BInv
    BY IInvInit, BInvInit
<1>2. IInv /\ BInv /\ [Next]_vars => (IInv /\ BInv)'
    BY IInvStep, BInvStep
<1> QED
    BY <1>1, <1>2, PTL DEF Spec

\* A message has its row before WhatsApp carries it out, and SENT is written only afterwards
\* (message.service.ts, saveOutgoingMessage before the engine's call), in every run.
THEOREM SendingLeavesNothingUnrecorded == Spec => []NothingUnrecorded
<1>1. IInv => NothingUnrecorded
    BY DEF IInv, Good, NothingUnrecorded
<1> QED
    BY <1>1, SendingInvariant, PTL

\* Whatever is answered as done has been done (message.service.ts, the controllers of the
\* operations and both adapters), in every run.
THEOREM SendingAnswersTruly == Spec => []DoneMeansDone
<1>1. IInv => DoneMeansDone
    BY DEF IInv, Good, DoneMeansDone, IsIgnored
<1> QED
    BY <1>1, SendingInvariant, PTL

\* After a cancel that came while a batch was being sent no further message is begun and the
\* batch is not reported as completed (bulk-message.service.ts, the flag), in every run.
THEOREM SendingStopsOnCancel == Spec => CancelStops
<1>1. IInv /\ BInv /\ [Next]_vars =>
        [stopped => /\ run'.at \in {"finding file", "sending"} => run.at # "next"
                    /\ batch'.status = "completed" => batch.status = "completed"]_vars
    BY BInvStep DEF Calm
<1> QED
    BY <1>1, SendingInvariant, PTL DEF Spec, CancelStops

-----------------------------------------------------------------------------
(* Types, and the counters of the batch.                                    *)

\* A row of a batch, by its fields.
Row(status, total, sent, failed, pending, cancelled, results, index, stop) ==
    [status |-> status, total |-> total, sent |-> sent, failed |-> failed, pending |-> pending,
     cancelled |-> cancelled, results |-> results, index |-> index, stop |-> stop]

\* The counters of a row add up, and only a cancel counts messages as cancelled.
RowOK(c) ==
    /\ c \in BatchRows
    /\ c.sent + c.failed + c.pending + c.cancelled = c.total
    /\ c.status # "cancelled" => c.cancelled = 0

\* The copy of a run has never been cancelled, and knows what there is a result for.
CopyOK(c) ==
    /\ RowOK(c) /\ c.status # "cancelled"
    /\ c.sent + c.failed = c.results /\ c.index <= c.total

\* A run counts on from what it has noted, whatever has been written to the row meanwhile.
RunOK ==
    /\ run.at \in {"none", "finding", "starting", "next", "finding file", "sending", "leaving"}
    /\ RowOK(run.copy)
    /\ run.at \in {"finding", "starting"} =>
          CopyOK(run.copy) /\ run.copy.index = 0 /\ run.copy.results = 0 /\ done = 0
    /\ run.at \in {"next", "finding file", "sending"} =>
          CopyOK(run.copy) /\ run.copy.index = run.copy.results /\ done = run.copy.results
    /\ run.at \in {"finding file", "sending"} => run.copy.index < run.copy.total

BatchOK ==
    /\ RowOK(batch) /\ (batch.status = "none" => batch.results = 0 /\ done = 0)
    /\ RunOK /\ done \in 0..Count
    /\ reached \subseteq 0..(Count - 1) /\ flag \in {"none", "go", "stop"} /\ stopped \in BOOLEAN

\* How far a row may be behind: it was saved after the first message and every SaveEvery ones.
IsBehind(k, saved) == saved = k \/ (k # 0 /\ k - saved <= (k - 1) % SaveEvery)
Undisturbed == used.faults = 0 /\ \A r \in 1..Requests : request[r].job # "cancel"
LagOK == Undisturbed => IsBehind(done, batch.results)

\* A request, with the row that a cancel has read.
Fine(q) ==
    /\ q.job \in Operations \cup {"none", "bulk", "cancel"} /\ q.at \in Places
    /\ q.answer \in {"none", "ok", "error", "lost"}
    /\ q.at = "unasked" => q.job = "none"
    /\ q.at = "reading" => RowOK(q.of)

Asked == \A r \in 1..Requests : Fine(request[r])

Around ==
    /\ kind \in Kinds /\ instances \in [1..MaxEngines -> {"connecting", "ready", "gone"}]
    /\ current \in {NoEngine} \cup 1..MaxEngines
    /\ \A r \in 1..Requests : message[r] \in MessageStatuses
    /\ carried \subseteq 1..Requests
    /\ used \in [faults : Nat, restarts : Nat]

CInv == Around /\ Asked /\ BatchOK /\ LagOK

\* What the provers need to know of a row.
LEMMA RowHas ==
    ASSUME NEW c \in BatchRows
    PROVE  /\ c = Row(c.status, c.total, c.sent, c.failed, c.pending, c.cancelled, c.results,
                      c.index, c.stop)
           /\ c.total \in 0..Count /\ c.sent \in 0..Count /\ c.failed \in 0..Count
           /\ c.pending \in 0..Count /\ c.cancelled \in 0..Count /\ c.results \in 0..Count
           /\ c.index \in 0..Count /\ c.stop \in BOOLEAN
           /\ c.status \in {"none", "pending", "processing", "completed", "cancelled", "failed"}
    BY DEF BatchRows, Row

LEMMA RowIsOne ==
    ASSUME NEW status \in {"none", "pending", "processing", "completed", "cancelled", "failed"},
           NEW total \in 0..Count, NEW sent \in 0..Count, NEW failed \in 0..Count,
           NEW pending \in 0..Count, NEW cancelled \in 0..Count, NEW results \in 0..Count,
           NEW index \in 0..Count, NEW stop \in BOOLEAN
    PROVE  Row(status, total, sent, failed, pending, cancelled, results, index, stop)
              \in BatchRows
    BY DEF BatchRows, Row

LEMMA RowFields ==
    ASSUME NEW status, NEW total, NEW sent, NEW failed, NEW pending, NEW cancelled, NEW results,
           NEW index, NEW stop, NEW c,
           c = Row(status, total, sent, failed, pending, cancelled, results, index, stop)
    PROVE  /\ c.status = status /\ c.total = total /\ c.sent = sent /\ c.failed = failed
           /\ c.pending = pending /\ c.cancelled = cancelled /\ c.results = results
           /\ c.index = index /\ c.stop = stop
    BY DEF Row

LEMMA RowExcept ==
    ASSUME NEW c \in BatchRows, NEW v
    PROVE  /\ [c EXCEPT !.status = v] = Row(v, c.total, c.sent, c.failed, c.pending, c.cancelled,
                                            c.results, c.index, c.stop)
           /\ [c EXCEPT !.index = v] = Row(c.status, c.total, c.sent, c.failed, c.pending,
                                           c.cancelled, c.results, v, c.stop)
    BY DEF BatchRows, Row

LEMMA CountIsNatural == Count \in Nat /\ SaveEvery \in Nat \ {0}
<1>1. Batch \in Seq(Sends)
    BY BatchAssumption
<1>2. Len(Batch) \in Nat
    BY <1>1
<1> QED
    BY <1>2, BatchAssumption DEF Count

\* Another status but "cancelled" does not touch the counters.
LEMMA StatusSet ==
    ASSUME NEW c, RowOK(c), NEW v \in {"pending", "processing", "completed", "failed"},
           c.status # "cancelled"
    PROVE  /\ RowOK([c EXCEPT !.status = v]) /\ [c EXCEPT !.status = v].status = v
           /\ [c EXCEPT !.status = v].results = c.results
           /\ [c EXCEPT !.status = v].index = c.index
           /\ [c EXCEPT !.status = v].total = c.total
           /\ CopyOK(c) => CopyOK([c EXCEPT !.status = v])
<1> DEFINE d == [c EXCEPT !.status = v]
<1>1. c \in BatchRows
    BY DEF RowOK
<1>2. d = Row(v, c.total, c.sent, c.failed, c.pending, c.cancelled, c.results, c.index, c.stop)
    BY <1>1, RowExcept
<1> HIDE DEF d
<1>7. /\ c.total \in 0..Count /\ c.sent \in 0..Count /\ c.failed \in 0..Count
      /\ c.pending \in 0..Count /\ c.cancelled \in 0..Count /\ c.results \in 0..Count
      /\ c.index \in 0..Count /\ c.stop \in BOOLEAN
    BY <1>1, RowHas
<1>3. d \in BatchRows
    BY <1>2, <1>7, RowIsOne
<1>4. /\ d.status = v /\ d.total = c.total /\ d.sent = c.sent /\ d.failed = c.failed
      /\ d.pending = c.pending /\ d.cancelled = c.cancelled /\ d.results = c.results
      /\ d.index = c.index
    BY <1>2, RowFields
<1>5. RowOK(d)
    BY <1>3, <1>4 DEF RowOK
<1>6. CopyOK(c) => CopyOK(d)
    BY <1>4, <1>5 DEF CopyOK
<1> QED
    BY <1>4, <1>5, <1>6 DEF d

\* The row of a batch that has just been made.
LEMMA NewRowIs ==
    ASSUME NEW size, NEW stop, NEW row,
           row = [NoBatch EXCEPT !.status = "pending", !.total = size, !.pending = size,
                                 !.stop = stop]
    PROVE  row = Row("pending", size, 0, 0, size, 0, 0, 0, stop)
<1> DEFINE one == [NoBatch EXCEPT !.status = "pending"]
           two == [one EXCEPT !.total = size]
           three == [two EXCEPT !.pending = size]
           no == FALSE
<1>10. NoBatch = Row("none", 0, 0, 0, 0, 0, 0, 0, no)
    BY DEF NoBatch, Row
<1>2. row = [three EXCEPT !.stop = stop]
    OBVIOUS
<1> HIDE DEF no
<1>1. one = Row("pending", 0, 0, 0, 0, 0, 0, 0, no)
    BY <1>10 DEF Row
<1> HIDE DEF one
<1>3. two = Row("pending", size, 0, 0, 0, 0, 0, 0, no)
    BY <1>1 DEF Row
<1> HIDE DEF two
<1>4. three = Row("pending", size, 0, 0, size, 0, 0, 0, no)
    BY <1>3 DEF Row
<1> HIDE DEF three
<1> QED
    BY <1>2, <1>4 DEF Row

LEMMA NewRow ==
    ASSUME NEW size \in {0, Count}, NEW stop \in BOOLEAN, NEW row,
           row = Row("pending", size, 0, 0, size, 0, 0, 0, stop)
    PROVE  /\ CopyOK(row) /\ row.status = "pending" /\ row.results = 0 /\ row.index = 0
<1>6. size \in 0..Count /\ 0 \in 0..Count
    BY CountIsNatural
<1>7. row \in BatchRows
    BY <1>6, RowIsOne
<1>8. /\ row.status = "pending" /\ row.total = size /\ row.sent = 0 /\ row.failed = 0
      /\ row.pending = size /\ row.cancelled = 0 /\ row.results = 0 /\ row.index = 0
    BY RowFields
<1>9. size \in Nat
    BY <1>6, CountIsNatural
<1> QED
    BY <1>7, <1>8, <1>9 DEF CopyOK, RowOK

\* The row that a cancel saves: what was pending is cancelled.
LEMMA CancelledAddsUp ==
    ASSUME NEW c, RowOK(c), c.status # "cancelled"
    PROVE  RowOK(CancelledCopy(c)) /\ CancelledCopy(c).status = "cancelled"
<1> DEFINE d == CancelledCopy(c)
           one == [c EXCEPT !.status = "cancelled"]
           two == [one EXCEPT !.cancelled = c.pending]
<1>1. c \in BatchRows /\ c.cancelled = 0
    BY DEF RowOK
<1>2. d = [two EXCEPT !.pending = 0]
    BY DEF CancelledCopy
<1>3. one = Row("cancelled", c.total, c.sent, c.failed, c.pending, c.cancelled, c.results,
                c.index, c.stop)
    BY <1>1, RowExcept
<1> HIDE DEF one
<1>4. two = Row("cancelled", c.total, c.sent, c.failed, c.pending, c.pending, c.results, c.index,
                c.stop)
    BY <1>3 DEF Row
<1> HIDE DEF two, d
<1>5. d = Row("cancelled", c.total, c.sent, c.failed, 0, c.pending, c.results, c.index, c.stop)
    BY <1>2, <1>4 DEF Row
<1>6. 0 \in 0..Count
    BY CountIsNatural
<1>7. d \in BatchRows
    BY <1>1, <1>5, <1>6, RowHas, RowIsOne
<1>8. /\ d.status = "cancelled" /\ d.total = c.total /\ d.sent = c.sent /\ d.failed = c.failed
      /\ d.pending = 0 /\ d.cancelled = c.pending
    BY <1>5, RowFields
<1>9. /\ c.sent \in Nat /\ c.failed \in Nat /\ c.pending \in Nat /\ c.total \in Nat
      /\ c.sent + c.failed + c.pending + 0 = c.total
    BY <1>1, RowHas, CountIsNatural DEF RowOK
<1>10. d.sent + d.failed + d.pending + d.cancelled = d.total
    BY <1>8, <1>9
<1> QED
    BY <1>7, <1>8, <1>10 DEF RowOK, d

\* What a copy with one more result is: MessageSent and MessageFailed take the message off the
\* pending ones and count it as sent or failed.
Counted(c, d) ==
    /\ RowOK(d) /\ d.status \in {c.status, "failed"} /\ d.sent + d.failed = d.results
    /\ d.results = c.results + 1 /\ d.index = c.index /\ d.total = c.total

LEMMA CountsUp ==
    ASSUME NEW c, CopyOK(c), c.index = c.results, c.index < c.total,
           NEW sent, NEW failed, NEW status \in {c.status, "failed"}, NEW d,
           \/ sent = c.sent + 1 /\ failed = c.failed
           \/ sent = c.sent /\ failed = c.failed + 1,
           d = Row(status, c.total, sent, failed, c.pending - 1, c.cancelled, c.results + 1,
                   c.index, c.stop)
    PROVE  Counted(c, d)
<1>1. /\ c \in BatchRows /\ c.sent + c.failed + c.pending + c.cancelled = c.total
      /\ c.cancelled = 0 /\ c.sent + c.failed = c.results /\ c.status # "cancelled"
    BY DEF CopyOK, RowOK
<1>2. /\ c.total \in Nat /\ c.total <= Count /\ c.sent \in Nat /\ c.failed \in Nat
      /\ c.pending \in Nat /\ c.pending <= Count /\ c.results \in Nat /\ c.index \in Nat
    BY <1>1, RowHas, CountIsNatural
<1>3. c.pending >= 1 /\ c.results + 1 <= c.total
    BY <1>1, <1>2
<1>4. /\ sent \in 0..Count /\ failed \in 0..Count /\ c.pending - 1 \in 0..Count
      /\ c.results + 1 \in 0..Count
    BY <1>1, <1>2, <1>3, CountIsNatural
<1>5. status \in {"none", "pending", "processing", "completed", "cancelled", "failed"}
    BY <1>1, RowHas
<1>8. c.total \in 0..Count /\ c.cancelled \in 0..Count /\ c.index \in 0..Count /\ c.stop \in BOOLEAN
    BY <1>1, RowHas
<1>6. d \in BatchRows
    BY <1>4, <1>5, <1>8, RowIsOne
<1>7. /\ d.status = status /\ d.total = c.total /\ d.sent = sent /\ d.failed = failed
      /\ d.pending = c.pending - 1 /\ d.cancelled = 0 /\ d.results = c.results + 1
      /\ d.index = c.index
    BY <1>1, RowFields
<1>9. d.sent + d.failed + d.pending + d.cancelled = d.total /\ d.sent + d.failed = d.results
    BY <1>1, <1>2, <1>7
<1> QED
    BY <1>6, <1>7, <1>9 DEF Counted, RowOK

LEMMA SentCounts ==
    ASSUME NEW c, CopyOK(c), c.index = c.results, c.index < c.total
    PROVE  Counted(c, [c EXCEPT !.sent = @ + 1, !.pending = @ - 1, !.results = @ + 1])
<1> DEFINE one == [c EXCEPT !.sent = c.sent + 1]
           two == [one EXCEPT !.pending = c.pending - 1]
           three == [two EXCEPT !.results = c.results + 1]
<1>1. c = Row(c.status, c.total, c.sent, c.failed, c.pending, c.cancelled, c.results, c.index,
              c.stop)
    BY RowHas DEF CopyOK, RowOK
<1>2. one = Row(c.status, c.total, c.sent + 1, c.failed, c.pending, c.cancelled, c.results,
                c.index, c.stop)
    BY <1>1 DEF Row
<1>5. three = [c EXCEPT !.sent = @ + 1, !.pending = @ - 1, !.results = @ + 1]
    BY <1>1 DEF Row
<1> HIDE DEF one
<1>3. two = Row(c.status, c.total, c.sent + 1, c.failed, c.pending - 1, c.cancelled, c.results,
                c.index, c.stop)
    BY <1>2 DEF Row
<1> HIDE DEF two
<1>4. three = Row(c.status, c.total, c.sent + 1, c.failed, c.pending - 1, c.cancelled,
                  c.results + 1, c.index, c.stop)
    BY <1>3 DEF Row
<1> HIDE DEF three
<1>6. Counted(c, three)
    BY <1>4, CountsUp
<1> QED
    BY <1>5, <1>6

LEMMA FailedCounts ==
    ASSUME NEW c, CopyOK(c), c.index = c.results, c.index < c.total
    PROVE  Counted(c, [c EXCEPT !.failed = @ + 1, !.pending = @ - 1, !.results = @ + 1,
                                !.status = IF c.stop THEN "failed" ELSE @])
<1> DEFINE status == IF c.stop THEN "failed" ELSE c.status
           one == [c EXCEPT !.failed = c.failed + 1]
           two == [one EXCEPT !.pending = c.pending - 1]
           three == [two EXCEPT !.results = c.results + 1]
           four == [three EXCEPT !.status = status]
<1>1. c = Row(c.status, c.total, c.sent, c.failed, c.pending, c.cancelled, c.results, c.index,
              c.stop)
    BY RowHas DEF CopyOK, RowOK
<1>6. four = [c EXCEPT !.failed = @ + 1, !.pending = @ - 1, !.results = @ + 1,
                       !.status = IF c.stop THEN "failed" ELSE @]
    BY <1>1 DEF Row
<1>7. status \in {c.status, "failed"}
    OBVIOUS
<1> HIDE DEF status
<1>2. one = Row(c.status, c.total, c.sent, c.failed + 1, c.pending, c.cancelled, c.results,
                c.index, c.stop)
    BY <1>1 DEF Row
<1> HIDE DEF one
<1>3. two = Row(c.status, c.total, c.sent, c.failed + 1, c.pending - 1, c.cancelled, c.results,
                c.index, c.stop)
    BY <1>2 DEF Row
<1> HIDE DEF two
<1>4. three = Row(c.status, c.total, c.sent, c.failed + 1, c.pending - 1, c.cancelled,
                  c.results + 1, c.index, c.stop)
    BY <1>3 DEF Row
<1> HIDE DEF three
<1>5. four = Row(status, c.total, c.sent, c.failed + 1, c.pending - 1, c.cancelled,
                 c.results + 1, c.index, c.stop)
    BY <1>4 DEF Row
<1> HIDE DEF four
<1>8. Counted(c, four)
    BY <1>5, <1>7, CountsUp
<1> QED
    BY <1>6, <1>8

-----------------------------------------------------------------------------
(* How far the row may be behind.                                           *)

LEMMA SmallProduct ==
    ASSUME NEW d \in Int, NEW s \in Nat \ {0}, s * d < s, s * d > 0 - s PROVE d = 0
<1>1. ~(d >= 1)
    <2>1. d >= 1 => s * d >= s * 1
        OBVIOUS
    <2> QED
        BY <2>1
<1>2. ~(d <= 0 - 1)
    <2>1. d <= 0 - 1 => s * d <= s * (0 - 1)
        OBVIOUS
    <2> QED
        BY <2>1
<1> QED
    BY <1>1, <1>2

\* A remainder goes up by one until it is zero again.
LEMMA RemainderGoesUp ==
    ASSUME NEW k \in Nat, NEW s \in Nat \ {0}, (k + 1) % s # 0
    PROVE  (k + 1) % s = (k % s) + 1
<1> DEFINE q == k \div s
           r == k % s
           u == (k + 1) \div s
           v == (k + 1) % s
<1>1. /\ q \in Int /\ r \in 0..(s - 1) /\ k = s * q + r
      /\ u \in Int /\ v \in 0..(s - 1) /\ k + 1 = s * u + v /\ v # 0
    OBVIOUS
<1> HIDE DEF q, r, u, v
<1>2. s * (u - q) = s * u - s * q
    BY <1>1
<1>3. s * (u - q) = r + 1 - v
    BY <1>1, <1>2
<1>4. s * (u - q) < s /\ s * (u - q) > 0 - s
    BY <1>1, <1>3
<1>5. u - q \in Int
    BY <1>1
<1>6. u - q = 0
    BY <1>4, <1>5, SmallProduct
<1>7. s * (u - q) = 0
    BY <1>6
<1>8. v = r + 1
    BY <1>1, <1>3, <1>7
<1> QED
    BY <1>8 DEF r, v

\* One more result that is not saved, and one that is behind no further than it may be.
LEMMA LagGrows ==
    ASSUME NEW k \in Nat, NEW saved \in Nat, IsBehind(k, saved), k % SaveEvery # 0
    PROVE  IsBehind(k + 1, saved)
<1>1. SaveEvery \in Nat \ {0} /\ k % SaveEvery \in Nat /\ (k + 1) - 1 = k /\ k + 1 # 0
    BY CountIsNatural
<1>2. CASE saved = k
    BY <1>1, <1>2 DEF IsBehind
<1>3. CASE k # 0 /\ k - saved <= (k - 1) % SaveEvery
    <2>1. k - 1 \in Nat /\ ((k - 1) + 1) % SaveEvery # 0 /\ (k - 1) + 1 = k
        BY <1>3
    <2>2. k % SaveEvery = ((k - 1) % SaveEvery) + 1
        BY <1>1, <2>1, RemainderGoesUp
    <2>3. (k - 1) % SaveEvery \in Nat
        BY <1>1, <2>1
    <2>4. (k + 1) - saved <= k % SaveEvery
        BY <1>1, <1>3, <2>2, <2>3
    <2> QED
        BY <1>1, <2>4 DEF IsBehind
<1> QED
    BY <1>2, <1>3 DEF IsBehind

LEMMA LagIsShort ==
    ASSUME NEW k \in Nat, NEW saved \in Nat, IsBehind(k, saved) PROVE k - saved < SaveEvery
<1>1. SaveEvery \in Nat \ {0}
    BY CountIsNatural
<1>2. CASE saved = k
    BY <1>1, <1>2
<1>3. CASE k # 0 /\ k - saved <= (k - 1) % SaveEvery
    <2>1. k - 1 \in Nat
        BY <1>3
    <2>2. (k - 1) % SaveEvery \in 0..(SaveEvery - 1)
        BY <1>1, <2>1
    <2> QED
        BY <1>1, <1>3, <2>2
<1> QED
    BY <1>2, <1>3 DEF IsBehind

-----------------------------------------------------------------------------
(* The requests keep their types, and what they ask for.                    *)

\* What a step may make of request r.
Moves(r, q) == Fine(q) /\ (request[r].at # "unasked" => q.job = request[r].job)
Moved == \A r \in 1..Requests : Moves(r, request'[r])

LEMMA OneMoved ==
    ASSUME IInv, Asked, NEW r \in 1..Requests, NEW q, Moves(r, q), Becomes(r, q) PROVE Moved
<1>1. request'[r] = q /\ \A s \in 1..Requests \ {r} : request'[s] = request[s]
    BY DEF IInv, Becomes
<1>2. \A s \in 1..Requests : Moves(s, request[s])
    BY DEF Asked, Moves
<1> QED
    BY <1>1, <1>2 DEF Moved

LEMMA NoneMoved == ASSUME Asked, UNCHANGED request PROVE Moved
    BY DEF Asked, Moved, Moves

LEMMA PlacesAre ==
    Places = {"unasked", "hooks", "asked", "recording", "finding", "sending", "marking",
              "failing", "telling", "free", "taken", "reading", "answered"}
    BY DEF Places

LEMMA AtIsFine ==
    ASSUME NEW q, IsRequest(q), Fine(q), NEW place \in Places \ {"unasked", "reading"}
    PROVE  Fine(At(q, place)) /\ At(q, place).job = q.job
<1>1. At(q, place) = [job |-> q.job, at |-> place, of |-> q.of, answer |-> q.answer]
    BY MovesTo
<1> QED
    BY <1>1 DEF Fine

LEMMA AnsweredIsFine ==
    ASSUME NEW q, IsRequest(q), Fine(q), NEW what \in {"none", "ok", "error", "lost"}
    PROVE  Fine(Answered(q, what)) /\ Answered(q, what).job = q.job
<1>1. Answered(q, what) = [job |-> q.job, at |-> "answered", of |-> NoEngine, answer |-> what]
    BY AnswersWith
<1> QED
    BY <1>1, PlacesAre DEF Fine

LEMMA ThrownIsFine ==
    ASSUME NEW q, IsRequest(q), Fine(q) PROVE Fine(Thrown(q)) /\ Thrown(q).job = q.job
    BY AtIsFine, AnsweredIsFine, PlacesAre DEF Thrown

LEMMA CalledIsFine ==
    ASSUME NEW q, IsRequest(q), Fine(q), NEW called \in Called(q)
    PROVE  Fine(called) /\ called.job = q.job
<1>1. PICK way \in Ways(kind, q.job) :
        called = CASE way = "throws" -> Thrown(q)
                   [] way = "empty" ->
                        IF q.job \in NeedsResult \/ (kind = "wwjs" /\ ~Ready(q.of))
                        THEN Answered(q, "error") ELSE Answered(q, "ok")
                   [] ~Ready(q.of) -> Thrown(q)
                   [] way = "finds" -> At(q, "finding")
                   [] OTHER -> At(q, "sending")
    BY DEF Called
<1>2. \/ called = Thrown(q) \/ called = Answered(q, "error") \/ called = Answered(q, "ok")
      \/ called = At(q, "finding") \/ called = At(q, "sending")
    BY <1>1
<1> QED
    BY <1>2, ThrownIsFine, AnsweredIsFine, AtIsFine, PlacesAre

LEMMA MovedAsk == ASSUME IInv, Asked, NEW r \in 1..Requests, NEW op \in Ops, Ask(r, op) PROVE Moved
<1> DEFINE place == IF op = "text" THEN "hooks" ELSE "asked"
           one == [Unasked EXCEPT !.job = op]
           q == [one EXCEPT !.at = place]
<1>1. request[r].at = "unasked" /\ Becomes(r, q)
    BY DEF Ask, Unasked
<1>2. one = [job |-> op, at |-> "unasked", of |-> NoEngine, answer |-> "none"]
    BY DEF Unasked
<1>3. place \in {"hooks", "asked"}
    OBVIOUS
<1> HIDE DEF one, place
<1>4. q = [job |-> op, at |-> place, of |-> NoEngine, answer |-> "none"]
    BY <1>2
<1>5. op \in Operations
    BY OpsAssumption
<1> HIDE DEF q
<1>6. Fine(q)
    BY <1>3, <1>4, <1>5, PlacesAre DEF Fine
<1> QED
    BY <1>1, <1>6, OneMoved DEF Moves

LEMMA MovedAskBatch == ASSUME IInv, Asked, NEW r \in 1..Requests, AskBatch(r) PROVE Moved
<1> DEFINE asked == [Unasked EXCEPT !.job = "bulk"]
           q == IF current = NoEngine THEN Answered(asked, "error")
                ELSE At(asked, IF batch.status = "none" THEN "free" ELSE "taken")
<1>1. request[r].at = "unasked" /\ Becomes(r, q)
    BY DEF AskBatch
<1>2. asked = [job |-> "bulk", at |-> "unasked", of |-> NoEngine, answer |-> "none"]
    BY DEF Unasked
<1> HIDE DEF asked
<1>3. IsRequest(asked) /\ asked.job = "bulk" /\ asked.answer = "none" /\ asked.of = NoEngine
    BY <1>2 DEF IsRequest
<1>4. \E place \in {"free", "taken", "answered"}, answer \in {"none", "error"} :
        q = [job |-> "bulk", at |-> place, of |-> NoEngine, answer |-> answer]
    BY <1>3, MovesTo, AnswersWith
<1> HIDE DEF q
<1>5. Fine(q)
    BY <1>4, PlacesAre DEF Fine
<1> QED
    BY <1>1, <1>5, OneMoved DEF Moves

LEMMA MovedAskCancel ==
    ASSUME IInv, Asked, BatchOK, NEW r \in 1..Requests, AskCancel(r) PROVE Moved
<1> DEFINE one == [Unasked EXCEPT !.job = "cancel"]
           two == [one EXCEPT !.at = "reading"]
           q == [two EXCEPT !.of = batch]
<1>1. request[r].at = "unasked" /\ Becomes(r, q)
    BY DEF AskCancel, Unasked
<1>2. one = [job |-> "cancel", at |-> "unasked", of |-> NoEngine, answer |-> "none"]
    BY DEF Unasked
<1> HIDE DEF one
<1>3. two = [job |-> "cancel", at |-> "reading", of |-> NoEngine, answer |-> "none"]
    BY <1>2
<1> HIDE DEF two
<1>4. q = [job |-> "cancel", at |-> "reading", of |-> batch, answer |-> "none"]
    BY <1>3
<1> HIDE DEF q
<1>5. Fine(q)
    BY <1>4, PlacesAre DEF Fine, BatchOK
<1> QED
    BY <1>1, <1>5, OneMoved DEF Moves

\* What the handlers make of the request they handle.
LEMMA MovedHandle == ASSUME IInv, Asked, NEW r \in 1..Requests, Handle(r) PROVE Moved
<1> DEFINE q == request[r]
<1>1. IsRequest(q) /\ Fine(q)
    BY DEF IInv, Good, Asked
<1>2. ASSUME NEW p, Fine(p), p.job = q.job, Becomes(r, p) PROVE Moved
    BY <1>2, OneMoved DEF Moves
<1>3. ASSUME NEW place \in Places \ {"unasked", "reading"}, Becomes(r, At(q, place)) PROVE Moved
    BY <1>1, <1>2, <1>3, AtIsFine
<1>4. ASSUME NEW what \in {"ok", "error"}, Becomes(r, Answered(q, what)) PROVE Moved
    BY <1>1, <1>2, <1>4, AnsweredIsFine
<1>5. ASSUME Becomes(r, Thrown(q)) PROVE Moved
    BY <1>1, <1>2, <1>5, ThrownIsFine
<1>6. CASE Hooked(r)
    BY <1>3, <1>4, <1>6, PlacesAre DEF Hooked
<1>7. CASE GetEngine(r)
    <2> DEFINE p == [q EXCEPT !.of = current]
    <2>1. /\ IF current = NoEngine THEN Becomes(r, Answered(p, "error"))
             ELSE IF p.job \in Sends THEN Becomes(r, At(p, "recording"))
             ELSE \E called \in Called(p) : Becomes(r, called)
          /\ q.at = "asked"
        BY <1>7 DEF GetEngine
    <2>2. p = [job |-> q.job, at |-> q.at, of |-> current, answer |-> q.answer]
        BY <1>1 DEF IsRequest
    <2> HIDE DEF p
    <2>3. IsRequest(p) /\ Fine(p) /\ p.job = q.job
        BY <1>1, <2>1, <2>2 DEF IsRequest, Fine
    <2>4. ASSUME Becomes(r, Answered(p, "error")) PROVE Moved
        BY <1>2, <2>3, <2>4, AnsweredIsFine
    <2>5. ASSUME Becomes(r, At(p, "recording")) PROVE Moved
        BY <1>2, <2>3, <2>5, AtIsFine, PlacesAre
    <2>6. ASSUME NEW called \in Called(p), Becomes(r, called) PROVE Moved
        BY <1>2, <2>3, <2>6, CalledIsFine
    <2> QED
        BY <2>1, <2>4, <2>5, <2>6
<1>8. CASE BadMedia(r)
    BY <1>4, <1>8 DEF BadMedia
<1>9. CASE SaveOutgoing(r)
    <2>1. ASSUME NEW called \in Called(q), Becomes(r, called) PROVE Moved
        BY <1>1, <1>2, <2>1, CalledIsFine
    <2> QED
        BY <1>4, <1>9, <2>1 DEF SaveOutgoing
<1>10. CASE Find(r)
    BY <1>3, <1>4, <1>5, <1>10, PlacesAre DEF Find
<1>11. CASE Carry(r)
    BY <1>11, NoneMoved DEF Carry
<1>12. CASE Returns(r)
    BY <1>3, <1>4, <1>12, PlacesAre DEF Returns
<1>13. CASE Rejects(r)
    BY <1>4, <1>5, <1>13 DEF Rejects
<1>0. ASSUME NEW what \in {"ok", "error"}, Becomes(r, Concluded(q, what)) PROVE Moved
    <2> DEFINE p == [job |-> q.job, at |-> "telling", of |-> q.of, answer |-> what]
    <2>1. Fine(p) /\ p.job = q.job
        BY <1>1, PlacesAre DEF Fine
    <2>2. CASE Concluded(q, what) = Answered(q, what)
        BY <1>0, <1>4, <2>2
    <2>3. CASE Concluded(q, what) = p
        BY <1>0, <1>2, <2>1, <2>3
    <2> QED
        BY <1>1, <2>2, <2>3, ConcludesWith
<1>14. CASE MarkSent(r)
    BY <1>0, <1>3, <1>14, PlacesAre DEF MarkSent
<1>15. CASE MarkFailed(r)
    BY <1>0, <1>4, <1>15 DEF MarkFailed
<1>18. CASE Told(r)
    <2>1. q.answer \in {"none", "ok", "error", "lost"} /\ Becomes(r, Answered(q, q.answer))
        BY <1>1, <1>18 DEF Told, Fine
    <2> QED
        BY <1>1, <1>2, <2>1, AnsweredIsFine
<1>16. CASE CreateBatch(r)
    BY <1>4, <1>16 DEF CreateBatch, SaveOr
<1>17. CASE CancelBatch(r)
    BY <1>4, <1>17 DEF CancelBatch, SaveOr
<1> QED
    BY <1>6, <1>7, <1>8, <1>9, <1>10, <1>11, <1>12, <1>13, <1>14, <1>15, <1>16, <1>17,
       <1>18 DEF Handle

LEMMA MovedRestart == ASSUME IInv, Asked, Restart PROVE Moved
<1> SUFFICES ASSUME NEW r \in 1..Requests PROVE Moves(r, request'[r])
    BY DEF Moved
<1>1. IsRequest(request[r]) /\ Fine(request[r])
    BY DEF IInv, Good, Asked
<1>2. request'[r] \in {request[r], Answered(request[r], "lost")}
    BY DEF Restart
<1> QED
    BY <1>1, <1>2, AnsweredIsFine DEF Moves

LEMMA RequestsStep == ASSUME IInv, Asked, BatchOK, [Next]_vars PROVE Moved
<1>1. ASSUME NEW r \in 1..Requests, NEW op \in Ops, Ask(r, op) PROVE Moved
    BY <1>1, MovedAsk
<1>2. ASSUME NEW r \in 1..Requests, AskBatch(r) \/ AskCancel(r) \/ Handle(r) PROVE Moved
    BY <1>2, MovedAskBatch, MovedAskCancel, MovedHandle
<1>3. CASE Process
    BY <1>3, NoneMoved DEF Process, ProcessBatch, StartBatch, NextMessage, FindFile,
                           CarryMessage, MessageReturns, LeaveBatch, sendVars
<1>4. CASE Started \/ Connected \/ Stopped
    BY <1>4, NoneMoved DEF Started, Connected, Stopped, sendVars
<1>5. CASE Restart
    BY <1>5, MovedRestart
<1>6. CASE UNCHANGED vars
    BY <1>6, NoneMoved DEF vars
<1> QED
    BY <1>1, <1>2, <1>3, <1>4, <1>5, <1>6 DEF Next

-----------------------------------------------------------------------------
(* What is around them keeps its types.                                     *)

AroundNext == Around' /\ used'.faults >= used.faults

LEMMA UseCounts ==
    ASSUME used \in [faults : Nat, restarts : Nat],
           UNCHANGED used \/ Use("faults") \/ Use("restarts")
    PROVE  /\ used' \in [faults : Nat, restarts : Nat] /\ used'.faults >= used.faults
           /\ Use("faults") => used'.faults # 0
    BY DEF Use

\* A handler that leaves the engines alone.
LEMMA AroundSame ==
    ASSUME Around, UNCHANGED <<kind, instances, current>>,
           UNCHANGED carried \/ (\E r \in 1..Requests : carried' = carried \cup {r}),
           \/ UNCHANGED message
           \/ \E r \in 1..Requests, m \in MessageStatuses : message' = [message EXCEPT ![r] = m],
           UNCHANGED used \/ Use("faults") \/ Use("restarts")
    PROVE  AroundNext
<1>1. \A r \in 1..Requests : message'[r] \in MessageStatuses
    <2>1. CASE UNCHANGED message
        BY <2>1 DEF Around
    <2>2. ASSUME NEW s \in 1..Requests, NEW m \in MessageStatuses,
                 message' = [message EXCEPT ![s] = m], NEW r \in 1..Requests
          PROVE  message'[r] \in MessageStatuses
        BY <2>2 DEF Around
    <2> QED
        BY <2>1, <2>2
<1>2. carried' \subseteq 1..Requests
    BY DEF Around
<1>3. used' \in [faults : Nat, restarts : Nat] /\ used'.faults >= used.faults
    BY UseCounts DEF Around
<1> QED
    BY <1>1, <1>2, <1>3 DEF Around, AroundNext

LEMMA AroundEngines ==
    ASSUME Around, Started \/ Connected \/ Stopped \/ Restart PROVE AroundNext
<1>1. instances \in [1..MaxEngines -> {"connecting", "ready", "gone"}]
    BY DEF Around
<1>2. instances' \in [1..MaxEngines -> {"connecting", "ready", "gone"}]
    BY <1>1 DEF Started, Connected, Stopped, Restart
<1>3. current' \in {NoEngine} \cup 1..MaxEngines
    BY DEF Around, Started, Connected, Stopped, Restart
<1>4. UNCHANGED <<kind, message, carried>> /\ (UNCHANGED used \/ Use("restarts"))
    BY DEF Started, Connected, Stopped, Restart, sendVars
<1>5. used' \in [faults : Nat, restarts : Nat] /\ used'.faults >= used.faults
    BY <1>4, UseCounts DEF Around
<1> QED
    BY <1>2, <1>3, <1>4, <1>5 DEF Around, AroundNext

LEMMA AroundHandle == ASSUME Around, NEW r \in 1..Requests, Handle(r) PROVE AroundNext
<1>1. \A m \in {"pending", "sent", "failed"} : m \in MessageStatuses
    BY DEF MessageStatuses
<1>2. /\ UNCHANGED <<kind, instances, current>>
      /\ UNCHANGED carried \/ carried' = carried \cup {r}
      /\ UNCHANGED used \/ Use("faults")
    BY DEF Handle, Hooked, GetEngine, BadMedia, SaveOutgoing, Find, Carry, Returns, Rejects,
           MarkSent, MarkFailed, Told, CreateBatch, CancelBatch, SaveOr, engineVars, batchVars
<1>3. \/ UNCHANGED message
      \/ \E m \in {"pending", "sent", "failed"} : message' = [message EXCEPT ![r] = m]
    BY DEF Handle, Hooked, GetEngine, BadMedia, SaveOutgoing, Find, Carry, Returns, Rejects,
           MarkSent, MarkFailed, Told, CreateBatch, CancelBatch
<1> QED
    BY <1>1, <1>2, <1>3, AroundSame

LEMMA AroundProcess == ASSUME Around, Process PROVE AroundNext
<1>1. UNCHANGED <<kind, instances, current, message, carried>>
    BY DEF Process, ProcessBatch, StartBatch, NextMessage, FindFile, CarryMessage, MessageReturns,
           LeaveBatch, engineVars, sendVars
<1>2. UNCHANGED used \/ Use("faults")
    BY DEF Process, ProcessBatch, StartBatch, NextMessage, FindFile, CarryMessage, MessageReturns,
           LeaveBatch, MessageSent, MessageFailed, NoteResult, FinishBatch, SaveOr
<1> QED
    BY <1>1, <1>2, AroundSame

LEMMA AroundStep == ASSUME Around, [Next]_vars PROVE AroundNext
<1>1. ASSUME NEW r \in 1..Requests, NEW op \in Ops, Ask(r, op) PROVE AroundNext
    BY <1>1, AroundSame DEF Ask, engineVars
<1>2. ASSUME NEW r \in 1..Requests, AskBatch(r) \/ AskCancel(r) PROVE AroundNext
    BY <1>2, AroundSame DEF AskBatch, AskCancel, engineVars
<1>3. CASE UNCHANGED vars
    BY <1>3, AroundSame DEF vars
<1> QED
    BY <1>1, <1>2, <1>3, AroundHandle, AroundProcess, AroundEngines DEF Next

\* Nothing that has disturbed the batch is forgotten.
LEMMA DisturbedStays ==
    ASSUME Around, Asked, Moved, AroundNext, Undisturbed' PROVE Undisturbed
<1>1. used.faults = 0
    BY DEF Around, AroundNext, Undisturbed
<1>2. ASSUME NEW r \in 1..Requests PROVE request[r].job # "cancel"
    <2>1. request[r].at = "unasked" => request[r].job = "none"
        BY DEF Asked, Fine
    <2>2. request[r].at # "unasked" => request'[r].job = request[r].job
        BY DEF Moved, Moves
    <2>3. request'[r].job # "cancel"
        BY DEF Undisturbed
    <2> QED
        BY <2>1, <2>2, <2>3
<1> QED
    BY <1>1, <1>2 DEF Undisturbed

-----------------------------------------------------------------------------
(* The batch's counters.                                                    *)

LEMMA NoRunIsOK == ASSUME run' = NoRun, done' \in Nat PROVE RunOK'
<1> DEFINE none == FALSE
<1>1. NoBatch = Row("none", 0, 0, 0, 0, 0, 0, 0, none)
    BY DEF NoBatch, Row
<1>2. none \in BOOLEAN
    OBVIOUS
<1> HIDE DEF none
<1>3. 0 \in 0..Count
    BY CountIsNatural
<1>4. NoBatch \in BatchRows
    BY <1>1, <1>2, <1>3, RowIsOne
<1>5. RowOK(NoBatch)
    BY <1>1, <1>4, RowFields DEF RowOK
<1>6. run'.at = "none" /\ run'.copy = NoBatch
    BY NoRunIsOne
<1> QED
    BY <1>5, <1>6 DEF RunOK, RowOK, BatchRows

\* What a step of the run is to establish.
Counts ==
    /\ RowOK(batch') /\ batch'.status # "none" /\ RunOK' /\ done' \in 0..Count
    /\ Undisturbed /\ used'.faults = 0 => IsBehind(done', batch'.results)

\* A save failed: the run ends, and the row is as it was.
LEMMA CountsFault ==
    ASSUME Around, BatchOK, batch.status # "none", run' = NoRun, UNCHANGED batch,
           done' \in 0..Count, Use("faults")
    PROVE  Counts
<1>1. used'.faults # 0
    BY UseCounts DEF Around
<1>2. RunOK'
    BY CountIsNatural, NoRunIsOK
<1>3. RowOK(batch)
    BY DEF BatchOK
<1>4. RowOK(batch') /\ batch'.status # "none"
    BY <1>3
<1> QED
    BY <1>1, <1>2, <1>4 DEF Counts

\* The run goes on, or has ended its loop, with its row saved.
LEMMA CountsSaved ==
    ASSUME BInv, NEW copy, RowOK(copy), copy.status # "none", batch' = copy,
           NEW place \in {"starting", "next", "leaving"}, RunIs(place, copy),
           done' = copy.results,
           place = "starting" => CopyOK(copy) /\ copy.index = 0 /\ copy.results = 0,
           place = "next" => CopyOK(copy) /\ copy.index = copy.results
    PROVE  Counts
<1>1. run' = [at |-> place, of |-> run.of, copy |-> copy]
    BY RunBecomes
<1>2. copy.results \in 0..Count
    BY RowHas DEF RowOK
<1>3. run'.at = place /\ run'.copy = copy
    BY <1>1
<1>4. RunOK'
    BY <1>3 DEF RunOK, RowOK, CopyOK, BatchRows
<1>5. RowOK(batch') /\ batch'.status # "none"
    OBVIOUS
<1> QED
    BY <1>2, <1>4, <1>5 DEF Counts, IsBehind

LEMMA FinishCounts ==
    ASSUME Around, BInv, BatchOK, batch.status # "none", NEW copy, RowOK(copy),
           copy.status \notin {"none", "cancelled"}, done' = copy.results, FinishBatch(copy)
    PROVE  Counts
<1> DEFINE end == IF copy.failed > 0 /\ copy.sent = 0 THEN "failed" ELSE "completed"
           last == IF flag = "go" THEN [copy EXCEPT !.status = end] ELSE copy
<1>1. end \in {"pending", "processing", "completed", "failed"} /\ end # "none"
    OBVIOUS
<1>2. SaveOr(last, run' = NoRun, RunIs("leaving", last))
    BY DEF FinishBatch
<1> HIDE DEF end
<1>3. RowOK(last) /\ last.status # "none" /\ last.results = copy.results
    BY <1>1, StatusSet
<1> HIDE DEF last
<1>4. CASE batch' = last /\ RunIs("leaving", last)
    BY <1>3, <1>4, CountsSaved
<1>5. CASE Use("faults") /\ run' = NoRun /\ UNCHANGED batch
    <2>1. done' \in 0..Count
        BY RowHas DEF RowOK
    <2> QED
        BY <1>5, <2>1, CountsFault
<1> QED
    BY <1>2, <1>4, <1>5 DEF SaveOr

\* The copy that goes on to the next message.
LEMMA NextCopy ==
    ASSUME NEW c, CopyOK(c), c.status # "none", c.index = c.results, c.index < c.total,
           NEW d, Counted(c, d), d.status # "failed", NEW next, next = [d EXCEPT !.index = d.index + 1]
    PROVE  /\ CopyOK(next) /\ next.index = next.results /\ next.results = d.results
           /\ next.status # "none"
<1>1. /\ d \in BatchRows /\ d.status = c.status /\ d.sent + d.failed = d.results
      /\ d.results = c.index + 1 /\ d.index = c.index /\ d.total = c.total /\ RowOK(d)
    BY DEF Counted, RowOK
<1>2. c.index \in Nat /\ c.total \in Nat /\ c.total <= Count /\ c.status # "cancelled"
    BY RowHas, CountIsNatural DEF CopyOK, RowOK
<1>3. next = Row(d.status, d.total, d.sent, d.failed, d.pending, d.cancelled, d.results,
                 d.index + 1, d.stop)
    BY <1>1, RowExcept
<1>4. d.index + 1 \in 0..Count /\ d.index + 1 <= d.total
    BY <1>1, <1>2, CountIsNatural
<1>5. /\ d.total \in 0..Count /\ d.sent \in 0..Count /\ d.failed \in 0..Count
      /\ d.pending \in 0..Count /\ d.cancelled \in 0..Count /\ d.results \in 0..Count
      /\ d.stop \in BOOLEAN
      /\ d.status \in {"none", "pending", "processing", "completed", "cancelled", "failed"}
    BY <1>1, RowHas
<1>9. Row(d.status, d.total, d.sent, d.failed, d.pending, d.cancelled, d.results, d.index + 1,
          d.stop) \in BatchRows
    BY <1>4, <1>5, RowIsOne
<1>6. next \in BatchRows
    BY <1>3, <1>9
<1>7. /\ next.status = d.status /\ next.total = d.total /\ next.sent = d.sent
      /\ next.failed = d.failed /\ next.pending = d.pending /\ next.cancelled = d.cancelled
      /\ next.results = d.results /\ next.index = d.index + 1
    BY <1>3, RowFields
<1>8. RowOK(next)
    BY <1>1, <1>6, <1>7 DEF RowOK
<1> QED
    BY <1>1, <1>2, <1>4, <1>7, <1>8 DEF CopyOK

\* A run that works on a message.
Working ==
    /\ Around /\ BInv /\ BatchOK /\ LagOK
    /\ run.at \in {"next", "finding file", "sending"} /\ run.copy.index < run.copy.total

LEMMA NoteCounts ==
    ASSUME Working, NEW d, Counted(run.copy, d), NoteResult(d) PROVE Counts
<1> DEFINE c == run.copy
           next == [d EXCEPT !.index = d.index + 1]
<1>1. /\ CopyOK(c) /\ c.index = c.results /\ done = c.results /\ c.index < c.total
      /\ c.status # "none" /\ batch.status # "none"
    BY DEF Working, BatchOK, RunOK, BInv
<1>2. /\ done' = d.results /\ d.results = c.results + 1 /\ d.index = c.index /\ RowOK(d)
      /\ d.total = c.total /\ d.status \in {c.status, "failed"}
    BY DEF NoteResult, Counted
<1>3. c.status # "cancelled" /\ c.index \in Nat /\ d.results \in 0..Count
    BY <1>1, <1>2, RowHas, CountIsNatural DEF CopyOK, RowOK
<1>4. CASE d.status = "failed"
    <2>1. FinishBatch(d)
        BY <1>4 DEF NoteResult
    <2> QED
        BY <1>1, <1>2, <1>4, <2>1, FinishCounts DEF Working
<1>5. CASE d.status # "failed"
    <2>1. /\ CopyOK(next) /\ next.index = next.results /\ next.results = d.results
          /\ next.status # "none"
        BY <1>1, <1>5, NextCopy
    <2>2. IF IsSaved(d.index, d.total)
          THEN SaveOr(next, run' = NoRun, RunIs("next", next))
          ELSE RunIs("next", next) /\ UNCHANGED <<batch, used>>
        BY <1>5 DEF NoteResult
    <2> HIDE DEF next
    <2>3. CASE batch' = next /\ RunIs("next", next)
        <3>1. RowOK(next)
            BY <2>1 DEF CopyOK
        <3> QED
            BY <1>2, <2>1, <2>3, <3>1, CountsSaved DEF Working
    <2>4. CASE Use("faults") /\ run' = NoRun /\ UNCHANGED batch
        BY <1>1, <1>2, <1>3, <2>4, CountsFault DEF Working
    <2>5. CASE ~IsSaved(d.index, d.total) /\ RunIs("next", next) /\ UNCHANGED <<batch, used>>
        <3>1. run' = [at |-> "next", of |-> run.of, copy |-> next]
            BY <2>5, RunBecomes DEF Working
        <3>2. run'.at = "next" /\ run'.copy = next
            BY <3>1
        <3>3. RunOK'
            BY <1>2, <2>1, <3>2 DEF RunOK, RowOK, CopyOK, BatchRows
        <3>4. RowOK(batch) /\ batch.results \in Nat
            <4>1. RowOK(batch) /\ batch \in BatchRows
                BY DEF Working, BatchOK, RowOK
            <4>2. batch.results \in 0..Count
                BY <4>1, RowHas
            <4> QED
                BY <4>1, <4>2, CountIsNatural
        <3>5. RowOK(batch') /\ batch'.status # "none" /\ batch'.results = batch.results
            BY <1>1, <2>5, <3>4
        <3>6. c.index % SaveEvery # 0
            BY <1>2, <2>5 DEF IsSaved
        <3>7. Undisturbed => IsBehind(c.index, batch.results)
            BY <1>1 DEF Working, LagOK
        <3>8. Undisturbed => IsBehind(c.index + 1, batch.results)
            BY <1>3, <3>4, <3>6, <3>7, LagGrows
        <3>9. done' = c.index + 1
            BY <1>1, <1>2
        <3> QED
            BY <1>2, <1>3, <3>3, <3>5, <3>8, <3>9 DEF Counts
    <2> QED
        BY <2>2, <2>3, <2>4, <2>5 DEF SaveOr
<1> QED
    BY <1>4, <1>5

LEMMA WorkCounts == ASSUME Working, MessageSent \/ MessageFailed PROVE Counts
<1>1. CopyOK(run.copy) /\ run.copy.index = run.copy.results /\ run.copy.index < run.copy.total
    BY DEF Working, BatchOK, RunOK
<1>2. CASE MessageSent
    BY <1>1, <1>2, SentCounts, NoteCounts DEF MessageSent
<1>3. CASE MessageFailed
    BY <1>1, <1>3, FailedCounts, NoteCounts DEF MessageFailed
<1> QED
    BY <1>2, <1>3

\* What every step keeps of the batch.
Kept == BatchOK' /\ (Undisturbed /\ used'.faults = 0 => IsBehind(done', batch'.results))

\* A step of the run that counts keeps the invariant of the batch.
LEMMA CountsKeep ==
    ASSUME BatchOK, Counts, UNCHANGED <<flag, stopped>>, UNCHANGED reached
    PROVE  Kept
    BY DEF Kept, BatchOK, Counts, RowOK, BatchRows

LEMMA KeptIf ==
    ASSUME BatchOK, LagOK, RunOK', UNCHANGED <<batch, done>>,
           reached' \subseteq 0..(Count - 1), flag' \in {"none", "go", "stop"}, stopped' \in BOOLEAN
    PROVE  Kept
<1>1. RowOK(batch) /\ (batch.status = "none" => batch.results = 0 /\ done = 0) /\ done \in 0..Count
    BY DEF BatchOK
<1>2. RowOK(batch') /\ (batch'.status = "none" => batch'.results = 0 /\ done' = 0)
      /\ done' \in 0..Count
    BY <1>1
<1>3. BatchOK'
    BY <1>2 DEF BatchOK, RowOK, BatchRows
<1>4. Undisturbed => IsBehind(done, batch.results)
    BY DEF LagOK
<1>5. Undisturbed => IsBehind(done', batch'.results)
    BY <1>4
<1> QED
    BY <1>3, <1>5 DEF Kept

LEMMA RunSame == ASSUME RunOK, UNCHANGED <<run, done>> PROVE RunOK'
    BY DEF RunOK, RowOK, CopyOK, BatchRows

LEMMA KeptSame ==
    ASSUME BatchOK, LagOK, UNCHANGED <<batch, run, flag, reached, done, stopped>> PROVE Kept
<1>1. RunOK'
    BY RunSame DEF BatchOK
<1>2. /\ reached' \subseteq 0..(Count - 1) /\ flag' \in {"none", "go", "stop"}
      /\ stopped' \in BOOLEAN
    BY DEF BatchOK
<1> QED
    BY <1>1, <1>2, KeptIf

LEMMA KeptCreateBatch ==
    ASSUME Around, BInv, BatchOK, LagOK, NEW r \in 1..Requests, CreateBatch(r) PROVE Kept
<1>1. CASE UNCHANGED <<batch, run>>
    BY <1>1, KeptSame DEF CreateBatch
<1>2. ASSUME batch.status = "none", NEW size \in {0, Count}, NEW stop \in BOOLEAN,
             batch' = [NoBatch EXCEPT !.status = "pending", !.total = size, !.pending = size,
                                      !.stop = stop],
             run' = [NoRun EXCEPT !.at = "finding", !.copy = batch'],
             UNCHANGED <<flag, stopped, reached, done>>
      PROVE  Kept
    <2> DEFINE row == [NoBatch EXCEPT !.status = "pending", !.total = size, !.pending = size,
                                      !.stop = stop]
               found == [NoRun EXCEPT !.at = "finding"]
    <2>1. CopyOK(row) /\ row.status = "pending" /\ row.results = 0 /\ row.index = 0
        <3>1. row = Row("pending", size, 0, 0, size, 0, 0, 0, stop)
            BY NewRowIs
        <3> HIDE DEF row
        <3> QED
            BY <3>1, NewRow
    <2>2. batch' = row
        BY <1>2
    <2>3. found = [at |-> "finding", of |-> NoEngine, copy |-> NoBatch]
        BY NoRunIsOne
    <2>4. run' = [found EXCEPT !.copy = batch']
        BY <1>2
    <2> HIDE DEF row, found
    <2>5. run' = [at |-> "finding", of |-> NoEngine, copy |-> row]
        BY <2>2, <2>3, <2>4
    <2>10. done = 0
        BY <1>2 DEF BatchOK
    <2>11. UNCHANGED done
        BY <1>2
    <2>12. run'.at = "finding" /\ run'.copy = row
        BY <2>5
    <2>6. run'.at = "finding" /\ run'.copy = row /\ done' = 0
        BY <2>10, <2>11, <2>12
    <2>7. RunOK'
        BY <2>1, <2>6 DEF RunOK, RowOK, CopyOK, BatchRows
    <2>8. RowOK(batch') /\ batch'.status # "none" /\ batch'.results = 0
        BY <2>1, <2>2 DEF CopyOK
    <2>9. done' \in 0..Count
        BY <2>6, CountIsNatural
    <2> QED
        BY <1>2, <2>6, <2>7, <2>8, <2>9, CountsKeep DEF Counts, IsBehind, Kept
<1> QED
    BY <1>1, <1>2 DEF CreateBatch, SaveOr

LEMMA KeptCancelBatch ==
    ASSUME IInv, Around, Asked, BatchOK, LagOK, NEW r \in 1..Requests, CancelBatch(r) PROVE Kept
<1> DEFINE row == request[r].of
<1>1. request[r].at = "reading" /\ RowOK(row) /\ request[r].job = "cancel"
    BY DEF CancelBatch, Asked, Fine, IInv, Good
<1>2. ~Undisturbed
    BY <1>1 DEF Undisturbed
<1>3. CASE UNCHANGED <<batch, flag, stopped>>
    BY <1>3, KeptSame DEF CancelBatch
<1>4. CASE /\ row.status # "cancelled" /\ flag' = "stop"
           /\ stopped' = (stopped \/ run.at \notin {"none", "finding"})
           /\ batch' \in {batch, CancelledCopy(row)}
    <2> HIDE DEF row
    <2>1. RowOK(CancelledCopy(row)) /\ CancelledCopy(row).status = "cancelled"
        BY <1>1, <1>4, CancelledAddsUp
    <2>2. RowOK(batch) /\ (batch.status = "none" => batch.results = 0 /\ done = 0)
        BY DEF BatchOK
    <2>3. RowOK(batch') /\ (batch'.status = "none" => batch'.results = 0 /\ done = 0)
        BY <1>4, <2>1, <2>2
    <2>4. UNCHANGED <<run, reached, done>>
        BY DEF CancelBatch
    <2>5. stopped' \in BOOLEAN
        BY <1>4
    <2>6. RunOK'
        BY <2>4 DEF BatchOK, RunOK, RowOK, CopyOK, BatchRows
    <2> QED
        BY <1>2, <1>4, <2>3, <2>4, <2>5, <2>6 DEF Kept, BatchOK, RowOK, BatchRows
<1> QED
    BY <1>3, <1>4 DEF CancelBatch, SaveOr

LEMMA KeptProcessBatch == ASSUME Around, BInv, BatchOK, LagOK, ProcessBatch PROVE Kept
<1> DEFINE copy == [run.copy EXCEPT !.status = "processing"]
<1>1. /\ run.at = "finding" /\ UNCHANGED <<reached, done, stopped>> /\ flag' = "go"
      /\ batch.status # "none"
    BY DEF ProcessBatch, BInv
<1>8. \/ batch' = copy /\ RunIs("starting", copy)
      \/ Use("faults") /\ run' = NoRun /\ UNCHANGED batch
    BY DEF ProcessBatch, SaveOr
<1>2. /\ CopyOK(run.copy) /\ run.copy.index = 0 /\ run.copy.results = 0 /\ done = 0
    BY <1>1 DEF BatchOK, RunOK
<1>3. /\ CopyOK(copy) /\ RowOK(copy) /\ copy.status = "processing" /\ copy.index = 0
      /\ copy.results = 0
    BY <1>2, StatusSet DEF CopyOK
<1> HIDE DEF copy
<1>4. done' = 0 /\ done' \in 0..Count
    BY <1>1, <1>2, CountIsNatural
<1>9. copy.status # "none" /\ done' = copy.results
    BY <1>3, <1>4
<1>5. ASSUME batch' = copy, RunIs("starting", copy) PROVE Counts
    BY <1>3, <1>5, <1>9, CountsSaved
<1>6. ASSUME Use("faults"), run' = NoRun, UNCHANGED batch PROVE Counts
    BY <1>1, <1>4, <1>6, CountsFault
<1>7. Counts
    BY <1>5, <1>6, <1>8
<1> QED
    BY <1>1, <1>7 DEF Kept, BatchOK, Counts, RowOK, BatchRows

LEMMA KeptStartBatch == ASSUME Around, BInv, BatchOK, LagOK, StartBatch PROVE Kept
<1> DEFINE failed == [run.copy EXCEPT !.status = "failed"]
<1>1. /\ run.at = "starting" /\ UNCHANGED <<flag, reached, done, stopped>>
      /\ batch.status # "none"
    BY DEF StartBatch, BInv
<1>2. /\ CopyOK(run.copy) /\ run.copy.index = 0 /\ run.copy.results = 0 /\ done = 0
    BY <1>1 DEF BatchOK, RunOK
<1>3. RowOK(failed) /\ failed.status = "failed" /\ failed.results = 0
    BY <1>2, StatusSet DEF CopyOK
<1>4. done' = 0 /\ done' \in 0..Count
    BY <1>1, <1>2, CountIsNatural
<1>5. CASE run' = [run EXCEPT !.at = "next", !.of = current] /\ UNCHANGED batch
    <2> DEFINE one == [run EXCEPT !.at = "next"]
    <2>1. one = [at |-> "next", of |-> run.of, copy |-> run.copy]
        BY DEF BInv
    <2>2. run' = [one EXCEPT !.of = current]
        BY <1>5
    <2> HIDE DEF one
    <2>3. run'.at = "next" /\ run'.copy = run.copy
        BY <2>1, <2>2
    <2>4. RunOK'
        BY <1>2, <1>4, <2>3 DEF RunOK, RowOK, CopyOK, BatchRows
    <2> QED
        BY <1>1, <1>5, <2>4 DEF Kept, BatchOK, LagOK, RowOK, BatchRows, IsBehind
<1>6. CASE batch' = failed /\ run' = NoRun
    <2>4. done' \in Nat
        BY <1>4
    <2>1. RunOK'
        BY <1>6, <2>4, NoRunIsOK
    <2>2. RowOK(batch') /\ batch'.status # "none" /\ batch'.results = 0
        BY <1>3, <1>6
    <2>3. Counts
        BY <1>4, <2>1, <2>2 DEF Counts, IsBehind
    <2> QED
        BY <1>1, <2>3, CountsKeep DEF Kept
<1>7. CASE Use("faults") /\ run' = NoRun /\ UNCHANGED batch
    BY <1>1, <1>4, <1>7, CountsFault, CountsKeep DEF Kept
<1> QED
    BY <1>5, <1>6, <1>7 DEF StartBatch, SaveOr

\* The run takes another step with the message it is at.
LEMMA KeptGoes ==
    ASSUME Working, NEW place \in {"finding file", "sending"}, run' = [run EXCEPT !.at = place],
           UNCHANGED <<batch, flag, reached, done, stopped>>
    PROVE  Kept
<1>1. run'.at = place /\ run'.copy = run.copy
    BY DEF Working, BInv
<1>2. RunOK'
    BY <1>1 DEF Working, BatchOK, RunOK, RowOK, CopyOK, BatchRows
<1> QED
    BY <1>2 DEF Working, Kept, BatchOK, LagOK, RowOK, BatchRows, IsBehind

LEMMA KeptNextMessage == ASSUME Around, BInv, BatchOK, LagOK, NextMessage PROVE Kept
<1>1. /\ run.at = "next" /\ UNCHANGED <<flag, reached, stopped>> /\ batch.status # "none"
      /\ run.copy.status # "none"
    BY DEF NextMessage, BInv
<1>2. CopyOK(run.copy) /\ run.copy.index = run.copy.results /\ done = run.copy.results
    BY <1>1 DEF BatchOK, RunOK
<1>3. CASE FinishBatch(run.copy) /\ UNCHANGED done
    BY <1>1, <1>2, <1>3, FinishCounts, CountsKeep DEF CopyOK, Kept
<1>4. CASE run.copy.index # run.copy.total
    <2>1. run.copy.index <= run.copy.total /\ run.copy \in BatchRows
        BY <1>2 DEF CopyOK, RowOK
    <2>2. run.copy.index \in Nat /\ run.copy.total \in Nat
        BY <2>1, RowHas, CountIsNatural
    <2>3. Working
        BY <1>1, <1>4, <2>1, <2>2 DEF Working
    <2>4. CASE MessageFailed
        BY <1>1, <2>3, <2>4, WorkCounts, CountsKeep DEF Kept, Working
    <2>5. ASSUME NEW place \in {"finding file", "sending"}, run' = [run EXCEPT !.at = place],
                 UNCHANGED <<batch, done>>
          PROVE  Kept
        BY <1>1, <2>3, <2>5, KeptGoes
    <2>6. CASE FinishBatch(run.copy) /\ UNCHANGED done
        BY <1>3, <2>6
    <2> QED
        BY <1>4, <2>4, <2>5, <2>6 DEF NextMessage
<1>5. CASE run.copy.index = run.copy.total
    BY <1>3, <1>5 DEF NextMessage
<1> QED
    BY <1>4, <1>5

LEMMA KeptFindFile == ASSUME Around, BInv, BatchOK, LagOK, FindFile PROVE Kept
<1>1. Working /\ UNCHANGED <<flag, reached, stopped>>
    BY DEF FindFile, Working, BatchOK, RunOK
<1>2. CASE MessageFailed
    BY <1>1, <1>2, WorkCounts, CountsKeep DEF Kept
<1>3. CASE run' = [run EXCEPT !.at = "sending"] /\ UNCHANGED <<batch, done>>
    BY <1>1, <1>3, KeptGoes
<1> QED
    BY <1>2, <1>3 DEF FindFile

LEMMA KeptCarryMessage == ASSUME Around, BInv, BatchOK, LagOK, CarryMessage PROVE Kept
<1>1. /\ run.at = "sending" /\ reached' = reached \cup {run.copy.index}
      /\ UNCHANGED <<batch, run, flag, done, stopped>>
    BY DEF CarryMessage, batchVars
<1>2. run.copy.index < run.copy.total /\ run.copy \in BatchRows
    BY <1>1 DEF BatchOK, RunOK, RowOK
<1>3. run.copy.index \in 0..Count /\ run.copy.total \in 0..Count
    BY <1>2, RowHas
<1>4. run.copy.index \in 0..(Count - 1)
    BY <1>2, <1>3, CountIsNatural
<1>5. RunOK'
    BY <1>1, RunSame DEF BatchOK
<1>6. /\ reached' \subseteq 0..(Count - 1) /\ flag' \in {"none", "go", "stop"}
      /\ stopped' \in BOOLEAN
    BY <1>1, <1>4 DEF BatchOK
<1> QED
    BY <1>1, <1>5, <1>6, KeptIf

LEMMA KeptMessageReturns == ASSUME Around, BInv, BatchOK, LagOK, MessageReturns PROVE Kept
<1>1. Working /\ UNCHANGED <<flag, reached, stopped>>
    BY DEF MessageReturns, Working, BatchOK, RunOK
<1>2. MessageSent \/ MessageFailed
    BY DEF MessageReturns
<1> QED
    BY <1>1, <1>2, WorkCounts, CountsKeep DEF Kept, Working

\* A run ends, and its flag with it.
LEMMA KeptEnds ==
    ASSUME BatchOK, LagOK, run' = NoRun, flag' = "none", UNCHANGED <<batch, reached, done, stopped>>
    PROVE  Kept
<1>1. done' \in Nat
    BY CountIsNatural DEF BatchOK
<1>2. RunOK'
    BY <1>1, NoRunIsOK
<1> QED
    BY <1>2 DEF Kept, BatchOK, LagOK, RowOK, BatchRows, IsBehind

LEMMA KeptStep ==
    ASSUME IInv, BInv, Around, Asked, BatchOK, LagOK, [Next]_vars PROVE Kept
<1>1. ASSUME NEW r \in 1..Requests, NEW op \in Ops, Ask(r, op) PROVE Kept
    BY <1>1, KeptSame DEF Ask, batchVars
<1>2. ASSUME NEW r \in 1..Requests, AskBatch(r) \/ AskCancel(r) PROVE Kept
    BY <1>2, KeptSame DEF AskBatch, AskCancel, batchVars
<1>3. ASSUME NEW r \in 1..Requests,
             \/ Hooked(r) \/ GetEngine(r) \/ BadMedia(r) \/ SaveOutgoing(r) \/ Find(r)
             \/ Carry(r) \/ Returns(r) \/ Rejects(r) \/ MarkSent(r) \/ MarkFailed(r)
             \/ Told(r)
      PROVE  Kept
    BY <1>3, KeptSame DEF Hooked, GetEngine, BadMedia, SaveOutgoing, Find, Carry, Returns,
                          Rejects, MarkSent, MarkFailed, Told, batchVars
<1>4. ASSUME NEW r \in 1..Requests, CreateBatch(r) \/ CancelBatch(r) PROVE Kept
    BY <1>4, KeptCreateBatch, KeptCancelBatch
<1>5. CASE Process
    BY <1>5, KeptProcessBatch, KeptStartBatch, KeptNextMessage, KeptFindFile, KeptCarryMessage,
       KeptMessageReturns, KeptEnds DEF Process, LeaveBatch
<1>6. CASE Started \/ Connected \/ Stopped
    BY <1>6, KeptSame DEF Started, Connected, Stopped, batchVars
<1>7. CASE Restart
    BY <1>7, KeptEnds DEF Restart
<1>8. CASE UNCHANGED vars
    BY <1>8, KeptSame DEF vars
<1> QED
    BY <1>1, <1>2, <1>3, <1>4, <1>5, <1>6, <1>7, <1>8 DEF Next, Handle

-----------------------------------------------------------------------------
(* The invariant, and what it says.                                         *)

LEMMA CInvInit == Init => CInv
<1> SUFFICES ASSUME Init PROVE CInv
    OBVIOUS
<1> DEFINE none == FALSE
<1>1. NoBatch = Row("none", 0, 0, 0, 0, 0, 0, 0, none)
    BY DEF NoBatch, Row
<1>2. none \in BOOLEAN
    OBVIOUS
<1> HIDE DEF none
<1>3. 0 \in 0..Count
    BY CountIsNatural
<1>4. NoBatch \in BatchRows
    BY <1>1, <1>2, <1>3, RowIsOne
<1>5. RowOK(NoBatch) /\ NoBatch.results = 0
    BY <1>1, <1>4, RowFields DEF RowOK
<1>6. batch = NoBatch /\ run.at = "none" /\ run.copy = NoBatch /\ done = 0 /\ reached = {}
    BY NoRunIsOne DEF Init
<1>7. BatchOK
    BY <1>3, <1>5, <1>6 DEF Init, BatchOK, RunOK
<1>8. LagOK
    BY <1>5, <1>6 DEF LagOK, IsBehind
<1>9. Asked
    BY PlacesAre DEF Init, Asked, Fine, Unasked
<1>10. Around
    BY DEF Init, Around, MessageStatuses
<1> QED
    BY <1>7, <1>8, <1>9, <1>10 DEF CInv

LEMMA CInvStep == IInv /\ BInv /\ CInv /\ [Next]_vars => CInv'
<1> SUFFICES ASSUME IInv, BInv, Around, Asked, BatchOK, LagOK, [Next]_vars PROVE CInv'
    BY DEF CInv
<1>1. Moved /\ AroundNext /\ Kept
    BY RequestsStep, AroundStep, KeptStep
<1>2. Asked'
    BY <1>1 DEF Moved, Moves, Asked, Fine, RowOK, BatchRows
<1>3. Undisturbed' => Undisturbed /\ used'.faults = 0
    BY <1>1, DisturbedStays DEF Undisturbed
<1>4. LagOK'
    BY <1>1, <1>3 DEF Kept, LagOK, IsBehind
<1> QED
    BY <1>1, <1>2, <1>4 DEF CInv, AroundNext, Kept

LEMMA SendingCounts == Spec => [](IInv /\ BInv /\ CInv)
<1>1. Init => IInv /\ BInv /\ CInv
    BY IInvInit, BInvInit, CInvInit
<1>2. IInv /\ BInv /\ CInv /\ [Next]_vars => (IInv /\ BInv /\ CInv)'
    BY IInvStep, BInvStep, CInvStep
<1> QED
    BY <1>1, <1>2, PTL DEF Spec

\* Every variable has its type (message.service.ts, bulk-message.service.ts), in every run.
THEOREM SendingTypes == Spec => []TypeOK
<1>1. CInv => TypeOK
    BY DEF CInv, Around, Asked, Fine, BatchOK, RunOK, RowOK, TypeOK
<1> QED
    BY <1>1, SendingCounts, PTL

\* The counters of a batch's row add up whichever of its two writers has overwritten the other
\* (bulk-message.service.ts, processBatch and cancelBatch), and the row is behind its run by
\* fewer than SaveEvery results unless it was cancelled or a save failed, in every run, for a
\* batch of any length and any SaveEvery.
THEOREM SendingAddsUp == Spec => []ProgressAddsUp
<1>1. CInv => ProgressAddsUp
    <2> SUFFICES ASSUME CInv PROVE ProgressAddsUp
        OBVIOUS
    <2>1. RowOK(batch) /\ batch \in BatchRows /\ done \in 0..Count
        BY DEF CInv, BatchOK, RowOK
    <2>2. batch.results \in 0..Count
        BY <2>1, RowHas
    <2>3. Undisturbed => done - batch.results < SaveEvery
        BY <2>1, <2>2, LagIsShort, CountIsNatural DEF CInv, LagOK
    <2> QED
        BY <2>1, <2>3 DEF ProgressAddsUp, Undisturbed, RowOK
<1> QED
    BY <1>1, SendingCounts, PTL
=============================================================================
