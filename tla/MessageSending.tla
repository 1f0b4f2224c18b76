--------------------------- MODULE MessageSending ---------------------------
(***************************************************************************)
(* What the gateway sends for its callers: a message with a row of its own *)
(* (message.service.ts), an operation on groups, contacts, labels,         *)
(* channels, stories or the catalog (their controllers), and a batch       *)
(* (bulk-message.service.ts).  A handler runs from one await to the next   *)
(* in one action, and handlers interleave at every await.  A query sees    *)
(* the row as it was when it was issued and a write takes effect when it   *)
(* is issued (one connection); either may fail.  The engine instances are  *)
(* those of SessionLifecycle, reduced to what a caller sees of them: an    *)
(* instance it holds can send or cannot.                                   *)
(***************************************************************************)
EXTENDS Naturals, Sequences

CONSTANTS Kinds,       \* engine types of the deployments to cover
          Ops,         \* operations callers ask for
          Batch,       \* the types of a batch's messages, in order
          SaveEvery,   \* a batch saves its progress after this many messages (10)
          Requests,    \* requests are numbered 1..Requests
          MaxEngines, MaxFaults, MaxRestarts  \* bounds

NoEngine == 0

\* What the adapters are asked to do, by the service or controller that asks.
WithMedia == {"image", "video", "audio", "document", "sticker"}
Sends == WithMedia \cup {"text", "location", "contactCard", "reply", "forward"}
OnMessages == {"react", "reactions", "delete"}
OnGroups == {"groups", "groupInfo", "createGroup", "addParticipants", "removeParticipants",
             "promote", "demote", "leave", "setSubject", "setDescription",
             "inviteCode", "revokeInvite"}
OnContacts == {"contacts", "contact", "checkNumber", "picture", "block", "unblock"}
OnLabels == {"labels", "label", "chatLabels", "addLabel", "removeLabel"}
OnChannels == {"channels", "channel", "channelMessages", "subscribe", "unsubscribe"}
OnStatuses == {"statuses", "statusOf", "postText", "postImage", "postVideo", "deleteStatus"}
OnCatalog == {"catalog", "products", "product", "sendProduct", "sendCatalog"}
Operations == Sends \cup OnMessages \cup OnGroups \cup OnContacts \cup OnLabels
                    \cup OnChannels \cup OnStatuses \cup OnCatalog
Queries == {"reactions", "groups", "groupInfo", "inviteCode", "contacts", "contact",
            "checkNumber", "picture", "labels", "label", "chatLabels", "channels", "channel",
            "channelMessages", "statuses", "statusOf", "catalog", "products", "product"}

\* The operations Baileys has, and those it answers with nothing without asking WhatsApp.
BaileysSends == {"text", "reply", "document", "groups"}
\* Mutant: blocking a contact is stubbed as a query is.
BaileysEmptyAndBlock == {"contacts", "groupInfo", "channelMessages", "block"}

BaileysEmpty == {"contacts", "contact", "groupInfo", "picture", "labels", "label",
                 "chatLabels", "channels", "channel", "channelMessages", "statuses",
                 "statusOf", "catalog", "products", "product"}

\* The operations whatsapp-web.js does not have: queries are empty, the others throw.
WwjsStories == OnStatuses
WwjsCatalog == OnCatalog
\* Those for which it first fetches a chat or a contact, and the message in it.
FindsMessage == {"reply", "forward"}
FindsGroup == {"addParticipants", "removeParticipants", "promote", "demote", "leave",
               "setSubject", "setDescription"}
FindsReaction == {"react", "reactions"}
FindsLabels == {"chatLabels", "addLabel", "removeLabel"}
FindsRest == {"delete", "block", "unblock", "inviteCode", "revokeInvite"}
FindsFirst == FindsMessage \cup FindsGroup \cup FindsReaction \cup FindsLabels \cup FindsRest

\* How the adapter of an engine type carries out an operation: "throws" at once, "empty"
\* without asking WhatsApp, in one call of the client ("calls"), or in two ("finds").
Way(k, op) ==
    CASE k = "baileys" /\ op \in BaileysSends -> "calls"
      [] k = "baileys" /\ op \in BaileysEmpty -> "empty"
      [] k = "baileys" -> "throws"
      [] op \in WwjsStories \cup WwjsCatalog -> IF op \in Queries THEN "empty" ELSE "throws"
      [] op \in FindsFirst \cup {"channelMessages"} -> "finds"
      [] OTHER -> "calls"

\* A media message may name a URL, which whatsapp-web.js downloads first.
Ways(k, op) == {Way(k, op)} \cup (IF k = "wwjs" /\ op \in WithMedia THEN {"finds"} ELSE {})

\* Errors these answer with an empty result instead; an empty result of the latter is an error.
Swallows == {"picture", "channelMessages"}
NeedsResult == {"groupInfo", "contact", "label", "channel"}

\* What the library resolves of these tells whether WhatsApp did them (false, a status, a code
\* for each participant); the whatsapp-web.js adapter awaits it and does not look at it.
Ignored == {"addParticipants", "removeParticipants", "promote", "demote", "setSubject",
            "setDescription", "block", "unblock", "subscribe", "unsubscribe"}

ASSUME OpsAssumption == Ops \subseteq Operations /\ Kinds \subseteq {"baileys", "wwjs"}
ASSUME BatchAssumption == Batch \in Seq(Sends) /\ SaveEvery \in Nat \ {0}

VARIABLES
    kind,       \* the engine type configured, fixed
    instances,  \* the engine instances that are current or that a handler holds
    current,    \* engines.get(id)
    request,    \* the requests, in flight or answered
    message,    \* the rows of messages, by the request that made them
    carried,    \* history: requests WhatsApp has carried out
    batch,      \* the batch's row
    run,        \* the processing of the batch, with its copy of the row
    flag,       \* processingBatches.get(id)
    reached,    \* history: the messages of the batch that WhatsApp got
    done,       \* history: how many of them the gateway has a result for
    stopped,    \* history: a cancel came while they were being sent
    used        \* what is used up of the bounds

engineVars == <<instances, current>>
sendVars == <<request, message, carried>>
batchVars == <<batch, run, flag, reached, done, stopped>>
vars == <<kind, instances, current, request, message, carried, batch, run, flag, reached,
          done, stopped, used>>

Count == Len(Batch)
Unasked == [job |-> "none", at |-> "unasked", of |-> NoEngine, answer |-> "none"]

MessageStatuses == {"none", "pending", "sent", "failed"}
BatchRows == [status : {"none", "pending", "processing", "completed", "cancelled", "failed"},
              total : 0..Count, sent : 0..Count, failed : 0..Count, pending : 0..Count,
              cancelled : 0..Count, results : 0..Count, index : 0..Count, stop : BOOLEAN]
NoBatch == [status |-> "none", total |-> 0, sent |-> 0, failed |-> 0, pending |-> 0,
            cancelled |-> 0, results |-> 0, index |-> 0, stop |-> FALSE]
NoRun == [at |-> "none", of |-> NoEngine, copy |-> NoBatch]

Use(counter) == used' = [used EXCEPT ![counter] = @ + 1]
MayFail == used.faults < MaxFaults
InFlight(r) == request[r].at \notin {"unasked", "answered"}

Init ==
    /\ kind \in Kinds
    /\ instances = [e \in 1..MaxEngines |-> "gone"] /\ current = NoEngine
    /\ request = [r \in 1..Requests |-> Unasked]
    /\ message = [r \in 1..Requests |-> "none"]
    /\ carried = {}
    /\ batch = NoBatch /\ run = NoRun /\ flag = "none"
    /\ reached = {} /\ done = 0 /\ stopped = FALSE
    /\ used = [faults |-> 0, restarts |-> 0]

----------------------------------------------------------------------------
(* The engine as a caller sees it.                                          *)

\* ensureReady: the instance has a client and reported READY.
Ready(e) == instances[e] = "ready"

\* The session is started, or its engine replaced, in SessionLifecycle.
Held(e) == e = run.of \/ \E r \in 1..Requests : request[r].at # "reading" /\ request[r].of = e
Started ==
    /\ current = NoEngine
    /\ \E e \in 1..MaxEngines :
          /\ instances[e] = "gone" /\ ~Held(e)
          /\ \A f \in 1..(e - 1) : instances[f] # "gone" \/ Held(f)
          /\ instances' = [instances EXCEPT ![e] = "connecting"]
          /\ current' = e
    /\ UNCHANGED <<kind, sendVars, batchVars, used>>

\* An engine becomes ready; its connection is lost, and it cannot send any more.
Connected ==
    /\ \E e \in 1..MaxEngines :
          \/ /\ instances[e] = "connecting"
             /\ instances' = [instances EXCEPT ![e] = "ready"]
          \/ /\ instances[e] = "ready"
             /\ instances' = [instances EXCEPT ![e] = "gone"]
    /\ UNCHANGED <<kind, current, sendVars, batchVars, used>>

\* The engine is taken out of the map and destroyed; one that is still connecting may go on.
Stopped ==
    /\ current # NoEngine
    /\ current' = NoEngine
    /\ \/ instances' = [instances EXCEPT ![current] = "gone"]
       \/ instances[current] = "connecting" /\ Held(current) /\ UNCHANGED instances
    /\ UNCHANGED <<kind, sendVars, batchVars, used>>

----------------------------------------------------------------------------
(* One message, or one operation without a row.                             *)

At(q, place) == [q EXCEPT !.at = place]
Answered(q, what) == [q EXCEPT !.at = "answered", !.answer = what, !.of = NoEngine]
Becomes(r, q) == request' = [request EXCEPT ![r] = q]

\* A text's outcome is told to the plugins before the caller gets it.
Concluded(q, what) ==
    IF q.job = "text" THEN [q EXCEPT !.at = "telling", !.answer = what] ELSE Answered(q, what)

\* The engine throws: a message's row is to be marked, anything else is answered.
Thrown(q) == IF q.job \in Sends THEN At(q, "failing") ELSE Answered(q, "error")

\* The call of the adapter, up to its first await.
Called(q) ==
    {CASE way = "throws" -> Thrown(q)
       [] way = "empty" ->
            IF q.job \in NeedsResult \/ (kind = "wwjs" /\ ~Ready(q.of))
            THEN Answered(q, "error") ELSE Answered(q, "ok")
       [] ~Ready(q.of) -> Thrown(q)
       [] way = "finds" -> At(q, "finding")
       [] OTHER -> At(q, "sending") : way \in Ways(kind, q.job)}

\* A request arrives.  A text is shown to the plugins first.
Ask(r, op) ==
    /\ request[r].at = "unasked"
    /\ \A s \in 1..(r - 1) : request[s].at # "unasked"
    /\ Becomes(r, [Unasked EXCEPT !.job = op, !.at = IF op = "text" THEN "hooks" ELSE "asked"])
    /\ UNCHANGED <<kind, engineVars, message, carried, batchVars, used>>

\* executing 'message:sending': a plugin may block the message.
Hooked(r) ==
    /\ request[r].at = "hooks"
    /\ \/ Becomes(r, At(request[r], "asked"))
       \/ Becomes(r, Answered(request[r], "error"))
    /\ UNCHANGED <<kind, engineVars, message, carried, batchVars, used>>

\* Mutant: the message is sent before its row is made.
GetEngineAndSend(r) ==
    /\ request[r].at = "asked" /\ request[r].job \in Operations
    /\ LET q == [request[r] EXCEPT !.of = current]
       IN IF current = NoEngine THEN Becomes(r, Answered(q, "error"))
          ELSE \E called \in Called(q) : Becomes(r, called)
    /\ UNCHANGED <<kind, engineVars, message, carried, batchVars, used>>

\* getEngine: without one the request is refused.  A message gets its row first.
GetEngine(r) ==
    /\ request[r].at = "asked" /\ request[r].job \in Operations
    /\ LET q == [request[r] EXCEPT !.of = current]
       IN IF current = NoEngine THEN Becomes(r, Answered(q, "error"))
          ELSE IF q.job \in Sends THEN Becomes(r, At(q, "recording"))
          ELSE \E called \in Called(q) : Becomes(r, called)
    /\ UNCHANGED <<kind, engineVars, message, carried, batchVars, used>>

\* buildMediaInput refuses media without data, before any row is made.
BadMedia(r) ==
    /\ request[r].at = "asked" /\ request[r].job \in WithMedia
    /\ current # NoEngine
    /\ Becomes(r, Answered(request[r], "error"))
    /\ UNCHANGED <<kind, engineVars, message, carried, batchVars, used>>

\* saveOutgoingMessage, and the engine's call that follows it.
SaveOutgoing(r) ==
    /\ request[r].at = "recording"
    /\ \/ /\ message' = [message EXCEPT ![r] = "pending"]
          /\ \E called \in Called(request[r]) : Becomes(r, called)
          /\ UNCHANGED used
       \/ MayFail /\ Use("faults") /\ Becomes(r, Answered(request[r], "error")) /\ UNCHANGED message
    /\ UNCHANGED <<kind, engineVars, carried, batchVars>>

\* What an operation needs is fetched: a chat, a message in it, a file.  It may not be there,
\* and the engine may be gone when it is.
Find(r) ==
    /\ request[r].at = "finding"
    /\ \/ Ready(request[r].of) /\ Becomes(r, At(request[r], "sending"))
       \/ IF request[r].job \in Swallows THEN Becomes(r, Answered(request[r], "ok")) ELSE Becomes(r, Thrown(request[r]))
    /\ UNCHANGED <<kind, engineVars, message, carried, batchVars, used>>

\* WhatsApp carries the request out; the answer is still on its way.
Carry(r) ==
    /\ request[r].at = "sending" /\ r \notin carried
    /\ carried' = carried \cup {r}
    /\ UNCHANGED <<kind, engineVars, request, message, batchVars, used>>

\* The client's call returns: WhatsApp has done it, or has refused and nobody looks.
IsIgnored(q) == kind = "wwjs" /\ q.job \in Ignored
Returns(r) ==
    /\ request[r].at = "sending" /\ (r \in carried \/ IsIgnored(request[r]))
    /\ IF request[r].job \in Sends THEN Becomes(r, At(request[r], "marking")) ELSE Becomes(r, Answered(request[r], "ok"))
    /\ UNCHANGED <<kind, engineVars, message, carried, batchVars, used>>

\* The client's call throws: refused, the connection lost, or no answer in time.
Rejects(r) ==
    /\ request[r].at = "sending"
    /\ IF request[r].job \in Swallows THEN Becomes(r, Answered(request[r], "ok")) ELSE Becomes(r, Thrown(request[r]))
    /\ UNCHANGED <<kind, engineVars, message, carried, batchVars, used>>

\* The row is saved as SENT; when that fails, the same catch marks it FAILED.
MarkSent(r) ==
    /\ request[r].at = "marking"
    /\ \/ /\ message' = [message EXCEPT ![r] = "sent"]
          /\ Becomes(r, Concluded(request[r], "ok"))
          /\ UNCHANGED used
       \/ MayFail /\ Use("faults") /\ Becomes(r, At(request[r], "failing")) /\ UNCHANGED message
    /\ UNCHANGED <<kind, engineVars, carried, batchVars>>

\* The row is saved as FAILED and the error thrown on.
MarkFailed(r) ==
    /\ request[r].at = "failing"
    /\ \/ /\ message' = [message EXCEPT ![r] = "failed"]
          /\ Becomes(r, Concluded(request[r], "error"))
          /\ UNCHANGED used
       \/ MayFail /\ Use("faults") /\ Becomes(r, Answered(request[r], "error")) /\ UNCHANGED message
    /\ UNCHANGED <<kind, engineVars, carried, batchVars>>

\* 'message:sent' or 'message:failed' has been executed.
Told(r) ==
    /\ request[r].at = "telling"
    /\ Becomes(r, Answered(request[r], request[r].answer))
    /\ UNCHANGED <<kind, engineVars, message, carried, batchVars, used>>

----------------------------------------------------------------------------
(* A batch: bulk-message.service.ts.                                        *)

RunIs(place, copy) == run' = [run EXCEPT !.at = place, !.copy = copy]

\* batchRepository.save(copy) writes every column; when it fails the handler throws, and a
\* run that throws leaves its flag behind.
SaveOr(copy, failed, saved) ==
    \/ batch' = copy /\ saved /\ UNCHANGED used
    \/ MayFail /\ Use("faults") /\ failed /\ UNCHANGED batch

\* createBatch: refused without an engine, then the id is looked up.
AskBatch(r) ==
    /\ request[r].at = "unasked"
    /\ \A s \in 1..(r - 1) : request[s].at # "unasked"
    /\ LET q == [Unasked EXCEPT !.job = "bulk"]
       IN Becomes(r, IF current = NoEngine THEN Answered(q, "error")
                     ELSE At(q, IF batch.status = "none" THEN "free" ELSE "taken"))
    /\ UNCHANGED <<kind, engineVars, message, carried, batchVars, used>>

\* The row is saved, refused when another request has made it since, and processed.
CreateBatch(r) ==
    /\ request[r].at \in {"free", "taken"}
    /\ \/ /\ request[r].at = "taken" \/ batch.status # "none"
          /\ Becomes(r, Answered(request[r], "error"))
          /\ UNCHANGED <<batch, run, used>>
       \/ /\ request[r].at = "free" /\ batch.status = "none"
          /\ \E size \in {0, Count}, stop \in BOOLEAN :
                LET row == [NoBatch EXCEPT !.status = "pending", !.total = size,
                                           !.pending = size, !.stop = stop]
                IN SaveOr(row, Becomes(r, Answered(request[r], "error")) /\ UNCHANGED run,
                               Becomes(r, Answered(request[r], "ok"))
                                   /\ run' = [NoRun EXCEPT !.at = "finding", !.copy = row])
    /\ UNCHANGED <<kind, engineVars, message, carried, flag, reached, done, stopped>>

\* cancelBatch reads the row ...
AskCancel(r) ==
    /\ request[r].at = "unasked"
    /\ \A s \in 1..(r - 1) : request[s].at # "unasked"
    /\ Becomes(r, [Unasked EXCEPT !.job = "cancel", !.at = "reading", !.of = batch])
    /\ UNCHANGED <<kind, engineVars, message, carried, batchVars, used>>

CancelledCopy(row) ==
    [row EXCEPT !.status = "cancelled", !.cancelled = row.pending, !.pending = 0]

\* ... lowers the flag, and saves the row it has read as cancelled.
CancelBatch(r) ==
    /\ request[r].at = "reading"
    /\ LET row == request[r].of
       IN IF row.status \in {"none", "completed", "cancelled"}
          THEN /\ Becomes(r, Answered(request[r], "error"))
               /\ UNCHANGED <<batch, flag, stopped, used>>
          ELSE /\ flag' = "stop"
               /\ stopped' = (stopped \/ run.at \notin {"none", "finding"})
               /\ SaveOr(CancelledCopy(row),
                         Becomes(r, Answered(request[r], "error")),
                         Becomes(r, Answered(request[r], "ok")))
    /\ UNCHANGED <<kind, engineVars, message, carried, run, reached, done>>

\* processBatch has read the row: the flag is raised, whatever it was.
ProcessBatch ==
    /\ run.at = "finding"
    /\ flag' = "go"
    /\ LET copy == [run.copy EXCEPT !.status = "processing"]
       IN SaveOr(copy, run' = NoRun, RunIs("starting", copy))
    /\ UNCHANGED <<kind, engineVars, sendVars, reached, done, stopped>>

\* Mutant: without an engine the run just returns.
StartBatchOrReturn ==
    /\ run.at = "starting"
    /\ run' = IF current = NoEngine THEN NoRun ELSE [run EXCEPT !.at = "next", !.of = current]
    /\ UNCHANGED <<kind, engineVars, sendVars, batch, flag, reached, done, stopped, used>>

\* The engine is looked up once; without one the batch fails, and the flag stays.
StartBatch ==
    /\ run.at = "starting"
    /\ IF current # NoEngine
       THEN run' = [run EXCEPT !.at = "next", !.of = current] /\ UNCHANGED <<batch, used>>
       ELSE SaveOr([run.copy EXCEPT !.status = "failed"], run' = NoRun, run' = NoRun)
    /\ UNCHANGED <<kind, engineVars, sendVars, flag, reached, done, stopped>>

\* The end of the loop: the batch's last save, cancelled or not.
FinishBatch(copy) ==
    LET last == IF flag = "go"
                THEN [copy EXCEPT !.status = IF copy.failed > 0 /\ copy.sent = 0
                                             THEN "failed" ELSE "completed"]
                ELSE copy
    IN SaveOr(last, run' = NoRun, RunIs("leaving", last))

\* Mutant: the progress is saved at the end only.
IsSavedLast(i, total) == i = total - 1

IsSaved(i, total) == i % SaveEvery = 0 \/ i = total - 1

\* The result of a message is noted.  An error may stop the batch; otherwise its progress is
\* saved every so often and after the last message.
NoteResult(copy) ==
    LET i == copy.index
        next == [copy EXCEPT !.index = i + 1]
    IN /\ done' = copy.results
       /\ IF copy.status = "failed" THEN FinishBatch(copy)
          ELSE IF IsSaved(i, copy.total)
          THEN SaveOr(next, run' = NoRun, RunIs("next", next))
          ELSE RunIs("next", next) /\ UNCHANGED <<batch, used>>

MessageSent ==
    NoteResult([run.copy EXCEPT !.sent = @ + 1, !.pending = @ - 1, !.results = @ + 1])

\* Mutant: the message that stops the batch is taken off the pending ones twice.
MessageFailedTwice ==
    NoteResult([run.copy EXCEPT !.failed = @ + 1, !.results = @ + 1,
                                !.pending = IF run.copy.stop THEN @ - 2 ELSE @ - 1,
                                !.status = IF run.copy.stop THEN "failed" ELSE @])

MessageFailed ==
    NoteResult([run.copy EXCEPT !.failed = @ + 1, !.pending = @ - 1, !.results = @ + 1,
                                !.status = IF run.copy.stop THEN "failed" ELSE @])

\* Mutant: the flag is looked at by the final update only.
IsCancelledNever == FALSE

IsCancelled == flag # "go"

\* The next message, after the pause: the loop ends when the flag is down or nothing is left.
NextMessage ==
    /\ run.at = "next"
    /\ IF run.copy.index = run.copy.total \/ IsCancelled
       THEN FinishBatch(run.copy) /\ UNCHANGED done
       ELSE \E way \in Ways(kind, Batch[run.copy.index + 1]) :
               IF way = "throws" \/ ~Ready(run.of) THEN MessageFailed
               ELSE /\ run' = [run EXCEPT !.at = IF way = "finds" THEN "finding file"
                                                 ELSE "sending"]
                    /\ UNCHANGED <<batch, done, used>>
    /\ UNCHANGED <<kind, engineVars, sendVars, flag, reached, stopped>>

\* A file to send has been downloaded, or not.
FindFile ==
    /\ run.at = "finding file"
    /\ \/ /\ Ready(run.of)
          /\ run' = [run EXCEPT !.at = "sending"] /\ UNCHANGED <<batch, done, used>>
       \/ MessageFailed
    /\ UNCHANGED <<kind, engineVars, sendVars, flag, reached, stopped>>

\* WhatsApp gets the message.
CarryMessage ==
    /\ run.at = "sending" /\ run.copy.index \notin reached
    /\ reached' = reached \cup {run.copy.index}
    /\ UNCHANGED <<kind, engineVars, sendVars, batch, run, flag, done, stopped, used>>

\* The client's call returns, or throws.
MessageReturns ==
    /\ run.at = "sending"
    /\ \/ run.copy.index \in reached /\ MessageSent
       \/ MessageFailed
    /\ UNCHANGED <<kind, engineVars, sendVars, flag, reached, stopped>>

\* After the last save the flag is dropped.
LeaveBatch ==
    /\ run.at = "leaving"
    /\ run' = NoRun /\ flag' = "none"
    /\ UNCHANGED <<kind, engineVars, sendVars, batch, reached, done, stopped, used>>

----------------------------------------------------------------------------
\* The gateway restarts: only rows are left, and nothing takes a batch up again.
Restart ==
    /\ used.restarts < MaxRestarts /\ Use("restarts")
    /\ instances' = [e \in 1..MaxEngines |-> "gone"] /\ current' = NoEngine
    /\ request' = [r \in 1..Requests |->
                      IF InFlight(r) THEN Answered(request[r], "lost") ELSE request[r]]
    /\ run' = NoRun /\ flag' = "none"
    /\ UNCHANGED <<kind, message, carried, batch, reached, done, stopped>>

Handle(r) ==
    \/ Hooked(r) \/ GetEngine(r) \/ BadMedia(r) \/ SaveOutgoing(r) \/ Find(r) \/ Carry(r)
    \/ Returns(r) \/ Rejects(r) \/ MarkSent(r) \/ MarkFailed(r) \/ Told(r)
    \/ CreateBatch(r) \/ CancelBatch(r)

Process ==
    \/ ProcessBatch \/ StartBatch \/ NextMessage \/ FindFile \/ CarryMessage \/ MessageReturns
    \/ LeaveBatch

Next ==
    \/ \E r \in 1..Requests :
          (\E op \in Ops : Ask(r, op)) \/ AskBatch(r) \/ AskCancel(r) \/ Handle(r)
    \/ Process
    \/ Started \/ Connected \/ Stopped \/ Restart

\* Handlers go on as their awaits resolve; a client's call returns or times out.
Fairness == WF_vars(Process) /\ \A r \in 1..Requests : WF_vars(Handle(r))

Spec == Init /\ [][Next]_vars /\ Fairness

----------------------------------------------------------------------------
(* Properties.                                                              *)

Places == {"unasked", "hooks", "asked", "recording", "finding", "sending", "marking",
           "failing", "telling", "free", "taken", "reading", "answered"}

\* Every variable has its type.
TypeOK ==
    /\ kind \in Kinds
    /\ instances \in [1..MaxEngines -> {"connecting", "ready", "gone"}]
    /\ current \in {NoEngine} \cup 1..MaxEngines
    /\ \A r \in 1..Requests :
          /\ request[r].job \in Operations \cup {"none", "bulk", "cancel"}
          /\ request[r].at \in Places
          /\ request[r].answer \in {"none", "ok", "error", "lost"}
          /\ message[r] \in MessageStatuses
    /\ carried \subseteq 1..Requests
    /\ batch \in BatchRows /\ run.copy \in BatchRows
    /\ run.at \in {"none", "finding", "starting", "next", "finding file", "sending", "leaving"}
    /\ flag \in {"none", "go", "stop"}
    /\ reached \subseteq 0..(Count - 1) /\ done \in 0..Count /\ stopped \in BOOLEAN

\* The words of message.service.ts, "Save message as pending BEFORE sending": WhatsApp never
\* carries a message out that has no row, and a row never says SENT of a message WhatsApp has
\* not carried out, whatever fails, stops or restarts in between.
NothingUnrecorded ==
    \A r \in 1..Requests : request[r].job \in Sends =>
        /\ r \in carried => message[r] # "none"
        /\ message[r] = "sent" => r \in carried

\* A caller told that something was done can rely on it: a message is on WhatsApp and its row
\* says so, and an operation that changes something on WhatsApp has been carried out there,
\* unless it is one of those whose refusal the whatsapp-web.js adapter does not look at; no
\* adapter answers for an operation it does not have.
DoneMeansDone ==
    \A r \in 1..Requests : request[r].answer = "ok" =>
        /\ request[r].job \in Operations \ Queries => r \in carried \/ IsIgnored(request[r])
        /\ request[r].job \in Sends => message[r] = "sent"

\* The same with no exception: what the groups', contacts' and channels' routes promise when
\* they answer { success: true }.
RefusalsAreTold ==
    \A r \in 1..Requests :
        request[r].answer = "ok" /\ request[r].job \in Operations \ Queries => r \in carried

\* The counters of a batch's row add up to its messages, whichever of the two writers of the
\* row, the run and the cancel, has overwritten the other with an older copy; and unless it was
\* cancelled or a save failed, the row is behind its run by fewer than SaveEvery results: so
\* much, and no more, is forgotten when the gateway restarts in the middle.
ProgressAddsUp ==
    /\ batch.sent + batch.failed + batch.pending + batch.cancelled = batch.total
    /\ (used.faults = 0 /\ \A r \in 1..Requests : request[r].job # "cancel")
          => done - batch.results < SaveEvery

\* After a cancel that came while the messages were being sent no further one is begun, and
\* the batch is not reported as completed (the one being sent may still arrive).
CancelStops ==
    [][stopped => /\ run'.at \in {"finding file", "sending"} => run.at # "next"
                  /\ batch'.status = "completed" => batch.status = "completed"]_vars

\* Every request is answered, and a batch that was accepted comes to an end, unless it is
\* cancelled, a save fails or the gateway restarts.  (There are finitely many requests, so this
\* says of each that it does not stay in flight.)
EverythingEnds ==
    <>[](/\ \A r \in 1..Requests : ~InFlight(r)
         /\ \/ batch.status \notin {"pending", "processing"}
            \/ used.faults > 0 \/ used.restarts > 0
            \/ \E r \in 1..Requests : request[r].job = "cancel")

\* "The system must cancel a running batch": once a batch is cancelled it stays cancelled.
CancelStands == [][batch.status = "cancelled" => batch'.status = "cancelled"]_vars
=============================================================================
