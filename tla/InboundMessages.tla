-------------------------- MODULE InboundMessages --------------------------
(***************************************************************************)
(* What comes in on a Baileys session (baileys.adapter.ts): messages with  *)
(* the media they bring, the history a phone pushes after a link, contacts *)
(* and group lists.  Messages go through the session service's hooks to    *)
(* the webhooks (session.service.ts) and are kept for replies              *)
(* (baileys-session-store.ts); history goes to a file; contacts go to the  *)
(* directory and, two seconds later, to its file.  Each start of the       *)
(* session makes a new engine, which reads that file, while the last one   *)
(* may still be writing it.  All chats are direct ones.                    *)
(***************************************************************************)
EXTENDS ContactDirectory, Sequences

CONSTANTS Messages, Media,  \* live messages, those that bring a file
          Chunks,           \* chunks of history: each the sequence of its messages, one at least
          Who,              \* the sender of each message, live or past
          MaxPerChat,       \* messages kept per chat
          MaxEngines, MaxEvents  \* bounds: engines, and starts, stops, inputs, crashes

Engines == 1..MaxEngines

ASSUME InboundAssumption ==
    /\ Media \subseteq Messages /\ MaxPerChat \in Nat \ {0}
    /\ MaxEngines \in Nat /\ MaxEvents \in Nat
    /\ Messages \subseteq DOMAIN Who /\ \A m \in DOMAIN Who : Who[m] \in People
    /\ Chunks \subseteq Seq(DOMAIN Who) \ {<<>>}

VARIABLES
    engine,     \* the adapters made so far: directory, dirty, timer, store
    current,    \* the one the session has, 0 for none
    message,    \* where each live message is
    saves,      \* the saves in flight, by engine: what is written, and how far
    disk, tmp,  \* the directory's file and the file that becomes it
    history,    \* what is in the history file: whole lines, heads and tails of lines
    appends,    \* the chunks that are being appended, and how much of each is written
    kept,       \* history: the messages whose append has ended
    overlapped, \* history: two writers of the directory's file have been at work at once
    used        \* how much of the bounds is used up

vars == <<engine, current, message, saves, disk, tmp, history, appends, kept, overlapped, used>>
incoming == <<message, history, appends, kept>>
stored == <<saves, disk, tmp>>

\* A file, and the directory that is read from it: none from a torn or a missing one.
File(is, dir) == [is |-> is, dir |-> dir]
Missing == File("missing", Empty)
Torn == File("torn", Empty)
NoEngine == [dir |-> Empty, dirty |-> FALSE, timer |-> FALSE, store |-> [i \in Ids |-> <<>>]]
NoMessage == [at |-> "coming", by |-> 0, nr |-> 0, chat |-> "lid"]

Use == used.events < MaxEvents /\ used' = [used EXCEPT !.events = @ + 1]

Init ==
    /\ engine = [e \in Engines |-> NoEngine] /\ current = 0
    /\ message = [m \in Messages |-> NoMessage]
    /\ saves = {} /\ disk = Missing /\ tmp = Missing
    /\ history = <<>> /\ appends = {} /\ kept = {}
    /\ overlapped = FALSE
    /\ used = [engines |-> 0, events |-> 0]

----------------------------------------------------------------------------
(* The directory of an engine and its file.                                 *)

\* load: a file that is missing or torn is an empty directory.
Load == disk.dir

\* scheduleSave, when there is something new.
Learned(e, d) ==
    IF Changed(engine[e].dir, d)
    THEN [engine[e] EXCEPT !.dir = d, !.dirty = TRUE, !.timer = TRUE]
    ELSE [engine[e] EXCEPT !.dir = d]

\* Another engine than e has something to write, or is writing it.
IsBusyElsewhere(e) ==
    \/ \E s \in saves : s.by # e
    \/ \E o \in Engines \ {e} : engine[o].dirty

\* The save begins: what is there now is written over the temporary file.  A save of the same
\* file that is still being written and this one may leave a mixture.
BeginSave(e, caught) ==
    IF engine[e].dirty
    THEN LET alone == \A o \in saves : o.at # "writing"
             started == [by |-> e, nr |-> Cardinality(saves), dir |-> engine[e].dir,
                         at |-> "writing", onto |-> "tmp", alone |-> alone, caught |-> caught]
         IN /\ saves' = {IF o.at = "writing" THEN [o EXCEPT !.alone = FALSE] ELSE o : o \in saves}
                        \cup {started}
            /\ tmp' = Torn
            /\ overlapped' = (overlapped \/ saves # {})
            /\ UNCHANGED disk
    ELSE UNCHANGED <<stored, overlapped>>

\* What is left of an engine that is no longer the session's: a directory to be saved.
Ended(e) == IF e.timer THEN [NoEngine EXCEPT !.dir = e.dir, !.dirty = TRUE, !.timer = TRUE]
            ELSE NoEngine

\* The two seconds are over, also on an engine that is no longer the session's.
Timer(e) ==
    /\ engine[e].timer
    /\ BeginSave(e, FALSE)
    /\ engine' = [engine EXCEPT ![e] =
                    IF e = current THEN [@ EXCEPT !.timer = FALSE, !.dirty = FALSE] ELSE NoEngine]
    /\ UNCHANGED <<current, incoming, used>>

\* The content is written.
Written(s) ==
    /\ s \in saves /\ s.at = "writing"
    /\ \E content \in {File("whole", s.dir)} \cup (IF s.alone THEN {} ELSE {Torn}) :
          IF s.onto = "tmp" THEN tmp' = content /\ UNCHANGED disk
          ELSE disk' = content /\ UNCHANGED tmp
    /\ saves' = (saves \ {s}) \cup {[s EXCEPT !.at = "renaming"]}
    /\ UNCHANGED <<engine, current, incoming, overlapped, used>>

\* Mutant: what is new is marked as saved when the save is through.
DoneAtEnd(e) == [engine EXCEPT ![e].dirty = FALSE]

Done(e) == engine

\* The temporary file takes the place of the other; who is still writing it writes on there.
Renamed(s) ==
    /\ s \in saves /\ s.at = "renaming" /\ tmp # Missing
    /\ disk' = tmp /\ tmp' = Missing
    /\ saves' = {IF o.at = "writing" THEN [o EXCEPT !.onto = "disk"] ELSE o : o \in saves \ {s}}
    /\ engine' = Done(s.by)
    /\ UNCHANGED <<current, incoming, overlapped, used>>

\* The memory of the process is gone, the appends and the saves stay as far as they are.
Dies ==
    /\ engine' = [e \in Engines |-> NoEngine] /\ current' = 0
    /\ message' = [m \in Messages |-> IF message[m].at \in {"fetching", "hooks"}
                                      THEN [message[m] EXCEPT !.at = "lost"] ELSE message[m]]
    /\ saves' = {} /\ appends' = {} /\ overlapped' = FALSE
    /\ tmp' = Missing    \* what is left of it is never read
    /\ UNCHANGED <<disk, history, kept>>

\* A save fails: the directory of the file cannot be written, or another save has renamed the
\* temporary file already.  destroy() logs it; the timer's save is a rejection that nobody
\* handles, and the process ends.
SaveFails(s) ==
    /\ s \in saves
    /\ \/ s.at = "renaming" /\ tmp = Missing /\ UNCHANGED used
       \/ Use
    /\ IF s.caught
       THEN saves' = saves \ {s} /\ UNCHANGED <<engine, current, incoming, disk, tmp, overlapped>>
       ELSE Dies

Crash == Use /\ Dies

----------------------------------------------------------------------------
(* The session's engine.                                                    *)

\* The constructor loads the file; the connection opens and the groups are asked for.
Start ==
    /\ current = 0 /\ used.engines < MaxEngines /\ used.events < MaxEvents
    /\ used' = [engines |-> used.engines + 1, events |-> used.events + 1]
    /\ LET e == used.engines + 1 IN
       /\ engine' = [engine EXCEPT ![e] = [NoEngine EXCEPT !.dir = Load]]
       /\ current' = e
       /\ overlapped' = (overlapped \/ IsBusyElsewhere(e))
    /\ UNCHANGED <<incoming, stored>>

\* destroy(): nothing is listened to, the group fetch ends with the socket, and the directory
\* is saved; nobody waits for it.
Destroy ==
    /\ current # 0 /\ Use
    /\ BeginSave(current, TRUE)
    /\ engine' = [engine EXCEPT ![current] = NoEngine]
    /\ current' = 0
    /\ UNCHANGED incoming

\* disconnect(), on a stop: the socket ends, and no more comes; the timer stays.
Disconnect ==
    /\ current # 0 /\ Use
    /\ engine' = [engine EXCEPT ![current] = Ended(@)]
    /\ current' = 0
    /\ UNCHANGED <<incoming, stored, overlapped>>

\* contacts.upsert, contacts.update, phoneNumberShare, groups.upsert.
Contact ==
    /\ current # 0 /\ Use
    /\ \E p \in People, forms \in SUBSET Forms \ {{}}, fields \in {{}, {"savedName"}} :
          engine' = [engine EXCEPT ![current] =
                        Learned(current, LearnContact(@.dir, p, forms, fields))]
    /\ UNCHANGED <<current, incoming, stored, overlapped>>

\* learnGroupParticipants, after the connection opens: a member of a group, with both ids.
GroupsCome ==
    /\ current # 0 /\ Use
    /\ \E p \in People :
          engine' = [engine EXCEPT ![current] =
                        Learned(current, LearnContact(@.dir, p, Forms, {}))]
    /\ UNCHANGED <<current, incoming, stored, overlapped>>

----------------------------------------------------------------------------
(* Live messages.                                                           *)

\* Mutant: the message is kept under the id it came with.
AddUnresolved(store, p, form, chat, m) ==
    [store EXCEPT ![<<p, form>>] =
        LET all == Append(@, m) IN IF Len(all) > MaxPerChat THEN Tail(all) ELSE all]

\* add: the last messages of a chat.
Add(store, p, form, chat, m) ==
    [store EXCEPT ![<<p, chat>>] =
        LET all == Append(@, m) IN IF Len(all) > MaxPerChat THEN Tail(all) ELSE all]

\* handleIncomingMessage, up to the download: the ids on its key and its name are learned, and
\* it is kept for replies.  A file that is too large is left out.
Arrive(m) ==
    /\ current # 0 /\ message[m].at = "coming" /\ Use
    /\ \E form \in Forms, disclosed, named \in BOOLEAN :
          LET p == Who[m]
              learned == IF disclosed THEN LearnContact(engine[current].dir, p, Forms, {})
                         ELSE engine[current].dir
              chat == Resolve(learned, p, form)
              nr == 1 + Cardinality({n \in Messages : message[n].at # "coming"})
          IN /\ engine' = [engine EXCEPT ![current] =
                    [Learned(current, LearnPushName(learned, p, form, named))
                        EXCEPT !.store = Add(@, p, form, chat, m)]]
             /\ \E at \in {"hooks"} \cup (IF m \in Media THEN {"fetching"} ELSE {}) :
                   message' = [message EXCEPT ![m] = [at |-> at, by |-> current, nr |-> nr,
                                                      chat |-> chat]]
    /\ UNCHANGED <<current, history, appends, kept, stored, overlapped>>

\* The file is there, or could not be had; an engine that is no longer the session's is ignored.
Fetched(m) ==
    /\ message[m].at = "fetching"
    /\ message' = [message EXCEPT ![m].at = IF message[m].by = current THEN "hooks" ELSE "dropped"]
    /\ UNCHANGED <<engine, current, history, appends, kept, stored, overlapped, used>>

\* A plugin stops the message, or it goes to the webhooks.
Hooked(m) ==
    /\ message[m].at = "hooks"
    /\ \E at \in {"dispatched", "stopped"} : message' = [message EXCEPT ![m].at = at]
    /\ UNCHANGED <<engine, current, history, appends, kept, stored, overlapped, used>>

----------------------------------------------------------------------------
(* The history.                                                             *)

\* messaging-history.set: its contacts are learned, then the senders of its messages.  Their
\* keys rarely carry a second id or a name.
HistoryComes ==
    /\ current # 0 /\ Use
    /\ \E chunk \in Chunks, raw \in Forms, mapped \in BOOLEAN :
          LET first == engine[current].dir
              dir == IF mapped THEN LearnContact(first, Who[chunk[1]], Forms, {"pushName"})
                     ELSE first
          IN /\ ~\E a \in appends : a.chunk = chunk
             /\ engine' = [engine EXCEPT ![current] = Learned(current,
                    LearnSenders(dir, {Who[chunk[i]] : i \in DOMAIN chunk}, raw))]
             /\ appends' = appends \cup {[chunk |-> chunk, written |-> 0,
                    lines |-> [i \in DOMAIN chunk |->
                        [of |-> chunk[i], form |-> Resolve(dir, Who[chunk[i]], raw)]]]}
    /\ UNCHANGED <<current, message, history, kept, stored, overlapped>>

Piece(line, part) == [of |-> line.of, form |-> line.form, part |-> part]

\* appendFile writes a large chunk in several writes, which cut a line anywhere.
AppendPart(a) ==
    /\ a \in appends /\ a.written = 0
    /\ \E i \in DOMAIN a.lines :
          /\ history' = history
                \o [j \in 1..i |-> Piece(a.lines[j], IF j = i THEN "head" ELSE "whole")]
          /\ appends' = (appends \ {a}) \cup {[a EXCEPT !.written = i]}
    /\ UNCHANGED <<engine, current, message, kept, stored, overlapped, used>>

\* What is left to write: the tail of the line that was cut, and the lines after it.
LeftOf(a) ==
    (IF a.written = 0 THEN <<>> ELSE <<Piece(a.lines[a.written], "tail")>>)
    \o [j \in 1..(Len(a.lines) - a.written) |-> Piece(a.lines[a.written + j], "whole")]

AppendRest(a) ==
    /\ a \in appends
    /\ history' = history \o LeftOf(a)
    /\ appends' = appends \ {a}
    /\ kept' = kept \cup {a.lines[i].of : i \in DOMAIN a.lines}
    /\ UNCHANGED <<engine, current, message, stored, overlapped, used>>

\* A line that parses: whole or in two halves, and nothing unfinished before it.
IsHead(i) == i \in DOMAIN history /\ history[i].part = "head"
Continues(i) == IsHead(i - 1) /\ history[i] = [history[i - 1] EXCEPT !.part = "tail"]
Parses(i) ==
    \/ history[i].part = "whole" /\ ~IsHead(i - 1)
    \/ history[i].part = "tail" /\ Continues(i) /\ ~IsHead(i - 2)

\* Mutant: what was saved is answered as it was saved.
AnswerAsSaved(dir, m) ==
    LET lines == {i \in DOMAIN history : history[i].of = m /\ Parses(i)}
    IN IF lines = {} THEN "none"
       ELSE history[CHOOSE i \in lines : \A j \in lines : j <= i].form

\* getHistory: the last copy of a message, its sender resolved again.
Answer(dir, m) ==
    LET lines == {i \in DOMAIN history : history[i].of = m /\ Parses(i)}
    IN IF lines = {} THEN "none"
       ELSE Resolve(dir, Who[m], history[CHOOSE i \in lines : \A j \in lines : j <= i].form)

\* The session's engine answers; a stopped session's history is read with a new one.
AnswerNow(m) == Answer(IF current = 0 THEN Load ELSE engine[current].dir, m)

----------------------------------------------------------------------------
Next ==
    \/ Start \/ Destroy \/ Disconnect \/ Crash
    \/ \E e \in Engines : Timer(e)
    \/ \E s \in saves : Written(s) \/ Renamed(s) \/ SaveFails(s)
    \/ Contact \/ GroupsCome \/ HistoryComes
    \/ \E m \in Messages : Arrive(m) \/ Fetched(m) \/ Hooked(m)
    \/ \E a \in appends : AppendPart(a) \/ AppendRest(a)

Spec == Init /\ [][Next]_vars

----------------------------------------------------------------------------
(* Properties.                                                              *)

\* Every variable has its type, and every name an entry that carries it.
TypeOK ==
    /\ current \in {0} \cup Engines /\ overlapped \in BOOLEAN
    /\ \A e \in Engines : /\ engine[e].dir \in Directories
                         /\ \A n \in engine[e].dir.names : n[1] \in engine[e].dir.there
    /\ \A m \in Messages : message[m].by \in {0} \cup Engines /\ message[m].chat \in Forms
    /\ \A f \in {disk, tmp} : f.dir \in Directories /\ f.is \in {"missing", "torn", "whole"}
    /\ \A s \in saves : s.by \in Engines /\ s.dir \in Directories
    /\ \A i \in DOMAIN history : history[i].part \in {"whole", "head", "tail"}

Covers(d, e) == e.known \subseteq d.known /\ e.names \subseteq d.names

\* What the session's engine has learned is in the file, on its way there, or has a timer that
\* will write it - also when more is learned while a save is under way, and across restarts of
\* the session and of the process.  Two writers at once are the exception (see overlapped).
NothingForgotten ==
    current # 0 /\ ~overlapped =>
        LET e == engine[current] IN
        \/ Covers(Load, e.dir)
        \/ e.dirty /\ e.timer
        \/ \E s \in saves : s.by = current /\ Covers(s.dir, e.dir)

\* A reply to a message that the webhooks were given quotes it: it is found under the chat that
\* was dispatched, whatever has been learned about the sender since, until MaxPerChat messages
\* of that chat have come after it or the engine is replaced.
RepliesFind ==
    \A m \in Messages : message[m].at = "dispatched" /\ current # 0 /\ message[m].by = current =>
        LET later == {n \in Messages : message[n].by = current /\ Who[n] = Who[m]
                                       /\ message[n].chat = message[m].chat
                                       /\ message[n].nr > message[m].nr}
        IN \/ \E i \in DOMAIN engine[current].store[<<Who[m], message[m].chat>>] :
                 engine[current].store[<<Who[m], message[m].chat>>][i] = m
           \/ Cardinality(later) >= MaxPerChat

Finished == \A i \in DOMAIN history :
                IsHead(i) => \/ i = Len(history) /\ appends # {}
                             \/ i < Len(history) /\ Continues(i + 1)

\* A backfill finds every message whose append has ended, and under the phone number of its
\* sender as soon as the directory that answers knows it - while the session runs, stopped, and
\* after a restart - as long as no line was cut off by a crash or by another chunk.
HistoryAnswered ==
    Finished => \A m \in kept :
        /\ AnswerNow(m) # "none"
        /\ Who[m] \in (IF current = 0 THEN Load ELSE engine[current].dir).known
           => AnswerNow(m) = "pn"

----------------------------------------------------------------------------
(* What the comments in the code say and the code does not do.              *)

\* "a torn final line from a crash mid-append -- skip it": the message that was cut off is
\* lost, and only that one.
HistoryKept == \A m \in kept : AnswerNow(m) # "none"

\* "An entry first learned under its @lid moves to the phone number once known."
NameFollows ==
    current # 0 => \A p \in engine[current].dir.known :
        NamesUnder(engine[current].dir, p, "lid") # {} =>
            NameFor(engine[current].dir, p, "lid") # "none"
=============================================================================
