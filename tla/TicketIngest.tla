----------------------------- MODULE TicketIngest -----------------------------
(***************************************************************************)
(* How a tenant's backend turns the text messages of one WhatsApp group    *)
(* into tickets and updates (_handle_text_ingest of backend/main.py), next *)
(* to what staff do to the same rows from the dashboard.                   *)
(*                                                                         *)
(* One POST of the gateway is one request. The requests of several         *)
(* messages, or of one message that is delivered again while an earlier    *)
(* request still runs (the gateway has stopped waiting for it), interleave *)
(* at every await: the two duplicate checks, the routing and the commit of *)
(* each issue are steps of their own. The backend may end at any point;    *)
(* what was committed stays.                                               *)
(*                                                                         *)
(* Photos, which the same handler attaches in the end, are not here.       *)
(***************************************************************************)
EXTENDS Naturals, Sequences, FiniteSets

CONSTANTS
    NumMessages,   \* messages in the group, 1 the oldest (received_at)
    Requests,      \* requests that can run at once
    Topics,        \* what an issue can be about: a category and a plate
    Plated,        \* the topics whose plate resolve_plate_for_issue finds
    Split,         \* [Messages -> Seq(Issues)]: how a message splits into issues
    Mode,          \* "plain", "fleet" (FLEET_PLATE_MODE) or "lead" (LEAD_MODE)
    Limit,         \* open tickets that _get_open_tickets returns
    None,          \* no plate
    MaxTimeouts,   \* bound: POSTs the gateway repeats because no answer came in time
    MaxFaults,     \* bound: failed commits
    MaxRestarts,   \* bound: ends of the backend
    MaxActs        \* bound: what staff do

Messages == 1..NumMessages

\* An issue of a message; "sure" when its confidence reaches MIN_CONFIDENCE.
Issues == [text : Topics, sure : BOOLEAN]

ASSUME IngestAssumption ==
    /\ NumMessages \in Nat
    /\ Plated \subseteq Topics
    /\ None \notin Topics
    /\ Split \in [Messages -> Seq(Issues)]
    /\ Mode \in {"plain", "fleet", "lead"}
    /\ Limit \in Nat \ {0}
    /\ MaxTimeouts \in Nat /\ MaxFaults \in Nat
    /\ MaxRestarts \in Nat /\ MaxActs \in Nat

VARIABLES
    tickets,   \* incidents, in the order of their ids; none is ever deleted
    updates,   \* incident_updates: [id, ticket, msg, index, text]
    nextId,    \* the next id of incident_updates
    \* a request
    pc,        \* where it is
    msg,       \* the message it carries
    issues,    \* classification["issues"]
    listed,    \* the ids in open_tickets
    at,        \* the issue the loop is at, 1 standing for issue_index 0
    route,     \* the ticket the issue is routed to, 0 for a new one
    wrote,     \* tickets_created + updates_created is not zero
    \* histories
    answered,  \* [msg, status, sure]: the answers given, with the issues they are about
    raced,     \* messages whose requests overlapped or of which an update was promoted
    sent,      \* messages the gateway has POSTed
    timeouts, faults, restarts, acts   \* what the bounds have been spent on

rowVars     == <<tickets, updates, nextId>>
requestVars == <<pc, msg, issues, listed, at, route, wrote>>
budgetVars  == <<timeouts, faults, restarts, acts>>
vars == <<rowVars, requestVars, answered, raced, sent, budgetVars>>

\* "resolved" stands for "ignored" too.
Statuses == {"review", "resolved"}
Tickets == [msg : Messages, index : Nat, text : Topics,
            key : Topics \cup {None}, status : Statuses]
Updates == [id : Nat, ticket : Nat, msg : Messages, index : Nat, text : Topics]
Phases == {"idle", "classify", "list", "checkTickets", "checkUpdates", "insert"}
Outcomes == {"noise", "staged", "duplicate", "error"}

Init ==
    /\ tickets = << >> /\ updates = {} /\ nextId = 1
    /\ pc = [r \in Requests |-> "idle"]
    /\ msg = [r \in Requests |-> 0]
    /\ issues = [r \in Requests |-> << >>]
    /\ listed = [r \in Requests |-> {}]
    /\ at = [r \in Requests |-> 0]
    /\ route = [r \in Requests |-> 0]
    /\ wrote = [r \in Requests |-> FALSE]
    /\ answered = {} /\ raced = {} /\ sent = {}
    /\ timeouts = 0 /\ faults = 0 /\ restarts = 0 /\ acts = 0

-----------------------------------------------------------------------------
(* The rows a message and an issue_index already have. *)

\* MUTANT of HasTicket: the duplicate check of the days of one issue a message.
HasTicket_ByMessage(m, i) == \E k \in DOMAIN tickets : tickets[k].msg = m

HasTicket(m, i) == \E k \in DOMAIN tickets : tickets[k].msg = m /\ tickets[k].index = i
HasUpdate(m, i) == \E u \in updates : u.msg = m /\ u.index = i

IsOpen(k) == tickets[k].status # "resolved"

\* The ids _get_open_tickets may return: the Limit newest by received_at.
OpenLists ==
    LET open == {k \in DOMAIN tickets : IsOpen(k)}
    IN  {S \in SUBSET open :
            /\ Cardinality(S) = IF Cardinality(open) < Limit THEN Cardinality(open) ELSE Limit
            /\ \A k \in S, j \in open \ S : tickets[k].msg >= tickets[j].msg}

\* What the classifier may make of a message. At temperature 0 it is the one
\* split of the message; otherwise order and confidence may differ from call to
\* call. A failed call is an empty list.
Splits(m) ==
    IF Mode = "fleet"
    THEN {Split[m], << >>}
    ELSE {<< >>} \cup
         {s \in [DOMAIN Split[m] -> Issues] :
             \E p \in [DOMAIN Split[m] -> DOMAIN Split[m]] :
                /\ \A i, j \in DOMAIN p : p[i] = p[j] => i = j
                /\ \A i \in DOMAIN p : s[i].text = Split[m][p[i]].text}

\* _route_issue: the tickets an issue may go to, 0 standing for a new one. Of
\* several open tickets of a plate and category any one may be listed first.
Routes(text, list) ==
    CASE Mode = "lead"  -> {0}
      [] Mode = "plain" -> list \cup {0}
      [] Mode = "fleet" ->
            LET same == {k \in list : text \in Plated /\ tickets[k].key = text}
            IN  IF same = {} THEN {0} ELSE same

\* The plate and category a new ticket gets.
KeyOf(text) == IF Mode = "fleet" /\ text \in Plated THEN text ELSE None

-----------------------------------------------------------------------------
(* A request. *)

Running(m) == \E q \in Requests : pc[q] # "idle" /\ msg[q] = m

\* The gateway POSTs a message: for the first time, again because the backend
\* ended before it answered, or again because it has stopped waiting for an
\* answer that is still to come, or came too late.
Deliver(r, m) ==
    /\ pc[r] = "idle"
    /\ \/ /\ m \notin sent \/ (~Running(m) /\ \A a \in answered : a.msg # m)
          /\ UNCHANGED timeouts
       \/ /\ m \in sent /\ timeouts < MaxTimeouts
          /\ timeouts' = timeouts + 1
    /\ sent' = sent \cup {m}
    /\ pc' = [pc EXCEPT ![r] = "classify"]
    /\ msg' = [msg EXCEPT ![r] = m]
    /\ wrote' = [wrote EXCEPT ![r] = FALSE]
    /\ raced' = IF Running(m) THEN raced \cup {m} ELSE raced
    /\ UNCHANGED <<rowVars, issues, listed, at, route, answered, faults, restarts, acts>>

SureTexts(list) == {list[i].text : i \in {j \in DOMAIN list : list[j].sure}}

\* The request is answered; status is what the 202 says.
Answer(r, list, status) ==
    /\ pc' = [pc EXCEPT ![r] = "idle"]
    /\ answered' = answered \cup
                    {[msg |-> msg[r], status |-> status, sure |-> SureTexts(list)]}

\* classify_message: nothing sure in it is noise.
Classify(r) ==
    /\ pc[r] = "classify"
    /\ \E list \in Splits(msg[r]) :
          /\ issues' = [issues EXCEPT ![r] = list]
          /\ at' = [at EXCEPT ![r] = 1]
          /\ IF SureTexts(list) = {}
             THEN Answer(r, list, "noise")
             ELSE pc' = [pc EXCEPT ![r] = "list"] /\ UNCHANGED answered
    /\ UNCHANGED <<rowVars, msg, listed, route, wrote, raced, sent, budgetVars>>

ListOpen(r) ==
    /\ pc[r] = "list"
    /\ \E list \in OpenLists : listed' = [listed EXCEPT ![r] = list]
    /\ pc' = [pc EXCEPT ![r] = "checkTickets"]
    /\ UNCHANGED <<rowVars, msg, issues, at, route, wrote, answered, raced, sent, budgetVars>>

\* The loop is through with the issue it is at; after the last one the request
\* is answered. written: this issue left a row.
NextIssue(r, written) ==
    LET any == wrote[r] \/ written
    IN  /\ wrote' = [wrote EXCEPT ![r] = any]
        /\ at' = [at EXCEPT ![r] = @ + 1]
        /\ IF at[r] = Len(issues[r])
           THEN Answer(r, issues[r], IF any THEN "staged" ELSE "duplicate")
           ELSE pc' = [pc EXCEPT ![r] = "checkTickets"] /\ UNCHANGED answered

\* An issue that is not sure is passed over; dup_incident.
CheckTickets(r) ==
    /\ pc[r] = "checkTickets"
    /\ IF ~issues[r][at[r]].sure \/ HasTicket(msg[r], at[r])
       THEN NextIssue(r, FALSE)
       ELSE pc' = [pc EXCEPT ![r] = "checkUpdates"] /\ UNCHANGED <<at, wrote, answered>>
    /\ UNCHANGED <<rowVars, msg, issues, listed, route, raced, sent, budgetVars>>

\* MUTANT of CheckUpdates: without dup_update.
CheckUpdates_Skipped(r) ==
    /\ pc[r] = "checkUpdates"
    /\ \E k \in Routes(issues[r][at[r]].text, listed[r]) :
          route' = [route EXCEPT ![r] = k]
    /\ pc' = [pc EXCEPT ![r] = "insert"]
    /\ UNCHANGED <<rowVars, msg, issues, listed, at, wrote, answered, raced, sent, budgetVars>>

\* dup_update, and the routing of an issue that has no row.
CheckUpdates(r) ==
    /\ pc[r] = "checkUpdates"
    /\ IF HasUpdate(msg[r], at[r])
       THEN NextIssue(r, FALSE) /\ UNCHANGED route
       ELSE /\ \E k \in Routes(issues[r][at[r]].text, listed[r]) :
                  route' = [route EXCEPT ![r] = k]
            /\ pc' = [pc EXCEPT ![r] = "insert"]
            /\ UNCHANGED <<at, wrote, answered>>
    /\ UNCHANGED <<rowVars, msg, issues, listed, raced, sent, budgetVars>>

\* The commit of an update; the unique constraint of the table turns a row that
\* has meanwhile been stored into a skipped duplicate.
InsertUpdate(r) ==
    /\ pc[r] = "insert" /\ route[r] # 0
    /\ IF HasUpdate(msg[r], at[r])
       THEN NextIssue(r, FALSE) /\ UNCHANGED rowVars
       ELSE /\ updates' = updates \cup {[id |-> nextId, ticket |-> route[r], msg |-> msg[r],
                                         index |-> at[r], text |-> issues[r][at[r]].text]}
            /\ nextId' = nextId + 1
            /\ NextIssue(r, TRUE)
            /\ UNCHANGED tickets
    /\ UNCHANGED <<msg, issues, listed, route, raced, sent, budgetVars>>

\* The commit of a new ticket, which then joins open_tickets.
InsertTicket(r) ==
    /\ pc[r] = "insert" /\ route[r] = 0
    /\ IF HasTicket(msg[r], at[r])
       THEN NextIssue(r, FALSE) /\ UNCHANGED <<rowVars, listed>>
       ELSE /\ LET text == issues[r][at[r]].text
               IN  tickets' = Append(tickets,
                                     [msg |-> msg[r], index |-> at[r], text |-> text,
                                      key |-> KeyOf(text), status |-> "review"])
            /\ listed' = [listed EXCEPT ![r] = @ \cup {Len(tickets) + 1}]
            /\ NextIssue(r, TRUE)
            /\ UNCHANGED <<updates, nextId>>
    /\ UNCHANGED <<msg, issues, route, raced, sent, budgetVars>>

\* Any other database error in the commit is answered with a 202 "error".
InsertFails(r) ==
    /\ pc[r] = "insert" /\ faults < MaxFaults
    /\ faults' = faults + 1
    /\ Answer(r, issues[r], "error")
    /\ UNCHANGED <<rowVars, msg, issues, listed, at, route, wrote, raced, sent,
                   timeouts, restarts, acts>>

-----------------------------------------------------------------------------
(* Staff, and the process. *)

Act == acts < MaxActs /\ acts' = acts + 1

\* PATCH /incidents/{id}/status.
UpdateStatus(k, status) ==
    /\ tickets[k].status # status /\ Act
    /\ tickets' = [tickets EXCEPT ![k].status = status]
    /\ UNCHANGED <<updates, nextId, requestVars, answered, raced, sent,
                   timeouts, faults, restarts>>

\* PATCH /incidents/{update_id}/relink to another ticket.
Relink(u, k) ==
    /\ u.ticket # k /\ Act
    /\ updates' = (updates \ {u}) \cup {[u EXCEPT !.ticket = k]}
    /\ UNCHANGED <<tickets, nextId, requestVars, answered, raced, sent,
                   timeouts, faults, restarts>>

\* MUTANT of Promote: the update goes before the ticket is there.
Promote_DeletesFirst(u) ==
    /\ Act
    /\ raced' = raced \cup {u.msg}
    /\ updates' = updates \ {u}
    /\ IF HasTicket(u.msg, 1)
       THEN UNCHANGED tickets
       ELSE tickets' = Append(tickets, [msg |-> u.msg, index |-> 1, text |-> u.text,
                                        key |-> None, status |-> "review"])
    /\ UNCHANGED <<nextId, requestVars, answered, sent, timeouts, faults, restarts>>

\* MUTANT of Promote: the ticket without an issue_index.
Promote_NoIndex(u) ==
    /\ Act
    /\ raced' = raced \cup {u.msg}
    /\ tickets' = Append(tickets, [msg |-> u.msg, index |-> None, text |-> u.text,
                                   key |-> None, status |-> "review"])
    /\ updates' = updates \ {u}
    /\ UNCHANGED <<nextId, requestVars, answered, sent, timeouts, faults, restarts>>

\* PATCH /incidents/{id}/relink without a ticket: the update becomes a ticket of
\* its own, of category "other", at issue_index 0. If the message has a ticket there the
\* insert fails and everything is rolled back.
Promote(u) ==
    /\ Act
    /\ raced' = raced \cup {u.msg}
    /\ IF HasTicket(u.msg, 1)
       THEN UNCHANGED <<tickets, updates>>
       ELSE /\ tickets' = Append(tickets, [msg |-> u.msg, index |-> 1, text |-> u.text,
                                           key |-> None, status |-> "review"])
            /\ updates' = updates \ {u}
    /\ UNCHANGED <<nextId, requestVars, answered, sent, timeouts, faults, restarts>>

\* The backend ends: its requests are never answered.
ProcessEnds ==
    /\ restarts < MaxRestarts
    /\ restarts' = restarts + 1
    /\ pc' = [r \in Requests |-> "idle"]
    /\ UNCHANGED <<rowVars, msg, issues, listed, at, route, wrote, answered, raced,
                   sent, timeouts, faults, acts>>

RequestStep(r) ==
    \/ Classify(r) \/ ListOpen(r)
    \/ CheckTickets(r) \/ CheckUpdates(r)
    \/ InsertUpdate(r) \/ InsertTicket(r) \/ InsertFails(r)

Next ==
    \/ \E r \in Requests, m \in Messages : Deliver(r, m)
    \/ \E r \in Requests : RequestStep(r)
    \/ \E k \in DOMAIN tickets, status \in Statuses : UpdateStatus(k, status)
    \/ \E u \in updates, k \in DOMAIN tickets : Relink(u, k)
    \/ \E u \in updates : Promote(u)
    \/ ProcessEnds

Spec == Init /\ [][Next]_vars

-----------------------------------------------------------------------------
(* Properties. *)

RowTypes ==
    /\ tickets \in Seq(Tickets)
    /\ updates \subseteq Updates
    /\ nextId \in Nat

RequestTypes ==
    /\ pc \in [Requests -> Phases]
    /\ msg \in [Requests -> Messages \cup {0}]
    /\ issues \in [Requests -> Seq(Issues)]
    /\ listed \in [Requests -> SUBSET Nat]
    /\ at \in [Requests -> Nat]
    /\ route \in [Requests -> Nat]
    /\ wrote \in [Requests -> BOOLEAN]

HistoryTypes ==
    /\ answered \subseteq [msg : Messages, status : Outcomes, sure : SUBSET Topics]
    /\ raced \subseteq Messages
    /\ sent \subseteq Messages
    /\ timeouts \in Nat /\ faults \in Nat /\ restarts \in Nat /\ acts \in Nat

\* Every variable has its type.
TypeOK == RowTypes /\ RequestTypes /\ HistoryTypes

\* A row stands for the text of a message, in either table.
Stored(m, text) ==
    \/ \E k \in DOMAIN tickets : tickets[k].msg = m /\ tickets[k].text = text
    \/ \E u \in updates : u.msg = m /\ u.text = text

\* A message that was answered "staged" or "duplicate" has every sure issue of
\* that answer in one of the tables, whatever other requests of it, restarts,
\* rolled back commits and staff did in between (main.py:719-831).
NothingDropped ==
    \A a \in answered :
        a.status \in {"staged", "duplicate"} =>
            \A text \in a.sure : Stored(a.msg, text)

\* An issue_index of a message has one row, in one of the two tables, however
\* often the message is delivered and whatever became of the earlier requests
\* (main.py:724-736), as long as its requests do not overlap and none of its
\* updates is promoted.
StoredOnce ==
    \A m \in Messages \ raced : \A i \in 1..Len(Split[m]) :
        Cardinality({k \in DOMAIN tickets : tickets[k].msg = m /\ tickets[k].index = i})
        + Cardinality({u \in updates : u.msg = m /\ u.index = i}) <= 1

\* What was stored of a message stays stored: relinking and promoting move the
\* text of an update and never lose it, not even when the promotion is rolled
\* back (main.py:1919-2000).
StoredStays ==
    [][\A m \in Messages, text \in Topics :
          Stored(m, text) => Stored(m, text)']_vars

\* What docs/superpowers/specs/2026-07-03-multi-ticket-message-split-design.md:94
\* says: even when two requests of a message race, the unique constraints leave
\* one row for each of its issue_index.
RaceIsCaught ==
    \A m \in Messages : \A i \in 1..Len(Split[m]) : ~(HasTicket(m, i) /\ HasUpdate(m, i))

\* What docs/superpowers/specs/2026-07-11-pixiilive-fleet-plate-flow-design.md:15
\* says: a message never opens a second ticket for a plate and category of
\* which a ticket is open.
ThreadsIn ==
    [][\A k \in DOMAIN tickets' \ DOMAIN tickets :
          tickets'[k].key # None =>
             ~ \E j \in DOMAIN tickets : IsOpen(j) /\ tickets[j].key = tickets'[k].key]_vars
=============================================================================
