-------------------------- MODULE TicketIngestProofs --------------------------
(* What TLAPS proves of TicketIngest, for any messages, requests and bounds. *)
EXTENDS TicketIngest, FiniteSetTheorems, TLAPS

Looping == {"checkTickets", "checkUpdates", "insert"}

\* Where a request is says what it holds.
RequestShape ==
    \A r \in Requests :
        /\ pc[r] # "idle" => msg[r] \in Messages
        /\ pc[r] = "list" => at[r] = 1 /\ issues[r] # << >>
        /\ pc[r] \in Looping => at[r] \in DOMAIN issues[r]

TypeInv == TypeOK /\ RequestShape

-----------------------------------------------------------------------------
(* The operators of the model. *)

\* A message splits into issues, whatever the mode.
LEMMA SplitsType ==
    ASSUME NEW m \in Messages, NEW s \in Splits(m)
    PROVE  s \in Seq(Issues)
<1>1. Split[m] \in Seq(Issues)
    BY IngestAssumption
<1>2. CASE s = << >>
    BY <1>2
<1>3. CASE s = Split[m]
    BY <1>1, <1>3
<1>4. CASE s \in [DOMAIN Split[m] -> Issues]
    <2>1. DOMAIN Split[m] = 1..Len(Split[m]) /\ Len(Split[m]) \in Nat
        BY <1>1
    <2> QED
        BY <1>4, <2>1
<1> QED
    BY <1>2, <1>3, <1>4 DEF Splits

\* An issue is routed to 0 or to a listed ticket.
LEMMA RoutesType ==
    ASSUME NEW text, NEW list, NEW k \in Routes(text, list)
    PROVE  k \in list \cup {0}
<1>1. CASE Mode = "lead"
    BY <1>1 DEF Routes
<1>2. CASE Mode = "plain"
    BY <1>2 DEF Routes
<1>3. CASE Mode = "fleet"
    BY <1>3 DEF Routes
<1> QED
    BY <1>1, <1>2, <1>3, IngestAssumption

\* The texts of an answer are topics.
LEMMA SureTextsType ==
    ASSUME NEW list \in Seq(Issues)
    PROVE  SureTexts(list) \in SUBSET Topics
<1>1. \A i \in DOMAIN list : list[i] \in Issues
    OBVIOUS
<1>2. \A i \in DOMAIN list : list[i].text \in Topics
    BY <1>1 DEF Issues
<1> QED
    BY <1>2 DEF SureTexts

-----------------------------------------------------------------------------
(* Type correctness. *)

\* Init establishes the types.
LEMMA InitTypes == Init => TypeInv
BY IngestAssumption DEF Init, TypeInv, TypeOK, RowTypes, RequestTypes, HistoryTypes, RequestShape, Phases, Looping

\* An answer keeps the types of what it changes.
LEMMA AnswerTypes ==
    ASSUME TypeInv, NEW r \in Requests, NEW list \in Seq(Issues),
           NEW status \in Outcomes, pc[r] # "idle", Answer(r, list, status)
    PROVE  /\ pc' \in [Requests -> Phases]
           /\ \A q \in Requests : pc'[q] = IF q = r THEN "idle" ELSE pc[q]
           /\ answered' \subseteq [msg : Messages, status : Outcomes, sure : SUBSET Topics]
<1>1. SureTexts(list) \in SUBSET Topics
    BY SureTextsType
<1>2. msg[r] \in Messages
    BY DEF TypeInv, RequestShape
<1> QED
    BY <1>1, <1>2 DEF TypeInv, TypeOK, RequestTypes, HistoryTypes, Answer, Phases

\* So does the step to the next issue, which leaves the request idle or at it.
LEMMA NextIssueTypes ==
    ASSUME TypeInv, NEW r \in Requests, NEW written \in BOOLEAN,
           pc[r] \in Looping, NextIssue(r, written), UNCHANGED <<msg, issues>>
    PROVE  /\ pc' \in [Requests -> Phases] /\ at' \in [Requests -> Nat]
           /\ wrote' \in [Requests -> BOOLEAN]
           /\ answered' \subseteq [msg : Messages, status : Outcomes, sure : SUBSET Topics]
           /\ RequestShape'
<1> DEFINE any == wrote[r] \/ written
<1>1. issues[r] \in Seq(Issues) /\ at[r] \in 1..Len(issues[r]) /\ msg[r] \in Messages
    BY DEF TypeInv, TypeOK, RequestTypes, RequestShape, Looping
<1>2. at' \in [Requests -> Nat] /\ \A q \in Requests : at'[q] = IF q = r THEN at[q] + 1 ELSE at[q]
    BY DEF TypeInv, TypeOK, RequestTypes, NextIssue
<1>3. wrote' \in [Requests -> BOOLEAN]
    BY DEF TypeInv, TypeOK, RequestTypes, NextIssue
<1>4. CASE at[r] = Len(issues[r])
    <2>1. Answer(r, issues[r], IF any THEN "staged" ELSE "duplicate")
        BY <1>4 DEF NextIssue
    <2>2. (IF any THEN "staged" ELSE "duplicate") \in Outcomes
        BY DEF Outcomes
    <2>3. pc[r] # "idle"
        BY DEF Looping
    <2>4. /\ pc' \in [Requests -> Phases]
          /\ \A q \in Requests : pc'[q] = IF q = r THEN "idle" ELSE pc[q]
          /\ answered' \subseteq [msg : Messages, status : Outcomes, sure : SUBSET Topics]
        BY <1>1, <2>1, <2>2, <2>3, AnswerTypes
    <2> QED
        BY <1>2, <1>3, <2>4 DEF RequestShape, TypeInv, Looping
<1>5. CASE at[r] # Len(issues[r])
    <2>1. /\ pc' \in [Requests -> Phases] /\ answered' = answered
          /\ \A q \in Requests : pc'[q] = IF q = r THEN "checkTickets" ELSE pc[q]
        BY <1>5 DEF NextIssue, TypeInv, TypeOK, RequestTypes, Phases
    <2>2. at'[r] \in DOMAIN issues[r]
        BY <1>1, <1>2, <1>5
    <2> QED
        BY <1>1, <1>2, <1>3, <2>1, <2>2 DEF RequestShape, TypeInv, TypeOK, HistoryTypes, Looping
<1> QED
    BY <1>4, <1>5

\* A ticket appended to the tickets keeps their type.
LEMMA AppendType ==
    ASSUME TypeInv, NEW t \in Tickets, tickets' = Append(tickets, t)
    PROVE  tickets' \in Seq(Tickets)
BY DEF TypeInv, TypeOK, RowTypes

\* Every step keeps the types, one action at a time.
LEMMA NextTypes == TypeInv /\ [Next]_vars => TypeInv'
<1> SUFFICES ASSUME TypeInv, [Next]_vars PROVE TypeInv'
    OBVIOUS
<1> USE DEF rowVars, requestVars, budgetVars
<1>1. ASSUME NEW r \in Requests, NEW m \in Messages, Deliver(r, m) PROVE TypeInv'
    <2>1. UNCHANGED <<rowVars, issues, listed, at, route, answered>>
        BY <1>1 DEF Deliver
    <2>2. pc' \in [Requests -> Phases] /\ msg' \in [Requests -> Messages \cup {0}]
        BY <1>1 DEF Deliver, TypeInv, TypeOK, RequestTypes, Phases
    <2>3. wrote' \in [Requests -> BOOLEAN] /\ raced' \subseteq Messages /\ sent' \subseteq Messages
        BY <1>1 DEF Deliver, TypeInv, TypeOK, RequestTypes, HistoryTypes
    <2>4. timeouts' \in Nat /\ faults' \in Nat /\ restarts' \in Nat /\ acts' \in Nat
        BY <1>1 DEF Deliver, TypeInv, TypeOK, HistoryTypes
    <2>5. RequestShape'
        BY <1>1 DEF Deliver, TypeInv, TypeOK, RequestTypes, RequestShape, Looping
    <2> QED
        BY <2>1, <2>2, <2>3, <2>4, <2>5 DEF TypeInv, TypeOK, RowTypes, RequestTypes, HistoryTypes
<1>2. ASSUME NEW r \in Requests, Classify(r) PROVE TypeInv'
    <2>1. PICK list \in Splits(msg[r]) :
              /\ issues' = [issues EXCEPT ![r] = list]
              /\ at' = [at EXCEPT ![r] = 1]
              /\ IF SureTexts(list) = {}
                 THEN Answer(r, list, "noise")
                 ELSE pc' = [pc EXCEPT ![r] = "list"] /\ UNCHANGED answered
        BY <1>2 DEF Classify
    <2>2. pc[r] = "classify" /\ msg[r] \in Messages
        BY <1>2 DEF Classify, TypeInv, RequestShape
    <2>3. list \in Seq(Issues)
        BY <2>2, SplitsType
    <2>4. issues' \in [Requests -> Seq(Issues)] /\ at' \in [Requests -> Nat]
        BY <2>1, <2>3 DEF TypeInv, TypeOK, RequestTypes
    <2>5. UNCHANGED <<rowVars, msg, listed, route, wrote, raced, sent, budgetVars>>
        BY <1>2 DEF Classify
    <2>6. CASE SureTexts(list) = {}
        <3>1. /\ pc' \in [Requests -> Phases]
              /\ \A q \in Requests : pc'[q] = IF q = r THEN "idle" ELSE pc[q]
              /\ answered' \subseteq [msg : Messages, status : Outcomes, sure : SUBSET Topics]
            BY <2>1, <2>2, <2>3, <2>6, AnswerTypes DEF Outcomes
        <3>2. RequestShape'
            BY <2>1, <2>5, <3>1 DEF TypeInv, TypeOK, RequestTypes, RequestShape, Looping
        <3> QED
            BY <2>4, <2>5, <3>1, <3>2 DEF TypeInv, TypeOK, RowTypes, RequestTypes, HistoryTypes
    <2>7. CASE SureTexts(list) # {}
        <3>1. /\ pc' \in [Requests -> Phases] /\ answered' = answered
              /\ \A q \in Requests : pc'[q] = IF q = r THEN "list" ELSE pc[q]
            BY <2>1, <2>7 DEF TypeInv, TypeOK, RequestTypes, Phases
        <3>2. list # << >>
            BY <2>7 DEF SureTexts
        <3>3. RequestShape'
            BY <2>1, <2>2, <2>5, <3>1, <3>2 DEF TypeInv, TypeOK, RequestTypes, RequestShape, Looping
        <3> QED
            BY <2>4, <2>5, <3>1, <3>3 DEF TypeInv, TypeOK, RowTypes, RequestTypes, HistoryTypes
    <2> QED
        BY <2>6, <2>7
<1>3. ASSUME NEW r \in Requests, ListOpen(r) PROVE TypeInv'
    <2>1. PICK list \in OpenLists : listed' = [listed EXCEPT ![r] = list]
        BY <1>3 DEF ListOpen
    <2>2. list \in SUBSET Nat
        BY <2>1 DEF OpenLists, TypeInv, TypeOK, RowTypes
    <2>3. listed' \in [Requests -> SUBSET Nat]
        BY <2>1, <2>2 DEF TypeInv, TypeOK, RequestTypes
    <2>4. /\ pc' \in [Requests -> Phases]
          /\ \A q \in Requests : pc'[q] = IF q = r THEN "checkTickets" ELSE pc[q]
        BY <1>3 DEF ListOpen, TypeInv, TypeOK, RequestTypes, Phases
    <2>5. UNCHANGED <<rowVars, msg, issues, at, route, wrote, answered, raced, sent, budgetVars>>
        BY <1>3 DEF ListOpen
    <2>6. at[r] \in DOMAIN issues[r] /\ msg[r] \in Messages
        BY <1>3 DEF ListOpen, TypeInv, TypeOK, RequestTypes, RequestShape
    <2>7. RequestShape'
        BY <2>4, <2>5, <2>6 DEF TypeInv, RequestShape, Looping
    <2> QED
        BY <2>3, <2>4, <2>5, <2>7 DEF TypeInv, TypeOK, RowTypes, RequestTypes, HistoryTypes
<1>4. ASSUME NEW r \in Requests, CheckTickets(r) PROVE TypeInv'
    <2>1. UNCHANGED <<rowVars, msg, issues, listed, route, raced, sent, budgetVars>> /\ pc[r] \in Looping
        BY <1>4 DEF CheckTickets, Looping
    <2>2. CASE NextIssue(r, FALSE)
        BY <2>1, <2>2, NextIssueTypes DEF TypeInv, TypeOK, RowTypes, RequestTypes, HistoryTypes
    <2>3. CASE pc' = [pc EXCEPT ![r] = "checkUpdates"] /\ UNCHANGED <<at, wrote, answered>>
        BY <2>1, <2>3 DEF TypeInv, TypeOK, RowTypes, RequestTypes, HistoryTypes, RequestShape,
                          Looping, Phases
    <2> QED
        BY <1>4, <2>2, <2>3 DEF CheckTickets
<1>5. ASSUME NEW r \in Requests, CheckUpdates(r) PROVE TypeInv'
    <2>1. UNCHANGED <<rowVars, msg, issues, listed, raced, sent, budgetVars>> /\ pc[r] \in Looping
        BY <1>5 DEF CheckUpdates, Looping
    <2>2. CASE NextIssue(r, FALSE) /\ UNCHANGED route
        BY <2>1, <2>2, NextIssueTypes DEF TypeInv, TypeOK, RowTypes, RequestTypes, HistoryTypes
    <2>3. ASSUME NEW k \in Routes(issues[r][at[r]].text, listed[r]),
                 route' = [route EXCEPT ![r] = k],
                 pc' = [pc EXCEPT ![r] = "insert"], UNCHANGED <<at, wrote, answered>>
          PROVE  TypeInv'
        <3>1. k \in Nat
            BY RoutesType DEF TypeInv, TypeOK, RequestTypes
        <3> QED
            BY <2>1, <2>3, <3>1 DEF TypeInv, TypeOK, RowTypes, RequestTypes, HistoryTypes,
                                    RequestShape, Looping, Phases
    <2> QED
        BY <1>5, <2>2, <2>3 DEF CheckUpdates
<1>6. ASSUME NEW r \in Requests, InsertUpdate(r) PROVE TypeInv'
    <2> DEFINE row == [id |-> nextId, ticket |-> route[r], msg |-> msg[r],
                       index |-> at[r], text |-> issues[r][at[r]].text]
    <2>1. UNCHANGED <<tickets, msg, issues, listed, route, raced, sent, budgetVars>> /\ pc[r] \in Looping
        BY <1>6 DEF InsertUpdate, Looping
    <2>2. NextIssue(r, TRUE) \/ NextIssue(r, FALSE)
        BY <1>6 DEF InsertUpdate
    <2>3. issues[r] \in Seq(Issues) /\ at[r] \in DOMAIN issues[r] /\ msg[r] \in Messages
        BY <2>1 DEF TypeInv, TypeOK, RequestTypes, RequestShape, Looping
    <2>4. issues[r][at[r]].text \in Topics
        <3>1. issues[r][at[r]] \in Issues
            BY <2>3
        <3> QED
            BY <3>1 DEF Issues
    <2>5. row \in Updates
        BY <2>3, <2>4 DEF Updates, TypeInv, TypeOK, RowTypes, RequestTypes
    <2>6. updates' \in SUBSET Updates /\ nextId' \in Nat
        <3>1. CASE UNCHANGED rowVars
            BY <3>1 DEF TypeInv, TypeOK, RowTypes
        <3>2. CASE updates' = updates \cup {row} /\ nextId' = nextId + 1
            <4> HIDE DEF row
            <4> QED
                BY <2>5, <3>2 DEF TypeInv, TypeOK, RowTypes
        <3> QED
            BY <1>6, <3>1, <3>2 DEF InsertUpdate
    <2> QED
        BY <2>1, <2>2, <2>6, NextIssueTypes DEF TypeInv, TypeOK, RowTypes, RequestTypes, HistoryTypes
<1>7. ASSUME NEW r \in Requests, InsertTicket(r) PROVE TypeInv'
    <2> DEFINE text == issues[r][at[r]].text
               row == [msg |-> msg[r], index |-> at[r], text |-> text,
                       key |-> KeyOf(text), status |-> "review"]
    <2>1. UNCHANGED <<updates, nextId, msg, issues, route, raced, sent, budgetVars>> /\ pc[r] \in Looping
        BY <1>7 DEF InsertTicket, Looping
    <2>2. NextIssue(r, TRUE) \/ NextIssue(r, FALSE)
        BY <1>7 DEF InsertTicket
    <2>3. issues[r] \in Seq(Issues) /\ at[r] \in DOMAIN issues[r] /\ msg[r] \in Messages
        BY <2>1 DEF TypeInv, TypeOK, RequestTypes, RequestShape, Looping
    <2>4. issues[r][at[r]].text \in Topics
        <3>1. issues[r][at[r]] \in Issues
            BY <2>3
        <3> QED
            BY <3>1 DEF Issues
    <2>5. row \in Tickets
        BY <2>3, <2>4 DEF Tickets, Statuses, KeyOf, TypeInv, TypeOK, RequestTypes
    <2>6. tickets' \in Seq(Tickets)
        BY <1>7, <2>5, AppendType DEF InsertTicket, TypeInv, TypeOK, RowTypes
    <2>7. listed' \in [Requests -> SUBSET Nat]
        <3>1. Len(tickets) + 1 \in Nat
            BY DEF TypeInv, TypeOK, RowTypes
        <3>2. listed' = listed \/ listed' = [listed EXCEPT ![r] = @ \cup {Len(tickets) + 1}]
            BY <1>7 DEF InsertTicket
        <3>3. listed[r] \cup {Len(tickets) + 1} \in SUBSET Nat
            BY <3>1 DEF TypeInv, TypeOK, RequestTypes
        <3> QED
            BY <3>2, <3>3 DEF TypeInv, TypeOK, RequestTypes
    <2> QED
        BY <2>1, <2>2, <2>6, <2>7, NextIssueTypes DEF TypeInv, TypeOK, RowTypes, RequestTypes, HistoryTypes
<1>8. ASSUME NEW r \in Requests, InsertFails(r) PROVE TypeInv'
    <2>1. /\ UNCHANGED <<rowVars, msg, issues, listed, at, route, wrote, raced, sent,
                         timeouts, restarts, acts>>
          /\ faults' \in Nat
        BY <1>8 DEF InsertFails, TypeInv, TypeOK, HistoryTypes
    <2>2. issues[r] \in Seq(Issues)
        BY DEF TypeInv, TypeOK, RequestTypes
    <2>3. /\ pc' \in [Requests -> Phases]
          /\ \A q \in Requests : pc'[q] = IF q = r THEN "idle" ELSE pc[q]
          /\ answered' \subseteq [msg : Messages, status : Outcomes, sure : SUBSET Topics]
        BY <1>8, <2>2, AnswerTypes DEF InsertFails, Outcomes
    <2>4. RequestShape'
        BY <2>1, <2>3 DEF TypeInv, RequestShape, Looping
    <2> QED
        BY <2>1, <2>3, <2>4 DEF TypeInv, TypeOK, RowTypes, RequestTypes, HistoryTypes
<1>9. ASSUME NEW k \in DOMAIN tickets, NEW status \in Statuses, UpdateStatus(k, status)
      PROVE  TypeInv'
    <2>1. tickets' \in Seq(Tickets)
        <3>1. tickets \in Seq(Tickets) /\ tickets[k] \in Tickets
            BY DEF TypeInv, TypeOK, RowTypes
        <3>2. [tickets[k] EXCEPT !.status = status] \in Tickets
            BY <3>1 DEF Tickets
        <3>3. tickets' = [tickets EXCEPT ![k] = [tickets[k] EXCEPT !.status = status]]
            BY <1>9, <3>1 DEF UpdateStatus
        <3> QED
            BY <3>1, <3>2, <3>3
    <2>2. UNCHANGED <<updates, nextId, requestVars, answered, raced, sent, timeouts, faults, restarts>>
        BY <1>9 DEF UpdateStatus
    <2>3. acts' \in Nat
        BY <1>9 DEF UpdateStatus, Act, TypeInv, TypeOK, HistoryTypes
    <2> QED
        BY <2>1, <2>2, <2>3 DEF TypeInv, TypeOK, RowTypes, RequestTypes, HistoryTypes, RequestShape
<1>10. ASSUME NEW u \in updates, NEW k \in DOMAIN tickets, Relink(u, k) PROVE TypeInv'
    <2>1. [u EXCEPT !.ticket = k] \in Updates
        <3>1. u \in Updates /\ k \in Nat
            BY DEF TypeInv, TypeOK, RowTypes
        <3> QED
            BY <3>1 DEF Updates
    <2>2. updates' \in SUBSET Updates
        BY <1>10, <2>1 DEF Relink, TypeInv, TypeOK, RowTypes
    <2>3. /\ UNCHANGED <<tickets, nextId, requestVars, answered, raced, sent, timeouts, faults, restarts>>
          /\ acts' \in Nat
        BY <1>10 DEF Relink, Act, TypeInv, TypeOK, HistoryTypes
    <2> QED
        BY <2>2, <2>3 DEF TypeInv, TypeOK, RowTypes, RequestTypes, HistoryTypes, RequestShape
<1>11. ASSUME NEW u \in updates, Promote(u) PROVE TypeInv'
    <2> DEFINE row == [msg |-> u.msg, index |-> 1, text |-> u.text, key |-> None, status |-> "review"]
    <2>1. u \in Updates
        BY DEF TypeInv, TypeOK, RowTypes
    <2>2. row \in Tickets /\ u.msg \in Messages
        BY <2>1 DEF Updates, Tickets, Statuses
    <2>3. tickets' \in Seq(Tickets)
        BY <1>11, <2>2, AppendType DEF Promote, TypeInv, TypeOK, RowTypes
    <2>4. updates' \in SUBSET Updates /\ raced' \in SUBSET Messages /\ acts' \in Nat
        BY <1>11, <2>2 DEF Promote, Act, TypeInv, TypeOK, RowTypes, HistoryTypes
    <2>5. UNCHANGED <<nextId, requestVars, answered, sent, timeouts, faults, restarts>>
        BY <1>11 DEF Promote
    <2> QED
        BY <2>3, <2>4, <2>5 DEF TypeInv, TypeOK, RowTypes, RequestTypes, HistoryTypes, RequestShape
<1>12. CASE ProcessEnds
    <2>1. pc' = [r \in Requests |-> "idle"]
        BY <1>12 DEF ProcessEnds
    <2> QED
        BY <1>12, <2>1 DEF ProcessEnds, TypeInv, TypeOK, RowTypes, RequestTypes, HistoryTypes,
                           RequestShape, Phases, Looping
<1>13. CASE UNCHANGED vars
    BY <1>13 DEF vars, TypeInv, TypeOK, RowTypes, RequestTypes, HistoryTypes, RequestShape
<1> QED
    BY <1>1, <1>2, <1>3, <1>4, <1>5, <1>6, <1>7, <1>8, <1>9, <1>10, <1>11, <1>12, <1>13
    DEF Next, RequestStep

\* The invariant of types and request shapes.
THEOREM IngestInvariant == Spec => []TypeInv
BY InitTypes, NextTypes, PTL DEF Spec

\* Every variable has its type, whatever messages, requests, timeouts, failures
\* and restarts there are.
THEOREM IngestTypes == Spec => []TypeOK
<1>1. TypeInv => TypeOK
    BY DEF TypeInv
<1> QED
    BY <1>1, IngestInvariant, PTL

-----------------------------------------------------------------------------
(* What was stored stays stored. *)

\* A row whose place and status alone change, or a row the same text moves to,
\* still stores the text of its message.
LEMMA StepKeepsStored ==
    ASSUME TypeInv, [Next]_vars, NEW m, NEW text, Stored(m, text)
    PROVE  Stored(m, text)'
<1> USE DEF rowVars, requestVars, budgetVars
<1> DEFINE Same == UNCHANGED <<tickets, updates>>
<1>0. tickets \in Seq(Tickets) /\ updates \subseteq Updates
    BY DEF TypeInv, TypeOK, RowTypes
<1>1. CASE Same
    BY <1>1 DEF Stored
<1>2. ASSUME NEW t, tickets' = Append(tickets, t), updates' = updates
      PROVE  Stored(m, text)'
    <2>1. \A k \in DOMAIN tickets : k \in DOMAIN tickets' /\ tickets'[k] = tickets[k]
        BY <1>0, <1>2
    <2> QED
        BY <1>2, <2>1 DEF Stored
<1>3. ASSUME NEW u, updates' = updates \cup {u}, tickets' = tickets
      PROVE  Stored(m, text)'
    BY <1>3 DEF Stored
<1>4. ASSUME NEW r \in Requests, RequestStep(r) PROVE Stored(m, text)'
    <2>1. CASE Classify(r) \/ ListOpen(r) \/ CheckTickets(r) \/ CheckUpdates(r) \/ InsertFails(r)
        BY <1>1, <2>1 DEF Classify, ListOpen, CheckTickets, CheckUpdates, InsertFails
    <2>2. CASE InsertUpdate(r)
        BY <1>1, <1>3, <2>2 DEF InsertUpdate
    <2>3. CASE InsertTicket(r)
        BY <1>1, <1>2, <2>3 DEF InsertTicket
    <2> QED
        BY <1>4, <2>1, <2>2, <2>3 DEF RequestStep
<1>5. ASSUME NEW k \in DOMAIN tickets, NEW status \in Statuses, UpdateStatus(k, status)
      PROVE  Stored(m, text)'
    <2>1. tickets' = [tickets EXCEPT ![k].status = status] /\ updates' = updates
        BY <1>5 DEF UpdateStatus
    <2>2. DOMAIN tickets' = DOMAIN tickets
        BY <1>0, <2>1
    <2>3. \A j \in DOMAIN tickets : tickets'[j].msg = tickets[j].msg /\ tickets'[j].text = tickets[j].text
        BY <1>0, <2>1 DEF Tickets
    <2> QED
        BY <2>1, <2>2, <2>3 DEF Stored
<1>6. ASSUME NEW u \in updates, NEW k \in DOMAIN tickets, Relink(u, k)
      PROVE  Stored(m, text)'
    <2> DEFINE moved == [u EXCEPT !.ticket = k]
    <2>1. updates' = (updates \ {u}) \cup {moved} /\ tickets' = tickets
        BY <1>6 DEF Relink
    <2>2. moved.msg = u.msg /\ moved.text = u.text
        BY <1>0 DEF Updates
    <2> HIDE DEF moved
    <2> QED
        BY <2>1, <2>2 DEF Stored
<1>7. ASSUME NEW u \in updates, Promote(u) PROVE Stored(m, text)'
    <2> DEFINE row == [msg |-> u.msg, index |-> 1, text |-> u.text, key |-> None, status |-> "review"]
    <2>1. CASE UNCHANGED <<tickets, updates>>
        BY <1>1, <2>1
    <2>2. CASE tickets' = Append(tickets, row) /\ updates' = updates \ {u}
        <3>1. \A k \in DOMAIN tickets : k \in DOMAIN tickets' /\ tickets'[k] = tickets[k]
            BY <1>0, <2>2
        <3>2. Len(tickets) + 1 \in DOMAIN tickets' /\ tickets'[Len(tickets) + 1] = row
            BY <1>0, <2>2
        <3>3. row.msg = u.msg /\ row.text = u.text
            OBVIOUS
        <3> HIDE DEF row
        <3> QED
            BY <2>2, <3>1, <3>2, <3>3 DEF Stored
    <2> QED
        BY <1>7, <2>1, <2>2 DEF Promote
<1>8. CASE UNCHANGED vars
    BY <1>1, <1>8 DEF vars
<1> QED
    BY <1>1, <1>4, <1>5, <1>6, <1>7, <1>8 DEF Next, Deliver, ProcessEnds

\* No request, no restart and nothing staff do takes away what was stored of a
\* message (the relink and promote handlers of main.py:1919-2000).
THEOREM IngestKeepsStored == Spec => StoredStays
<1>1. TypeInv /\ [Next]_vars =>
          [\A m \in Messages, text \in Topics : Stored(m, text) => Stored(m, text)']_vars
    BY StepKeepsStored
<1> QED
    BY <1>1, IngestInvariant, PTL DEF Spec, StoredStays


-----------------------------------------------------------------------------
(* Nothing is dropped, when the classifier answers every call for a message *)
(* alike (fleet mode).                                                      *)

\* Whoever has a row at an issue_index has the sure issues before it stored too.
InOrder ==
    \A m \in Messages, i \in Nat :
        HasTicket(m, i) \/ HasUpdate(m, i) =>
            /\ i \in DOMAIN Split[m]
            /\ \A j \in 1..i : Split[m][j].sure => Stored(m, Split[m][j].text)

\* A request works on the split of its message and has stored what it is past.
Past ==
    \A r \in Requests :
        /\ pc[r] = "list" => issues[r] = Split[msg[r]]
        /\ pc[r] \in Looping =>
              /\ issues[r] = Split[msg[r]]
              /\ \A j \in 1..(at[r] - 1) :
                    Split[msg[r]][j].sure => Stored(msg[r], Split[msg[r]][j].text)
        /\ pc[r] \in {"checkUpdates", "insert"} => issues[r][at[r]].sure

DropInv == TypeInv /\ InOrder /\ Past /\ NothingDropped

\* Once the issue a request is at is passed over as unsure, or stored, the next
\* one, or the answer, keeps the invariant.
LEMMA NextIssueDrops ==
    ASSUME Mode = "fleet", DropInv, TypeInv', NEW r \in Requests, NEW written \in BOOLEAN,
           pc[r] \in Looping, NextIssue(r, written), UNCHANGED <<msg, issues>>,
           \A m, text : Stored(m, text) => Stored(m, text)',
           \A m, text : issues[r][at[r]].sure /\ m = msg[r] /\ text = issues[r][at[r]].text
                           => Stored(m, text)'
    PROVE  Past' /\ NothingDropped'
<1> DEFINE any == wrote[r] \/ written
<1>1. /\ issues[r] = Split[msg[r]] /\ msg[r] \in Messages
      /\ issues[r] \in Seq(Issues) /\ at[r] \in 1..Len(issues[r])
    BY DEF DropInv, Past, TypeInv, TypeOK, RequestTypes, RequestShape, Looping
<1>2. at' = [at EXCEPT ![r] = at[r] + 1]
    BY DEF NextIssue
<1>3. \A j \in 1..at[r] : Split[msg[r]][j].sure => Stored(msg[r], Split[msg[r]][j].text)'
    <2>1. \A j \in 1..(at[r] - 1) : Split[msg[r]][j].sure => Stored(msg[r], Split[msg[r]][j].text)
        BY DEF DropInv, Past
    <2>2. \A j \in 1..at[r] : j = at[r] \/ j \in 1..(at[r] - 1)
        BY <1>1
    <2>3. \A j \in 1..(at[r] - 1) : Split[msg[r]][j].sure => Stored(msg[r], Split[msg[r]][j].text)'
        BY <2>1
    <2>4. Split[msg[r]][at[r]].sure =>
              \A m, text : m = msg[r] /\ text = Split[msg[r]][at[r]].text => Stored(m, text)'
        BY <1>1
    <2>5. ASSUME NEW j \in 1..at[r], Split[msg[r]][j].sure
          PROVE  Stored(msg[r], Split[msg[r]][j].text)'
        BY <2>2, <2>3, <2>4, <2>5
    <2> QED
        BY <2>5
<1>4. ASSUME NEW q \in Requests, q # r, pc'[q] = pc[q]
      PROVE  /\ pc'[q] = "list" => issues'[q] = Split[msg'[q]]
             /\ pc'[q] \in Looping =>
                   /\ issues'[q] = Split[msg'[q]]
                   /\ \A j \in 1..(at'[q] - 1) :
                         Split[msg'[q]][j].sure => Stored(msg[q], Split[msg[q]][j].text)'
             /\ pc'[q] \in {"checkUpdates", "insert"} => issues'[q][at'[q]].sure
    <2>1. at'[q] = at[q]
        BY <1>2, <1>4 DEF DropInv, TypeInv, TypeOK, RequestTypes
    <2> QED
        BY <1>4, <2>1 DEF DropInv, Past
<1>5. CASE at[r] = Len(issues[r])
    <2> DEFINE status == IF any THEN "staged" ELSE "duplicate"
    <2>1. Answer(r, issues[r], status)
        BY <1>5 DEF NextIssue
    <2>2. \A q \in Requests : pc'[q] = IF q = r THEN "idle" ELSE pc[q]
        BY <2>1 DEF Answer, DropInv, TypeInv, TypeOK, RequestTypes
    <2>3. Past'
        BY <1>4, <2>2 DEF Past, Looping
    <2>4. answered' = answered \cup {[msg |-> msg[r], status |-> status, sure |-> SureTexts(issues[r])]}
        BY <2>1 DEF Answer
    <2>5. \A x \in SureTexts(issues[r]) : Stored(msg[r], x)'
        BY <1>1, <1>3, <1>5 DEF SureTexts
    <2>6. ASSUME NEW a \in answered', a.status \in {"staged", "duplicate"}, NEW x \in a.sure
          PROVE  Stored(a.msg, x)'
        <3>1. CASE a \in answered
            BY <2>6, <3>1 DEF DropInv, NothingDropped
        <3>2. CASE a = [msg |-> msg[r], status |-> status, sure |-> SureTexts(issues[r])]
            <4>1. a.msg = msg[r] /\ a.sure = SureTexts(issues[r])
                BY <3>2
            <4> QED
                BY <2>5, <2>6, <4>1
        <3> QED
            BY <2>4, <2>6, <3>1, <3>2
    <2>7. NothingDropped'
        BY <2>6 DEF NothingDropped
    <2> QED
        BY <2>3, <2>7
<1>6. CASE at[r] # Len(issues[r])
    <2>1. answered' = answered /\ \A q \in Requests : pc'[q] = IF q = r THEN "checkTickets" ELSE pc[q]
        BY <1>6 DEF NextIssue, DropInv, TypeInv, TypeOK, RequestTypes
    <2>2. at'[r] - 1 = at[r]
        BY <1>1, <1>2 DEF DropInv, TypeInv, TypeOK, RequestTypes
    <2>3. Past'
        BY <1>1, <1>3, <1>4, <2>1, <2>2 DEF Past, Looping
    <2>4. NothingDropped'
        BY <2>1 DEF DropInv, NothingDropped
    <2> QED
        BY <2>3, <2>4
<1> QED
    BY <1>5, <1>6

\* The invariant holds at first.
LEMMA InitDrops == Init => DropInv
<1> SUFFICES ASSUME Init PROVE DropInv
    OBVIOUS
<1>1. TypeInv
    BY InitTypes
<1>2. InOrder
    BY DEF Init, InOrder, HasTicket, HasUpdate
<1> QED
    BY <1>1, <1>2 DEF Init, DropInv, Past, NothingDropped, Looping

\* A step that changes no row and no request at work keeps the invariant.
LEMMA QuietDrops ==
    ASSUME Mode = "fleet", DropInv, TypeInv', UNCHANGED <<tickets, updates>>,
           \A r \in Requests :
              \/ pc'[r] \in {"idle", "classify"}
              \/ UNCHANGED <<pc[r], msg[r], issues[r], at[r]>>
              \/ /\ pc'[r] \in {"list", "checkTickets"} /\ issues'[r] = Split[msg'[r]]
                 /\ at'[r] = 1
              \/ /\ pc[r] = "checkTickets" /\ pc'[r] = "checkUpdates" /\ issues[r][at[r]].sure
                 /\ UNCHANGED <<msg[r], issues[r], at[r]>>
              \/ /\ pc[r] = "checkUpdates" /\ pc'[r] = "insert"
                 /\ UNCHANGED <<msg[r], issues[r], at[r]>>,
           \A a \in answered' : a \in answered \/ a.status \notin {"staged", "duplicate"}
    PROVE  DropInv'
<1>1. \A m, text : Stored(m, text)' <=> Stored(m, text)
    BY DEF Stored
<1>2. InOrder'
    BY <1>1 DEF DropInv, InOrder, HasTicket, HasUpdate
<1>3. NothingDropped'
    BY <1>1 DEF DropInv, NothingDropped
<1>4. ASSUME NEW r \in Requests
      PROVE  /\ pc'[r] = "list" => issues'[r] = Split[msg'[r]]
             /\ pc'[r] \in Looping =>
                   /\ issues'[r] = Split[msg'[r]]
                   /\ \A j \in 1..(at'[r] - 1) :
                         Split[msg'[r]][j].sure => Stored(msg'[r], Split[msg'[r]][j].text)
             /\ pc'[r] \in {"checkUpdates", "insert"} => issues'[r][at'[r]].sure
    <2>1. CASE pc'[r] \in {"idle", "classify"}
        BY <2>1 DEF Looping
    <2>2. CASE UNCHANGED <<pc[r], msg[r], issues[r], at[r]>>
        BY <2>2 DEF DropInv, Past
    <2>3. CASE pc'[r] \in {"list", "checkTickets"} /\ issues'[r] = Split[msg'[r]] /\ at'[r] = 1
        BY <2>3 DEF Looping
    <2>4. CASE /\ pc[r] = "checkTickets" /\ pc'[r] = "checkUpdates" /\ issues[r][at[r]].sure
               /\ UNCHANGED <<msg[r], issues[r], at[r]>>
        BY <2>4 DEF DropInv, Past, Looping
    <2>5. CASE /\ pc[r] = "checkUpdates" /\ pc'[r] = "insert"
               /\ UNCHANGED <<msg[r], issues[r], at[r]>>
        BY <2>5 DEF DropInv, Past, Looping
    <2> QED
        BY <2>1, <2>2, <2>3, <2>4, <2>5
<1>5. Past'
    BY <1>1, <1>4 DEF Past
<1> QED
    BY <1>2, <1>3, <1>5 DEF DropInv

\* New rows keep the order when whatever they follow is stored.
LEMMA RowsInOrder ==
    ASSUME DropInv, \A m, text : Stored(m, text) => Stored(m, text)',
           \A m \in Messages, i \in Nat :
              (HasTicket(m, i) \/ HasUpdate(m, i))' =>
                 \/ HasTicket(m, i) \/ HasUpdate(m, i)
                 \/ /\ i \in DOMAIN Split[m]
                    /\ \A j \in 1..i : Split[m][j].sure => Stored(m, Split[m][j].text)'
    PROVE  InOrder'
BY DEF DropInv, InOrder

\* What staff do to the rows leaves the requests and the answers as they are.
LEMMA StaffDrops ==
    ASSUME Mode = "fleet", DropInv, TypeInv', \A m, text : Stored(m, text) => Stored(m, text)',
           UNCHANGED <<requestVars, answered>>,
           \A m \in Messages, i \in Nat :
              (HasTicket(m, i) \/ HasUpdate(m, i))' =>
                 \/ HasTicket(m, i) \/ HasUpdate(m, i)
                 \/ /\ i \in DOMAIN Split[m]
                    /\ \A j \in 1..i : Split[m][j].sure => Stored(m, Split[m][j].text)'
    PROVE  DropInv'
<1>1. InOrder'
    BY RowsInOrder
<1>2. Past'
    BY DEF DropInv, Past, requestVars
<1>3. NothingDropped'
    BY DEF DropInv, NothingDropped
<1> QED
    BY <1>1, <1>2, <1>3 DEF DropInv

\* Every step of fleet mode keeps the invariant.
LEMMA NextDrops == Mode = "fleet" /\ DropInv /\ [Next]_vars => DropInv'
<1> SUFFICES ASSUME Mode = "fleet", DropInv, [Next]_vars PROVE DropInv'
    OBVIOUS
<1> USE DEF rowVars, requestVars, budgetVars
<1>0. TypeInv' /\ TypeInv
    BY NextTypes DEF DropInv
<1>a. \A m, text : Stored(m, text) => Stored(m, text)'
    BY <1>0, StepKeepsStored
<1>b. /\ pc \in [Requests -> Phases] /\ issues \in [Requests -> Seq(Issues)]
      /\ at \in [Requests -> Nat] /\ msg \in [Requests -> Messages \cup {0}]
      /\ tickets \in Seq(Tickets) /\ updates \subseteq Updates
    BY <1>0 DEF TypeInv, TypeOK, RequestTypes, RowTypes
<1>1. ASSUME NEW r \in Requests, NEW m \in Messages, Deliver(r, m) PROVE DropInv'
    <2>1. /\ UNCHANGED <<tickets, updates, issues, at, answered>>
          /\ pc' = [pc EXCEPT ![r] = "classify"] /\ msg' = [msg EXCEPT ![r] = m]
        BY <1>1 DEF Deliver
    <2>2. \A q \in Requests : pc'[q] = "classify" \/ UNCHANGED <<pc[q], msg[q], issues[q], at[q]>>
        BY <1>b, <2>1
    <2> QED
        BY <1>0, <2>1, <2>2, QuietDrops
<1>2. ASSUME NEW r \in Requests, Classify(r) PROVE DropInv'
    <2>1. PICK list \in Splits(msg[r]) :
              /\ issues' = [issues EXCEPT ![r] = list]
              /\ at' = [at EXCEPT ![r] = 1]
              /\ IF SureTexts(list) = {}
                 THEN Answer(r, list, "noise")
                 ELSE pc' = [pc EXCEPT ![r] = "list"] /\ UNCHANGED answered
        BY <1>2 DEF Classify
    <2>2. UNCHANGED <<tickets, updates, msg>>
        BY <1>2 DEF Classify
    <2>3. list \in {Split[msg[r]], << >>}
        BY DEF Splits
    <2>4. \A q \in Requests : q # r => UNCHANGED <<issues[q], at[q], msg[q]>>
        BY <1>b, <2>1, <2>2
    <2>5. CASE SureTexts(list) = {}
        <3>1. \A q \in Requests : pc'[q] = IF q = r THEN "idle" ELSE pc[q]
            BY <1>b, <2>1, <2>5 DEF Answer
        <3>2. \A a \in answered' : a \in answered \/ a.status = "noise"
            BY <2>1, <2>5 DEF Answer
        <3> QED
            BY <1>0, <2>2, <2>4, <3>1, <3>2, QuietDrops
    <2>6. CASE SureTexts(list) # {}
        <3>1. list = Split[msg[r]]
            BY <2>3, <2>6 DEF SureTexts
        <3>2. pc'[r] = "list" /\ issues'[r] = Split[msg'[r]] /\ at'[r] = 1
            BY <1>b, <2>1, <2>2, <2>6, <3>1
        <3>3. \A q \in Requests : q # r => pc'[q] = pc[q]
            BY <1>b, <2>1, <2>6
        <3>4. answered' = answered
            BY <2>1, <2>6
        <3> QED
            BY <1>0, <2>2, <2>4, <3>2, <3>3, <3>4, QuietDrops
    <2> QED
        BY <2>5, <2>6
<1>3. ASSUME NEW r \in Requests, ListOpen(r) PROVE DropInv'
    <2>1. /\ UNCHANGED <<tickets, updates, msg, issues, at, answered>>
          /\ pc' = [pc EXCEPT ![r] = "checkTickets"] /\ pc[r] = "list"
        BY <1>3 DEF ListOpen
    <2>2. issues[r] = Split[msg[r]] /\ at[r] = 1
        BY <2>1 DEF DropInv, Past, TypeInv, RequestShape
    <2>3. \A q \in Requests : pc'[q] = IF q = r THEN "checkTickets" ELSE pc[q]
        BY <1>b, <2>1
    <2> QED
        BY <1>0, <2>1, <2>2, <2>3, QuietDrops
<1>4. ASSUME NEW r \in Requests, CheckTickets(r) PROVE DropInv'
    <2>1. UNCHANGED <<tickets, updates, msg, issues>> /\ pc[r] = "checkTickets" /\ pc[r] \in Looping
        BY <1>4 DEF CheckTickets, Looping
    <2>2. CASE NextIssue(r, FALSE) /\ (~issues[r][at[r]].sure \/ HasTicket(msg[r], at[r]))
        <3>1. issues[r][at[r]].sure => Stored(msg[r], issues[r][at[r]].text)
            <4>1. /\ msg[r] \in Messages /\ at[r] \in Nat /\ at[r] \in 1..at[r]
                  /\ issues[r] = Split[msg[r]]
                BY <1>b, <2>1 DEF DropInv, TypeInv, RequestShape, Past
            <4>2. HasTicket(msg[r], at[r]) => (issues[r][at[r]].sure => Stored(msg[r], issues[r][at[r]].text))
                BY <4>1 DEF DropInv, InOrder
            <4> QED
                BY <2>2, <4>2
        <3>2. \A m, text : issues[r][at[r]].sure /\ m = msg[r] /\ text = issues[r][at[r]].text
                              => Stored(m, text)'
            BY <1>a, <3>1
        <3>3. Past' /\ NothingDropped'
            BY <1>0, <1>a, <2>1, <2>2, <3>2, NextIssueDrops
        <3>4. InOrder'
            BY <1>a, <2>1, RowsInOrder DEF HasTicket, HasUpdate
        <3> QED
            BY <1>0, <3>3, <3>4 DEF DropInv
    <2>3. CASE /\ pc' = [pc EXCEPT ![r] = "checkUpdates"] /\ UNCHANGED <<at, wrote, answered>>
               /\ issues[r][at[r]].sure
        <3>1. \A q \in Requests : pc'[q] = IF q = r THEN "checkUpdates" ELSE pc[q]
            BY <1>b, <2>3
        <3> QED
            BY <1>0, <2>1, <2>3, <3>1, QuietDrops
    <2> QED
        BY <1>4, <2>2, <2>3 DEF CheckTickets
<1>5. ASSUME NEW r \in Requests, CheckUpdates(r) PROVE DropInv'
    <2>1. UNCHANGED <<tickets, updates, msg, issues>> /\ pc[r] = "checkUpdates" /\ pc[r] \in Looping
        BY <1>5 DEF CheckUpdates, Looping
    <2>2. CASE NextIssue(r, FALSE) /\ HasUpdate(msg[r], at[r])
        <3>1. issues[r][at[r]].sure => Stored(msg[r], issues[r][at[r]].text)
            <4>1. /\ msg[r] \in Messages /\ at[r] \in Nat /\ at[r] \in 1..at[r]
                  /\ issues[r] = Split[msg[r]]
                BY <1>b, <2>1 DEF DropInv, TypeInv, RequestShape, Past
            <4>2. HasUpdate(msg[r], at[r]) => (issues[r][at[r]].sure => Stored(msg[r], issues[r][at[r]].text))
                BY <4>1 DEF DropInv, InOrder
            <4> QED
                BY <2>2, <4>2
        <3>2. \A m, text : issues[r][at[r]].sure /\ m = msg[r] /\ text = issues[r][at[r]].text
                              => Stored(m, text)'
            BY <1>a, <3>1
        <3>3. Past' /\ NothingDropped'
            BY <1>0, <1>a, <2>1, <2>2, <3>2, NextIssueDrops
        <3>4. InOrder'
            BY <1>a, <2>1, RowsInOrder DEF HasTicket, HasUpdate
        <3> QED
            BY <1>0, <3>3, <3>4 DEF DropInv
    <2>3. CASE pc' = [pc EXCEPT ![r] = "insert"] /\ UNCHANGED <<at, wrote, answered>>
        <3>1. \A q \in Requests : pc'[q] = IF q = r THEN "insert" ELSE pc[q]
            BY <1>b, <2>3
        <3> QED
            BY <1>0, <2>1, <2>3, <3>1, QuietDrops
    <2> QED
        BY <1>5, <2>2, <2>3 DEF CheckUpdates
<1>6. ASSUME NEW r \in Requests, NEW written \in BOOLEAN, pc[r] = "insert",
             NextIssue(r, written), UNCHANGED <<msg, issues>>,
             \/ UNCHANGED <<tickets, updates>> /\ (HasUpdate(msg[r], at[r]) \/ HasTicket(msg[r], at[r]))
             \/ /\ \A m, text : m = msg[r] /\ text = issues[r][at[r]].text => Stored(m, text)'
                /\ \A m, i : (HasTicket(m, i) \/ HasUpdate(m, i))' =>
                       HasTicket(m, i) \/ HasUpdate(m, i) \/ (m = msg[r] /\ i = at[r])
      PROVE  DropInv'
    <2>1. /\ issues[r] = Split[msg[r]] /\ at[r] \in DOMAIN Split[msg[r]] /\ msg[r] \in Messages
          /\ \A j \in 1..(at[r] - 1) :
                 Split[msg[r]][j].sure => Stored(msg[r], Split[msg[r]][j].text)
          /\ pc[r] \in Looping
        BY <1>6 DEF DropInv, Past, TypeInv, RequestShape, Looping
    <2>2. \A m, text : issues[r][at[r]].sure /\ m = msg[r] /\ text = issues[r][at[r]].text
                           => Stored(m, text)'
        <3>1. CASE HasUpdate(msg[r], at[r]) \/ HasTicket(msg[r], at[r])
            BY <1>a, <1>b, <2>1, <3>1 DEF DropInv, InOrder
        <3> QED
            BY <1>6, <3>1
    <2>3. Past' /\ NothingDropped'
        BY <1>0, <1>6, <1>a, <2>1, <2>2, NextIssueDrops
    <2>4. \A j \in 1..at[r] : j = at[r] \/ j \in 1..(at[r] - 1)
        BY <1>b
    <2>5. ASSUME NEW m \in Messages, NEW i \in Nat, (HasTicket(m, i) \/ HasUpdate(m, i))'
          PROVE  \/ HasTicket(m, i) \/ HasUpdate(m, i)
                 \/ /\ i \in DOMAIN Split[m]
                    /\ \A j \in 1..i : Split[m][j].sure => Stored(m, Split[m][j].text)'
        <3>1. CASE HasTicket(m, i) \/ HasUpdate(m, i)
            BY <3>1
        <3>2. CASE m = msg[r] /\ i = at[r]
            BY <1>a, <2>1, <2>2, <2>4, <3>2
        <3> QED
            BY <1>6, <2>5, <3>1, <3>2 DEF HasTicket, HasUpdate
    <2>6. InOrder'
        BY <1>a, <2>5, RowsInOrder
    <2> QED
        BY <1>0, <2>3, <2>6 DEF DropInv
<1>7. ASSUME NEW r \in Requests, InsertUpdate(r) PROVE DropInv'
    <2> DEFINE row == [id |-> nextId, ticket |-> route[r], msg |-> msg[r],
                       index |-> at[r], text |-> issues[r][at[r]].text]
    <2>1. pc[r] = "insert" /\ UNCHANGED <<tickets, msg, issues>>
        BY <1>7 DEF InsertUpdate
    <2>2. CASE NextIssue(r, FALSE) /\ UNCHANGED updates /\ HasUpdate(msg[r], at[r])
        BY <1>6, <2>1, <2>2
    <2>3. CASE NextIssue(r, TRUE) /\ updates' = updates \cup {row}
        <3>1. row.msg = msg[r] /\ row.index = at[r] /\ row.text = issues[r][at[r]].text
            OBVIOUS
        <3> HIDE DEF row
        <3>2. \A m, text : m = msg[r] /\ text = issues[r][at[r]].text => Stored(m, text)'
            BY <2>3, <3>1 DEF Stored
        <3>3. \A m, i : (HasTicket(m, i) \/ HasUpdate(m, i))' =>
                  HasTicket(m, i) \/ HasUpdate(m, i) \/ (m = msg[r] /\ i = at[r])
            BY <2>1, <2>3, <3>1 DEF HasTicket, HasUpdate
        <3> QED
            BY <1>6, <2>1, <2>3, <3>2, <3>3
    <2> QED
        BY <1>7, <2>2, <2>3 DEF InsertUpdate
<1>8. ASSUME NEW r \in Requests, InsertTicket(r) PROVE DropInv'
    <2> DEFINE row == [msg |-> msg[r], index |-> at[r], text |-> issues[r][at[r]].text,
                       key |-> KeyOf(issues[r][at[r]].text), status |-> "review"]
    <2>1. pc[r] = "insert" /\ UNCHANGED <<updates, msg, issues>>
        BY <1>8 DEF InsertTicket
    <2>2. CASE NextIssue(r, FALSE) /\ UNCHANGED tickets /\ HasTicket(msg[r], at[r])
        BY <1>6, <2>1, <2>2
    <2>3. CASE NextIssue(r, TRUE) /\ tickets' = Append(tickets, row)
        <3>1. row.msg = msg[r] /\ row.index = at[r] /\ row.text = issues[r][at[r]].text
            OBVIOUS
        <3> HIDE DEF row
        <3>2. /\ \A k \in DOMAIN tickets' :
                     \/ k \in DOMAIN tickets /\ tickets'[k] = tickets[k]
                     \/ tickets'[k] = row
              /\ Len(tickets) + 1 \in DOMAIN tickets' /\ tickets'[Len(tickets) + 1] = row
            BY <1>b, <2>3
        <3>3. \A m, text : m = msg[r] /\ text = issues[r][at[r]].text => Stored(m, text)'
            BY <3>1, <3>2 DEF Stored
        <3>4. \A m, i : (HasTicket(m, i) \/ HasUpdate(m, i))' =>
                  HasTicket(m, i) \/ HasUpdate(m, i) \/ (m = msg[r] /\ i = at[r])
            BY <2>1, <3>1, <3>2 DEF HasTicket, HasUpdate
        <3> QED
            BY <1>6, <2>1, <2>3, <3>3, <3>4
    <2> QED
        BY <1>8, <2>2, <2>3 DEF InsertTicket
<1>9. ASSUME NEW r \in Requests, InsertFails(r) PROVE DropInv'
    <2>1. UNCHANGED <<tickets, updates, msg, issues, at>> /\ Answer(r, issues[r], "error")
        BY <1>9 DEF InsertFails
    <2>2. \A q \in Requests : pc'[q] = IF q = r THEN "idle" ELSE pc[q]
        BY <1>b, <2>1 DEF Answer
    <2>3. \A a \in answered' : a \in answered \/ a.status = "error"
        BY <2>1 DEF Answer
    <2> QED
        BY <1>0, <2>1, <2>2, <2>3, QuietDrops
<1>10. ASSUME NEW k \in DOMAIN tickets, NEW status \in Statuses, UpdateStatus(k, status)
       PROVE  DropInv'
    <2>1. /\ tickets' = [tickets EXCEPT ![k].status = status]
          /\ UNCHANGED <<updates, requestVars, answered>>
        BY <1>10 DEF UpdateStatus
    <2>2. \A j \in DOMAIN tickets' : /\ j \in DOMAIN tickets
                                    /\ tickets'[j].msg = tickets[j].msg
                                    /\ tickets'[j].index = tickets[j].index
        BY <1>b, <2>1 DEF Tickets
    <2>3. \A m \in Messages, i \in Nat :
              (HasTicket(m, i) \/ HasUpdate(m, i))' => HasTicket(m, i) \/ HasUpdate(m, i)
        BY <2>1, <2>2 DEF HasTicket, HasUpdate
    <2> QED
        BY <1>0, <1>a, <2>1, <2>3, StaffDrops
<1>11. ASSUME NEW u \in updates, NEW k \in DOMAIN tickets, Relink(u, k) PROVE DropInv'
    <2> DEFINE moved == [u EXCEPT !.ticket = k]
    <2>1. updates' = (updates \ {u}) \cup {moved} /\ UNCHANGED <<tickets, requestVars, answered>>
        BY <1>11 DEF Relink
    <2>2. moved.msg = u.msg /\ moved.index = u.index
        BY <1>b DEF Updates
    <2> HIDE DEF moved
    <2>3. \A m \in Messages, i \in Nat :
              (HasTicket(m, i) \/ HasUpdate(m, i))' => HasTicket(m, i) \/ HasUpdate(m, i)
        BY <2>1, <2>2 DEF HasTicket, HasUpdate
    <2> QED
        BY <1>0, <1>a, <2>1, <2>3, StaffDrops
<1>12. ASSUME NEW u \in updates, Promote(u) PROVE DropInv'
    <2> DEFINE row == [msg |-> u.msg, index |-> 1, text |-> u.text, key |-> None, status |-> "review"]
    <2>1. UNCHANGED <<requestVars, answered>>
        BY <1>12 DEF Promote
    <2>2. CASE UNCHANGED <<tickets, updates>>
        BY <1>0, <1>a, <2>1, <2>2, StaffDrops DEF HasTicket, HasUpdate
    <2>3. CASE tickets' = Append(tickets, row) /\ updates' = updates \ {u}
        <3>1. u.msg \in Messages /\ u.index \in Nat
            BY <1>b DEF Updates
        <3>2. /\ u.index \in DOMAIN Split[u.msg]
              /\ \A j \in 1..u.index : Split[u.msg][j].sure => Stored(u.msg, Split[u.msg][j].text)
            BY <3>1 DEF DropInv, InOrder, HasUpdate
        <3>3. /\ 1 \in DOMAIN Split[u.msg]
              /\ \A j \in 1..1 : Split[u.msg][j].sure => Stored(u.msg, Split[u.msg][j].text)
            <4>1. Split[u.msg] \in Seq(Issues)
                BY <3>1, IngestAssumption
            <4>2. 1 \in DOMAIN Split[u.msg] /\ 1 \in 1..u.index /\ \A j \in 1..1 : j = 1
                BY <3>1, <3>2, <4>1
            <4> QED
                BY <3>2, <4>2
        <3>4. row.msg = u.msg /\ row.index = 1
            OBVIOUS
        <3> HIDE DEF row
        <3>5. \A k \in DOMAIN tickets' :
                  \/ k \in DOMAIN tickets /\ tickets'[k] = tickets[k]
                  \/ tickets'[k] = row
            BY <1>b, <2>3
        <3>6. ASSUME NEW m \in Messages, NEW i \in Nat, (HasTicket(m, i) \/ HasUpdate(m, i))'
              PROVE  HasTicket(m, i) \/ HasUpdate(m, i) \/ (m = u.msg /\ i = 1)
            BY <2>3, <3>4, <3>5, <3>6 DEF HasTicket, HasUpdate
        <3>7. \A j \in 1..1 : Split[u.msg][j].sure =>
                  \A m : m = u.msg => Stored(m, Split[m][j].text)'
            BY <1>a, <3>3
        <3>8. ASSUME NEW m \in Messages, NEW i \in Nat, (HasTicket(m, i) \/ HasUpdate(m, i))'
              PROVE  \/ HasTicket(m, i) \/ HasUpdate(m, i)
                     \/ /\ i \in DOMAIN Split[m]
                        /\ \A j \in 1..i : Split[m][j].sure => Stored(m, Split[m][j].text)'
            <4>1. CASE m = u.msg /\ i = 1
                BY <3>3, <3>7, <4>1
            <4> QED
                BY <3>6, <3>8, <4>1
        <3> QED
            BY <1>0, <1>a, <2>1, <3>8, StaffDrops
    <2> QED
        BY <1>12, <2>2, <2>3 DEF Promote
<1>13. CASE ProcessEnds
    <2>1. UNCHANGED <<tickets, updates, answered>> /\ \A q \in Requests : pc'[q] = "idle"
        BY <1>13 DEF ProcessEnds
    <2> QED
        BY <1>0, <2>1, QuietDrops
<1>14. CASE UNCHANGED vars
    <2>1. UNCHANGED <<tickets, updates, answered, pc, msg, issues, at>>
        BY <1>14 DEF vars
    <2> QED
        BY <1>0, <2>1, QuietDrops
<1> QED
    BY <1>1, <1>2, <1>3, <1>4, <1>5, <1>7, <1>8, <1>9, <1>10, <1>11, <1>12, <1>13, <1>14
    DEF Next, RequestStep

\* In fleet mode a message answered "staged" or "duplicate" has every sure issue
\* stored, whatever overlapping requests, failed commits, restarts and staff did
\* in between.
THEOREM FleetDropsNothing == Mode = "fleet" => (Spec => []NothingDropped)
<1> SUFFICES ASSUME Mode = "fleet" PROVE Spec => []NothingDropped
    OBVIOUS
<1>1. DropInv /\ [Next]_vars => DropInv'
    BY NextDrops
<1>2. DropInv => NothingDropped
    BY DEF DropInv
<1> QED
    BY <1>1, <1>2, InitDrops, PTL DEF Spec

-----------------------------------------------------------------------------
(* Each issue of a message is stored once. *)

\* One row of a table to a message and an issue_index: the unique constraints.
UniqueTickets ==
    \A j, k \in DOMAIN tickets :
        tickets[j].msg = tickets[k].msg /\ tickets[j].index = tickets[k].index => j = k

UniqueUpdates ==
    \A u, v \in updates : u.msg = v.msg /\ u.index = v.index => u = v

\* A message that is not raced has one request at a time, which is past the
\* checks only of an issue that has no row, and no row in both tables.
Alone ==
    \A r \in Requests : pc[r] # "idle" /\ msg[r] \notin raced =>
        /\ \A q \in Requests : pc[q] # "idle" /\ msg[q] = msg[r] => q = r
        /\ pc[r] \in {"checkUpdates", "insert"} => ~HasTicket(msg[r], at[r])
        /\ pc[r] = "insert" => ~HasUpdate(msg[r], at[r])

OneTable ==
    \A m \in Messages \ raced : \A i \in Nat : ~(HasTicket(m, i) /\ HasUpdate(m, i))

OnceInv == TypeInv /\ UniqueTickets /\ UniqueUpdates /\ Alone /\ OneTable

\* At most one row to each index is what StoredOnce counts.
LEMMA OnceCounts == OnceInv => StoredOnce
<1> SUFFICES ASSUME OnceInv, NEW m \in Messages \ raced, NEW i \in 1..Len(Split[m])
             PROVE  Cardinality({k \in DOMAIN tickets : tickets[k].msg = m /\ tickets[k].index = i})
                    + Cardinality({u \in updates : u.msg = m /\ u.index = i}) <= 1
    BY DEF StoredOnce
<1> DEFINE T == {k \in DOMAIN tickets : tickets[k].msg = m /\ tickets[k].index = i}
           U == {u \in updates : u.msg = m /\ u.index = i}
<1>1. T = {} \/ U = {}
    <2>1. ~(HasTicket(m, i) /\ HasUpdate(m, i))
        BY DEF OnceInv, OneTable
    <2> QED
        BY <2>1 DEF HasTicket, HasUpdate
<1>2. \A x, y \in T : x = y
    BY DEF OnceInv, UniqueTickets
<1>3. \A x, y \in U : x = y
    BY DEF OnceInv, UniqueUpdates
<1> HIDE DEF T, U
<1>4. ASSUME NEW S, \A x, y \in S : x = y
      PROVE  (S = {} => Cardinality(S) = 0) /\ Cardinality(S) \in {0, 1}
    <2>1. CASE S = {}
        BY <2>1, FS_EmptySet
    <2>2. CASE S # {}
        <3>1. PICK x : x \in S
            BY <2>2
        <3>2. S = {x}
            BY <1>4, <3>1
        <3> QED
            BY <2>2, <3>2, FS_Singleton
    <2> QED
        BY <2>1, <2>2
<1>5. /\ (T = {} => Cardinality(T) = 0) /\ Cardinality(T) \in {0, 1}
      /\ (U = {} => Cardinality(U) = 0) /\ Cardinality(U) \in {0, 1}
    BY <1>2, <1>3, <1>4
<1>6. Cardinality(T) + Cardinality(U) <= 1
    BY <1>1, <1>5
<1> QED
    BY <1>6 DEF T, U

\* The invariant holds at first.
LEMMA InitOnce == Init => OnceInv
<1> SUFFICES ASSUME Init PROVE OnceInv
    OBVIOUS
<1>1. TypeInv
    BY InitTypes
<1>2. UniqueTickets /\ UniqueUpdates /\ OneTable
    BY DEF Init, UniqueTickets, UniqueUpdates, OneTable, HasTicket, HasUpdate
<1>3. Alone
    BY DEF Init, Alone
<1> QED
    BY <1>1, <1>2, <1>3 DEF OnceInv

\* A step that adds no row keeps the invariant when every request stays at its
\* issue, moves on to it, or passes one of the checks of it.
LEMMA QuietOnce ==
    ASSUME OnceInv, TypeInv', UNCHANGED <<tickets, updates>>, raced \subseteq raced',
           \A r \in Requests :
              \/ pc'[r] = "idle"
              \/ /\ pc[r] # "idle" /\ msg'[r] = msg[r]
                 /\ \/ pc'[r] \in {"classify", "list", "checkTickets"}
                    \/ pc'[r] = pc[r] /\ at'[r] = at[r]
                    \/ /\ pc'[r] = "checkUpdates" /\ at'[r] = at[r]
                       /\ ~HasTicket(msg[r], at[r])
                    \/ /\ pc[r] = "checkUpdates" /\ pc'[r] = "insert" /\ at'[r] = at[r]
                       /\ ~HasUpdate(msg[r], at[r])
    PROVE  OnceInv'
<1>1. \A m, i : (HasTicket(m, i)' <=> HasTicket(m, i)) /\ (HasUpdate(m, i)' <=> HasUpdate(m, i))
    BY DEF HasTicket, HasUpdate
<1>2. UniqueTickets' /\ UniqueUpdates' /\ OneTable'
    BY <1>1 DEF OnceInv, UniqueTickets, UniqueUpdates, OneTable
<1>3. ASSUME NEW r \in Requests, pc'[r] # "idle", msg'[r] \notin raced'
      PROVE  /\ \A q \in Requests : pc'[q] # "idle" /\ msg'[q] = msg'[r] => q = r
             /\ pc'[r] \in {"checkUpdates", "insert"} => ~HasTicket(msg'[r], at'[r])
             /\ pc'[r] = "insert" => ~HasUpdate(msg'[r], at'[r])
    <2>1. pc[r] # "idle" /\ msg'[r] = msg[r] /\ msg[r] \notin raced
        BY <1>3
    <2>2. /\ \A q \in Requests : pc[q] # "idle" /\ msg[q] = msg[r] => q = r
          /\ pc[r] \in {"checkUpdates", "insert"} => ~HasTicket(msg[r], at[r])
          /\ pc[r] = "insert" => ~HasUpdate(msg[r], at[r])
        BY <2>1 DEF OnceInv, Alone
    <2>3. \A q \in Requests : pc'[q] # "idle" /\ msg'[q] = msg'[r] => q = r
        BY <2>1, <2>2
    <2> QED
        BY <1>3, <2>1, <2>2, <2>3
<1>4. Alone'
    BY <1>1, <1>3 DEF Alone
<1> QED
    BY <1>2, <1>4 DEF OnceInv

\* A row for the issue a request is at, the only request of its message, keeps
\* the invariant when the request moves on.
LEMMA RowOnce ==
    ASSUME OnceInv, TypeInv', NEW r \in Requests, pc[r] = "insert",
           UNCHANGED <<msg, raced>>,
           pc'[r] \in {"idle", "checkTickets"},
           \A q \in Requests : q # r => pc'[q] = pc[q] /\ at'[q] = at[q],
           UniqueTickets', UniqueUpdates',
           \A m, i : (HasTicket(m, i)' <=> HasTicket(m, i)) \/ (m = msg[r] /\ i = at[r] /\ ~HasTicket(m, i)),
           \A m, i : (HasUpdate(m, i)' <=> HasUpdate(m, i)) \/ (m = msg[r] /\ i = at[r] /\ ~HasUpdate(m, i)),
           \/ \A m, i : HasTicket(m, i)' <=> HasTicket(m, i)
           \/ \A m, i : HasUpdate(m, i)' <=> HasUpdate(m, i)
    PROVE  OnceInv'
<1>1. \A q \in Requests : pc[q] # "idle" /\ msg[q] \notin raced /\ msg[q] = msg[r] => q = r
    BY DEF OnceInv, Alone
<1>2. OneTable'
    <2>1. ASSUME NEW m \in Messages \ raced, NEW i \in Nat, HasTicket(m, i)', HasUpdate(m, i)'
          PROVE  FALSE
        <3>1. CASE m = msg[r] /\ i = at[r]
            <4>1. ~HasTicket(m, i) /\ ~HasUpdate(m, i)
                BY <3>1 DEF OnceInv, Alone
            <4> QED
                BY <2>1, <4>1
        <3>2. CASE ~(m = msg[r] /\ i = at[r])
            BY <2>1, <3>2 DEF OnceInv, OneTable
        <3> QED
            BY <3>1, <3>2
    <2> QED
        BY <2>1 DEF OneTable
<1>3. ASSUME NEW q \in Requests, pc'[q] # "idle", msg[q] \notin raced
      PROVE  /\ \A p \in Requests : pc'[p] # "idle" /\ msg[p] = msg[q] => p = q
             /\ \A m, i : m = msg[q] /\ i = at'[q] =>
                   /\ pc'[q] \in {"checkUpdates", "insert"} => ~HasTicket(m, i)'
                   /\ pc'[q] = "insert" => ~HasUpdate(m, i)'
    <2>1. pc[q] # "idle" /\ \A p \in Requests : pc'[p] # "idle" => pc[p] # "idle"
        BY <1>3
    <2>2. \A p \in Requests : pc'[p] # "idle" /\ msg[p] = msg[q] => p = q
        BY <1>3, <2>1 DEF OnceInv, Alone
    <2>3. CASE q = r
        BY <2>2, <2>3
    <2>4. CASE q # r
        <3>1. msg[q] # msg[r]
            BY <1>1, <1>3, <2>1, <2>4
        <3>2. pc'[q] = pc[q] /\ at'[q] = at[q]
            BY <2>4
        <3>3. /\ pc[q] \in {"checkUpdates", "insert"} => ~HasTicket(msg[q], at[q])
              /\ pc[q] = "insert" => ~HasUpdate(msg[q], at[q])
            BY <1>3, <2>1 DEF OnceInv, Alone
        <3> QED
            BY <2>2, <3>1, <3>2, <3>3
    <2> QED
        BY <2>3, <2>4
<1>4. Alone'
    BY <1>3 DEF Alone, HasTicket, HasUpdate
<1> QED
    BY <1>2, <1>4 DEF OnceInv

\* Where the step to the next issue leaves the requests.
LEMMA NextIssueMoves ==
    ASSUME TypeInv, NEW r \in Requests, NEW written, NextIssue(r, written)
    PROVE  /\ pc'[r] \in {"idle", "checkTickets"}
           /\ \A q \in Requests : q # r => pc'[q] = pc[q] /\ at'[q] = at[q]
BY DEF NextIssue, Answer, TypeInv, TypeOK, RequestTypes

\* Every step keeps the invariant.
LEMMA NextOnce == OnceInv /\ [Next]_vars => OnceInv'
<1> SUFFICES ASSUME OnceInv, [Next]_vars PROVE OnceInv'
    OBVIOUS
<1> USE DEF rowVars, requestVars, budgetVars
<1>0. TypeInv' /\ TypeInv
    BY NextTypes DEF OnceInv
<1>b. /\ pc \in [Requests -> Phases] /\ issues \in [Requests -> Seq(Issues)]
      /\ at \in [Requests -> Nat] /\ msg \in [Requests -> Messages \cup {0}]
      /\ tickets \in Seq(Tickets) /\ updates \subseteq Updates
    BY <1>0 DEF TypeInv, TypeOK, RequestTypes, RowTypes
<1>1. ASSUME NEW r \in Requests, NEW m \in Messages, Deliver(r, m) PROVE OnceInv'
    <2>1. /\ UNCHANGED <<tickets, updates, at>> /\ pc[r] = "idle"
          /\ pc' = [pc EXCEPT ![r] = "classify"] /\ msg' = [msg EXCEPT ![r] = m]
          /\ raced' = IF Running(m) THEN raced \cup {m} ELSE raced
        BY <1>1 DEF Deliver
    <2>2. \A q \in Requests : /\ pc'[q] = IF q = r THEN "classify" ELSE pc[q]
                             /\ msg'[q] = IF q = r THEN m ELSE msg[q]
        BY <1>b, <2>1
    <2>3. \A n, i : (HasTicket(n, i)' <=> HasTicket(n, i)) /\ (HasUpdate(n, i)' <=> HasUpdate(n, i))
        BY <2>1 DEF HasTicket, HasUpdate
    <2>4. UniqueTickets' /\ UniqueUpdates' /\ OneTable'
        BY <2>1, <2>3 DEF OnceInv, UniqueTickets, UniqueUpdates, OneTable
    <2>5. m \notin raced' => \A q \in Requests : pc[q] # "idle" => msg[q] # m
        BY <2>1 DEF Running
    <2>6. ASSUME NEW q \in Requests, pc'[q] # "idle", msg'[q] \notin raced'
          PROVE  /\ \A p \in Requests : pc'[p] # "idle" /\ msg'[p] = msg'[q] => p = q
                 /\ pc'[q] \in {"checkUpdates", "insert"} => ~HasTicket(msg'[q], at'[q])
                 /\ pc'[q] = "insert" => ~HasUpdate(msg'[q], at'[q])
        <3>1. CASE q = r
            BY <2>2, <2>5, <2>6, <3>1
        <3>2. CASE q # r
            <4>1. pc[q] # "idle" /\ msg'[q] = msg[q] /\ msg[q] \notin raced
                BY <2>1, <2>2, <2>6, <3>2
            <4>2. msg[q] # m
                BY <2>5, <2>6, <4>1
            <4> QED
                BY <2>1, <2>2, <3>2, <4>1, <4>2 DEF OnceInv, Alone
        <3> QED
            BY <3>1, <3>2
    <2>7. Alone'
        BY <2>3, <2>6 DEF Alone
    <2> QED
        BY <1>0, <2>4, <2>7 DEF OnceInv
<1>2. ASSUME NEW r \in Requests, Classify(r) PROVE OnceInv'
    <2>1. UNCHANGED <<tickets, updates, msg, raced>> /\ pc[r] = "classify"
        BY <1>2 DEF Classify
    <2>2. /\ pc'[r] \in {"idle", "list"}
          /\ \A q \in Requests : q # r => pc'[q] = pc[q] /\ at'[q] = at[q]
        BY <1>2, <1>b DEF Classify, Answer
    <2> QED
        BY <1>0, <2>1, <2>2, QuietOnce
<1>3. ASSUME NEW r \in Requests, ListOpen(r) PROVE OnceInv'
    <2>1. UNCHANGED <<tickets, updates, msg, raced, at>> /\ pc[r] = "list"
        BY <1>3 DEF ListOpen
    <2>2. \A q \in Requests : pc'[q] = IF q = r THEN "checkTickets" ELSE pc[q]
        BY <1>3, <1>b DEF ListOpen
    <2> QED
        BY <1>0, <2>1, <2>2, QuietOnce
<1>4. ASSUME NEW r \in Requests, CheckTickets(r) PROVE OnceInv'
    <2>1. UNCHANGED <<tickets, updates, msg, raced>> /\ pc[r] = "checkTickets"
        BY <1>4 DEF CheckTickets
    <2>2. CASE NextIssue(r, FALSE)
        BY <1>0, <2>1, <2>2, NextIssueMoves, QuietOnce
    <2>3. CASE /\ pc' = [pc EXCEPT ![r] = "checkUpdates"] /\ UNCHANGED at
               /\ ~HasTicket(msg[r], at[r])
        <3>1. \A q \in Requests : pc'[q] = IF q = r THEN "checkUpdates" ELSE pc[q]
            BY <1>b, <2>3
        <3> QED
            BY <1>0, <2>1, <2>3, <3>1, QuietOnce
    <2> QED
        BY <1>4, <2>2, <2>3 DEF CheckTickets
<1>5. ASSUME NEW r \in Requests, CheckUpdates(r) PROVE OnceInv'
    <2>1. UNCHANGED <<tickets, updates, msg, raced>> /\ pc[r] = "checkUpdates"
        BY <1>5 DEF CheckUpdates
    <2>2. CASE NextIssue(r, FALSE)
        BY <1>0, <2>1, <2>2, NextIssueMoves, QuietOnce
    <2>3. CASE pc' = [pc EXCEPT ![r] = "insert"] /\ UNCHANGED at /\ ~HasUpdate(msg[r], at[r])
        <3>1. \A q \in Requests : pc'[q] = IF q = r THEN "insert" ELSE pc[q]
            BY <1>b, <2>3
        <3> QED
            BY <1>0, <2>1, <2>3, <3>1, QuietOnce
    <2> QED
        BY <1>5, <2>2, <2>3 DEF CheckUpdates
<1>6. ASSUME NEW r \in Requests, InsertUpdate(r) PROVE OnceInv'
    <2> DEFINE row == [id |-> nextId, ticket |-> route[r], msg |-> msg[r],
                       index |-> at[r], text |-> issues[r][at[r]].text]
    <2>1. pc[r] = "insert" /\ UNCHANGED <<tickets, msg, raced>>
        BY <1>6 DEF InsertUpdate
    <2>2. CASE NextIssue(r, FALSE) /\ UNCHANGED updates
        BY <1>0, <2>1, <2>2, NextIssueMoves, QuietOnce
    <2>3. CASE NextIssue(r, TRUE) /\ updates' = updates \cup {row} /\ ~HasUpdate(msg[r], at[r])
        <3>1. row.msg = msg[r] /\ row.index = at[r]
            OBVIOUS
        <3> HIDE DEF row
        <3>2. UniqueTickets' /\ UniqueUpdates'
            BY <2>1, <2>3, <3>1 DEF OnceInv, UniqueTickets, UniqueUpdates, HasUpdate
        <3>3. \A m, i : HasTicket(m, i)' <=> HasTicket(m, i)
            BY <2>1 DEF HasTicket
        <3>4. \A m, i : \/ HasUpdate(m, i)' <=> HasUpdate(m, i)
                        \/ m = msg[r] /\ i = at[r] /\ ~HasUpdate(m, i)
            BY <2>3, <3>1 DEF HasUpdate
        <3>5. /\ pc'[r] \in {"idle", "checkTickets"}
              /\ \A q \in Requests : q # r => pc'[q] = pc[q] /\ at'[q] = at[q]
            BY <1>0, <2>3, NextIssueMoves
        <3> QED
            BY <1>0, <2>1, <3>2, <3>3, <3>4, <3>5, RowOnce
    <2> QED
        BY <1>6, <2>2, <2>3 DEF InsertUpdate
<1>7. ASSUME NEW r \in Requests, InsertTicket(r) PROVE OnceInv'
    <2> DEFINE row == [msg |-> msg[r], index |-> at[r], text |-> issues[r][at[r]].text,
                       key |-> KeyOf(issues[r][at[r]].text), status |-> "review"]
    <2>1. pc[r] = "insert" /\ UNCHANGED <<updates, msg, raced>>
        BY <1>7 DEF InsertTicket
    <2>2. CASE NextIssue(r, FALSE) /\ UNCHANGED tickets
        BY <1>0, <2>1, <2>2, NextIssueMoves, QuietOnce
    <2>3. CASE NextIssue(r, TRUE) /\ tickets' = Append(tickets, row) /\ ~HasTicket(msg[r], at[r])
        <3>1. row.msg = msg[r] /\ row.index = at[r]
            OBVIOUS
        <3> HIDE DEF row
        <3>a. /\ DOMAIN tickets' = DOMAIN tickets \cup {Len(tickets) + 1}
              /\ \A k \in DOMAIN tickets : tickets'[k] = tickets[k]
              /\ tickets'[Len(tickets) + 1] = row
            BY <1>b, <2>3
        <3>2. UniqueTickets'
            BY <2>3, <3>1, <3>a DEF OnceInv, UniqueTickets, HasTicket
        <3>3. UniqueUpdates' /\ \A m, i : HasUpdate(m, i)' <=> HasUpdate(m, i)
            BY <2>1 DEF HasUpdate, OnceInv, UniqueUpdates
        <3>4. \A m, i : \/ HasTicket(m, i)' <=> HasTicket(m, i)
                        \/ m = msg[r] /\ i = at[r] /\ ~HasTicket(m, i)
            BY <3>1, <3>a DEF HasTicket
        <3>5. /\ pc'[r] \in {"idle", "checkTickets"}
              /\ \A q \in Requests : q # r => pc'[q] = pc[q] /\ at'[q] = at[q]
            BY <1>0, <2>3, NextIssueMoves
        <3> QED
            BY <1>0, <2>1, <3>2, <3>3, <3>4, <3>5, RowOnce
    <2> QED
        BY <1>7, <2>2, <2>3 DEF InsertTicket
<1>8. ASSUME NEW r \in Requests, InsertFails(r) PROVE OnceInv'
    <2>1. UNCHANGED <<tickets, updates, msg, at, raced>> /\ Answer(r, issues[r], "error")
        BY <1>8 DEF InsertFails
    <2>2. \A q \in Requests : pc'[q] = IF q = r THEN "idle" ELSE pc[q]
        BY <1>b, <2>1 DEF Answer
    <2> QED
        BY <1>0, <2>1, <2>2, QuietOnce
<1>9. ASSUME UNCHANGED <<requestVars, raced>>, UniqueTickets', UniqueUpdates',
             \A m, i : HasTicket(m, i)' <=> HasTicket(m, i),
             \A m, i : HasUpdate(m, i)' <=> HasUpdate(m, i)
      PROVE  OnceInv'
    <2>1. OneTable'
        BY <1>9 DEF OnceInv, OneTable
    <2>2. Alone'
        BY <1>9 DEF OnceInv, Alone
    <2> QED
        BY <1>0, <1>9, <2>1, <2>2 DEF OnceInv
<1>10. ASSUME NEW k \in DOMAIN tickets, NEW status \in Statuses, UpdateStatus(k, status)
       PROVE  OnceInv'
    <2>1. /\ tickets' = [tickets EXCEPT ![k].status = status]
          /\ UNCHANGED <<updates, requestVars, raced>>
        BY <1>10 DEF UpdateStatus
    <2>2. DOMAIN tickets' = DOMAIN tickets
        BY <1>b, <2>1
    <2>3. \A j \in DOMAIN tickets : tickets'[j].msg = tickets[j].msg /\ tickets'[j].index = tickets[j].index
        BY <1>b, <2>1 DEF Tickets
    <2>4. UniqueTickets' /\ \A m, i : HasTicket(m, i)' <=> HasTicket(m, i)
        BY <2>2, <2>3 DEF OnceInv, UniqueTickets, HasTicket
    <2>5. UniqueUpdates' /\ \A m, i : HasUpdate(m, i)' <=> HasUpdate(m, i)
        BY <2>1 DEF HasUpdate, OnceInv, UniqueUpdates
    <2> QED
        BY <1>9, <2>1, <2>4, <2>5
<1>11. ASSUME NEW u \in updates, NEW k \in DOMAIN tickets, Relink(u, k) PROVE OnceInv'
    <2> DEFINE moved == [u EXCEPT !.ticket = k]
    <2>1. updates' = (updates \ {u}) \cup {moved} /\ UNCHANGED <<tickets, requestVars, raced>>
        BY <1>11 DEF Relink
    <2>2. moved.msg = u.msg /\ moved.index = u.index
        BY <1>b DEF Updates
    <2> HIDE DEF moved
    <2>3. UniqueUpdates' /\ \A m, i : HasUpdate(m, i)' <=> HasUpdate(m, i)
        BY <2>1, <2>2 DEF HasUpdate, OnceInv, UniqueUpdates
    <2>4. UniqueTickets' /\ \A m, i : HasTicket(m, i)' <=> HasTicket(m, i)
        BY <2>1 DEF OnceInv, UniqueTickets, HasTicket
    <2> QED
        BY <1>9, <2>1, <2>3, <2>4
<1>12. ASSUME NEW u \in updates, Promote(u) PROVE OnceInv'
    <2> DEFINE row == [msg |-> u.msg, index |-> 1, text |-> u.text, key |-> None, status |-> "review"]
    <2>1. UNCHANGED requestVars /\ raced' = raced \cup {u.msg}
        BY <1>12 DEF Promote
    <2>2. \A m, i : m # u.msg =>
              (HasTicket(m, i)' <=> HasTicket(m, i)) /\ (HasUpdate(m, i)' <=> HasUpdate(m, i))
        <3>1. CASE UNCHANGED <<tickets, updates>>
            BY <3>1 DEF HasTicket, HasUpdate
        <3>2. CASE tickets' = Append(tickets, row) /\ updates' = updates \ {u}
            <4>1. row.msg = u.msg
                OBVIOUS
            <4> HIDE DEF row
            <4>2. /\ DOMAIN tickets' = DOMAIN tickets \cup {Len(tickets) + 1}
                  /\ \A k \in DOMAIN tickets : tickets'[k] = tickets[k]
                  /\ tickets'[Len(tickets) + 1] = row
                BY <1>b, <3>2
            <4> QED
                BY <3>2, <4>1, <4>2 DEF HasTicket, HasUpdate
        <3> QED
            BY <1>12, <3>1, <3>2 DEF Promote
    <2>3. UniqueTickets' /\ UniqueUpdates'
        <3>1. CASE UNCHANGED <<tickets, updates>>
            BY <3>1 DEF OnceInv, UniqueTickets, UniqueUpdates
        <3>2. CASE ~HasTicket(u.msg, 1) /\ tickets' = Append(tickets, row) /\ updates' = updates \ {u}
            <4>1. row.msg = u.msg /\ row.index = 1
                OBVIOUS
            <4> HIDE DEF row
            <4>2. /\ DOMAIN tickets' = DOMAIN tickets \cup {Len(tickets) + 1}
                  /\ \A k \in DOMAIN tickets : tickets'[k] = tickets[k]
                  /\ tickets'[Len(tickets) + 1] = row
                BY <1>b, <3>2
            <4> QED
                BY <3>2, <4>1, <4>2 DEF OnceInv, UniqueTickets, UniqueUpdates, HasTicket
        <3> QED
            BY <1>12, <3>1, <3>2 DEF Promote
    <2>4. OneTable'
        <3>1. ASSUME NEW m \in Messages \ raced', NEW i \in Nat
              PROVE  ~(HasTicket(m, i) /\ HasUpdate(m, i))'
            <4>1. m \in Messages \ raced /\ m # u.msg
                BY <2>1
            <4>2. HasTicket(m, i)' <=> HasTicket(m, i)
                BY <2>2, <4>1
            <4>3. HasUpdate(m, i)' <=> HasUpdate(m, i)
                BY <2>2, <4>1
            <4>4. ~(HasTicket(m, i) /\ HasUpdate(m, i))
                BY <4>1 DEF OnceInv, OneTable
            <4> QED
                BY <4>2, <4>3, <4>4
        <3> QED
            BY <3>1 DEF OneTable
    <2>5. Alone'
        <3>1. ASSUME NEW r \in Requests, pc[r] # "idle", msg[r] \notin raced'
              PROVE  /\ \A q \in Requests : pc[q] # "idle" /\ msg[q] = msg[r] => q = r
                     /\ \A m, i : m = msg[r] /\ i = at[r] =>
                           /\ pc[r] \in {"checkUpdates", "insert"} => ~HasTicket(m, i)'
                           /\ pc[r] = "insert" => ~HasUpdate(m, i)'
            <4>1. msg[r] \notin raced /\ msg[r] # u.msg
                BY <2>1, <3>1
            <4>2. \A m, i : m = msg[r] =>
                      (HasTicket(m, i)' <=> HasTicket(m, i)) /\ (HasUpdate(m, i)' <=> HasUpdate(m, i))
                BY <2>2, <4>1
            <4> QED
                BY <3>1, <4>1, <4>2 DEF OnceInv, Alone
        <3> QED
            BY <2>1, <3>1 DEF Alone, HasTicket, HasUpdate
    <2> QED
        BY <1>0, <2>3, <2>4, <2>5 DEF OnceInv
<1>13. CASE ProcessEnds
    <2>1. UNCHANGED <<tickets, updates, raced>> /\ \A q \in Requests : pc'[q] = "idle"
        BY <1>13 DEF ProcessEnds
    <2> QED
        BY <1>0, <2>1, QuietOnce
<1>14. CASE UNCHANGED vars
    <2>1. UNCHANGED <<tickets, updates, raced, pc, msg, at>>
        BY <1>14 DEF vars
    <2> QED
        BY <1>0, <2>1, QuietOnce
<1> QED
    BY <1>1, <1>2, <1>3, <1>4, <1>5, <1>6, <1>7, <1>8, <1>10, <1>11, <1>12, <1>13, <1>14
    DEF Next, RequestStep

\* In every mode an issue_index of a message whose requests do not overlap, and
\* of which no update is promoted, has at most one row in the two tables.
THEOREM IngestStoresOnce == Spec => []StoredOnce
BY InitOnce, NextOnce, OnceCounts, PTL DEF Spec
=============================================================================
