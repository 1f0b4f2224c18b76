----------------------------- MODULE EventLedger -----------------------------
(***************************************************************************)
(* What the gateway promises of an event and a webhook it is to reach, a   *)
(* pair <<webhook, event>>, whatever it does to deliver it:                *)
(*   - delivery from memory ends with the endpoint having taken the event, *)
(*     with the event kept, or with a log entry that says it was given up; *)
(*   - a kept event leaves the table only when the endpoint has taken it   *)
(*     or with such a log entry, and a crash does not touch it;            *)
(*   - only an event that is delivered from memory can be lost in a crash. *)
(***************************************************************************)
CONSTANTS Webhooks, Events

VARIABLES
    known,   \* the pairs dispatch() has found
    owed,    \* those being delivered from memory
    kept,    \* those with a row in the outbox
    taken,   \* those the endpoint has taken in, once or more often
    closed,  \* those logged as given up on
    lost     \* those whose delivery the end of the process cut off

vars == <<known, owed, kept, taken, closed, lost>>

AllPairs == Webhooks \X Events

Init ==
    /\ known = {} /\ owed = {} /\ kept = {}
    /\ taken = {} /\ closed = {} /\ lost = {}

\* An event turns up for some webhooks.
Owe(S) ==
    /\ S \cap known = {}
    /\ known' = known \cup S
    /\ owed' = owed \cup S
    /\ UNCHANGED <<kept, taken, closed, lost>>

\* Direct delivery is given up on for now.
Keep(p) ==
    /\ p \in owed
    /\ owed' = owed \ {p}
    /\ kept' = kept \cup {p}
    /\ UNCHANGED <<known, taken, closed, lost>>

\* The endpoint takes an event in, at whatever time: the request may be late.
Take(p) ==
    /\ p \in known
    /\ taken' = taken \cup {p}
    /\ \/ UNCHANGED owed
       \/ owed' = owed \ {p}
    /\ UNCHANGED <<known, kept, closed, lost>>

\* A kept event that was taken in leaves the table.
Settle(p) ==
    /\ p \in kept \cap taken
    /\ kept' = kept \ {p}
    /\ UNCHANGED <<known, owed, taken, closed, lost>>

\* Some are given up on, and the log says so.
GiveUp(S) ==
    /\ S \subseteq owed \cup kept
    /\ owed' = owed \ S
    /\ kept' = kept \ S
    /\ closed' = closed \cup S
    /\ UNCHANGED <<known, taken, lost>>

\* The process ends: what it had in memory is lost, the table is not.
Crash ==
    /\ owed' = {}
    /\ lost' = lost \cup owed
    /\ UNCHANGED <<known, kept, taken, closed>>

Next ==
    \/ \E S \in SUBSET AllPairs : Owe(S) \/ GiveUp(S)
    \/ \E p \in AllPairs : Keep(p) \/ Take(p) \/ Settle(p)
    \/ Crash

Spec == Init /\ [][Next]_vars

TypeOK ==
    /\ known \subseteq AllPairs /\ owed \subseteq known /\ kept \subseteq known
    /\ taken \subseteq known /\ closed \subseteq known /\ lost \subseteq known

\* Every pair that was found is owed, kept, taken in, logged as given up on or
\* was cut off by the end of the process.
NoSilentLoss == known \subseteq owed \cup kept \cup taken \cup closed \cup lost
=============================================================================
