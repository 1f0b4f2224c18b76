------------------------- MODULE MCWebhookDelivery -------------------------
(* Small instances of WebhookDelivery for TLC. *)
EXTENDS WebhookDelivery, TLC

CONSTANTS w1, w2, t1, t2

\* The first webhook subscribes to every event, the second to the last.
MCListens == [w \in Webhooks |-> IF w = w1 THEN Events ELSE {NumEvents}]

\* Sound for the invariants and the action properties: ticks are alike.
TimerSymmetry == Permutations(Timers)
=============================================================================
