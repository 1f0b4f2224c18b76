-------------------------- MODULE MCInfrastructure --------------------------
(* Two sessions with a webhook each and a message; the second session and   *)
(* webhook do not exist at the start.  Two media files.                     *)
EXTENDS Infrastructure, TLC

CONSTANTS s1, s2, w1, w2, m1, f1, f2,
          Edits, Saves, Restarts, Moves, Fails, Writes, Crashes, All

TableOf == (s1 :> "sessions") @@ (s2 :> "sessions") @@ (w1 :> "webhooks")
           @@ (w2 :> "webhooks") @@ (m1 :> "messages")
SessionOf == (w1 :> s1) @@ (w2 :> s2)
Limits == [edits |-> Edits, saves |-> Saves, restarts |-> Restarts, exports |-> Moves,
           imports |-> Moves, archives |-> Moves, unpacks |-> Moves, fails |-> Fails,
           writes |-> Writes, crashes |-> Crashes, all |-> All]
=============================================================================
