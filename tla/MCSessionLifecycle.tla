------------------------ MODULE MCSessionLifecycle ------------------------
(* SessionLifecycle on a small instance: three engines, so that an orphan  *)
(* can live beside the engine in the map and its successor, and two calls. *)
EXTENDS SessionLifecycle

CONSTANTS e1, e2, e3, c1, c2
MCEngines == {e1, e2, e3}
MCCalls == {c1, c2}
===========================================================================
