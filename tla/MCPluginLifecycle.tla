------------------------- MODULE MCPluginLifecycle -------------------------
(* The engine's plugin and three others: one registers its handler at once  *)
(* and runs first, the two others register later, with one priority.        *)
EXTENDS PluginLifecycle

CONSTANTS baileys, filter, reply, log
PluginSet == {baileys, filter, reply, log}
Ranks == (baileys :> 50) @@ (filter :> 10) @@ (reply :> 100) @@ (log :> 100)
=============================================================================
