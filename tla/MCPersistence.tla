--------------------------- MODULE MCPersistence ---------------------------
(* Persistence with the main loop and one other goroutine: two callers are *)
(* enough for every interleaving of two persist() calls, and a third       *)
(* change while both are under way is a generation, not a goroutine.       *)
EXTENDS Persistence

=============================================================================
