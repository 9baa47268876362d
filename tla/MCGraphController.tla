-------------------------- MODULE MCGraphController --------------------------
(* Small instances of GraphController. *)
EXTENDS GraphController

CONSTANTS idle_tick, patch, requeue

SizeOf == [m \in Commands |-> CASE m = patch -> 2 [] m = idle_tick -> 0 [] OTHER -> 1]
Lengths == 0..4
DecideByLength(m, s) == Len(s)
=============================================================================
