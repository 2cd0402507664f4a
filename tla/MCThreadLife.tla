---------------------------- MODULE MCThreadLife ----------------------------
(* The main thread, an equal of it, and a thread of higher priority. *)
EXTENDS ThreadLife

CONSTANTS idle, main, a, b

MCPrio == [t \in Thread |-> CASE t = idle -> 2 [] t = b -> 0 [] OTHER -> 1]
=============================================================================
