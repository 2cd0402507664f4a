----------------------------- MODULE MCMemPool ------------------------------
(* Two threads of equal priority above idle and one of higher priority. *)
EXTENDS MemPool

CONSTANTS idle, a, b, c

MCPrio == [t \in Thread |-> CASE t = idle -> 2 [] t = c -> 0 [] OTHER -> 1]

MCOrder == <<idle, a, b, c>>

Timed == {Forever, 0, 2}

Untimed == {Forever, 0}
=============================================================================
