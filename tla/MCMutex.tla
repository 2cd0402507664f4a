------------------------------ MODULE MCMutex ------------------------------
(* Three threads above idle, each of a priority of its own. *)
EXTENDS Mutex

CONSTANTS idle, a, b, c

MCPrio == [t \in Thread |-> CASE t = idle -> 3 [] t = a -> 2 [] t = b -> 1 [] t = c -> 0]

MCOrder == <<idle, a, b, c>>

MCTimes == {Forever, 0, 1}
=============================================================================
