---------------------------- MODULE MCSemaphore ----------------------------
(* Three threads above idle: two equals and one of higher priority. *)
EXTENDS Semaphore

CONSTANTS idle, a, b, c

MCPrio == [t \in Thread |-> CASE t = idle -> 2 [] t = c -> 0 [] OTHER -> 1]

MCOrder == <<idle, a, b, c>>

MCTimes == {Forever, 0, 1}
=============================================================================
