------------------------------ MODULE MCTimers ------------------------------
(* Two timers of either kind, and one thread below the timer thread. *)
EXTENDS Timers, TLC

CONSTANTS idle, timer, a, t1, t2

MCPrio == [t \in Thread |-> CASE t = idle -> 2 [] t = a -> 1 [] t = timer -> 0]

Symmetry == Permutations(Timer)

MCOrder == <<idle, a, timer>>
=============================================================================
