---------------------------- MODULE MCScheduling ----------------------------
(* Four threads: main and a are equals below b, or all four differ. *)
EXTENDS Scheduling

CONSTANTS main, idle, a, b

MCEquals == [t \in Thread |-> CASE t = idle -> 2 [] t = b -> 0 [] OTHER -> 1]
MCLadder == [t \in Thread |-> CASE t = idle -> 3 [] t = a -> 2 [] t = main -> 1 [] t = b -> 0]
=============================================================================
