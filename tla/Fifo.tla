-------------------------------- MODULE Fifo --------------------------------
(***************************************************************************)
(* What a mailbox, a message queue, a FreeRTOS queue and a data queue      *)
(* promise: a bounded first-in first-out queue.  Where the object allows   *)
(* it, a value may also go to the front or overwrite the first one.  What  *)
(* goes in comes out once, in order, until the queue is reset.             *)
(***************************************************************************)
EXTENDS Naturals, Sequences

CONSTANTS Value, NoValue, Size,
          Puts      \* the ways to put a value in: "BACK", "FRONT", "OVERWRITE"

VARIABLES
  queue,    \* what is in the queue
  got       \* what was taken out last

Init == queue = <<>> /\ got = NoValue

PutBack(v) ==
  /\ "BACK" \in Puts
  /\ Len(queue) < Size
  /\ queue' = Append(queue, v)
  /\ UNCHANGED got

PutFront(v) ==
  /\ "FRONT" \in Puts
  /\ Len(queue) < Size
  /\ queue' = <<v>> \o queue
  /\ UNCHANGED got

Overwrite(v) ==
  /\ "OVERWRITE" \in Puts
  /\ queue # <<>>
  /\ queue' = <<v>> \o Tail(queue)
  /\ UNCHANGED got

Get ==
  /\ queue # <<>>
  /\ got' = Head(queue)
  /\ queue' = Tail(queue)

Reset == queue' = <<>> /\ UNCHANGED got

Next == Get \/ Reset \/ \E v \in Value : PutBack(v) \/ PutFront(v) \/ Overwrite(v)

Spec == Init /\ [][Next]_<<queue, got>>
=============================================================================
