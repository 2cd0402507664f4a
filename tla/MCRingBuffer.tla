---------------------------- MODULE MCRingBuffer ----------------------------
(***************************************************************************)
(* A ring buffer of four bytes, and blocks shorter and longer than it.     *)
(***************************************************************************)
EXTENDS RingBuffer

CONSTANTS x, y

Bytes == {x, y}

SomeBlocks == UNION {[1 .. n -> {x, y}] : n \in {1, 3, 4, 5}}
=============================================================================
