------------------------------- MODULE Lists -------------------------------
(***************************************************************************)
(* The doubly linked lists of rtservice.h.  A list is the sequence of the  *)
(* entries from its head node around, and an entry is linked by a node of  *)
(* its own, so that removing it needs no search: it is taken out wherever  *)
(* it is, and removing an entry that is not linked does nothing.           *)
(***************************************************************************)
EXTENDS Integers, Sequences, FiniteSetsExt

\* The list without its i-th entry.
Cut(s, i) == SubSeq(s, 1, i - 1) \o SubSeq(s, i + 1, Len(s))

rt_list_remove(s, e) ==
  IF \E i \in 1 .. Len(s) : s[i] = e
  THEN Cut(s, Min({i \in 1 .. Len(s) : s[i] = e}))
  ELSE s

\* Entry e is linked before the i-th entry, or at the end when i is one past it.
rt_list_insert_before(s, i, e) == SubSeq(s, 1, i - 1) \o <<e>> \o SubSeq(s, i, Len(s))

\* Position of the first entry whose key is above n, or one past the end: where a
\* list sorted by that key takes an entry of key n, behind its equals.
FirstAbove(s, key, n) ==
  Min({i \in 1 .. Len(s) : key[s[i]] > n} \cup {Len(s) + 1})
=============================================================================
