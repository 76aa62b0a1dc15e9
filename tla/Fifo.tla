-------------------------------- MODULE Fifo --------------------------------
(***************************************************************************)
(* What buffer.h promises its callers, stripped of pointers: a queue of    *)
(* unread bytes, plus the number of already read positions in front of    *)
(* them that are not available for writing until they are reclaimed (the   *)
(* R of the drawings in buffer.h).  Limit is the capacity given to         *)
(* buffer_init.                                                            *)
(***************************************************************************)
EXTENDS Integers, Sequences

CONSTANT Limit

Empty == [bytes |-> << >>, dead |-> 0]

\* buffer_can_read
Pending(q) == q.bytes # << >>

\* the count buffer_write_ptr reports
Room(q) == Limit - q.dead - Len(q.bytes)

\* the bytes buffer_read_ptr exposes, and the first n of them
Unread(q) == Len(q.bytes)
Front(q, n) == SubSeq(q.bytes, 1, n)

\* buffer_write_adv: s was stored at the write pointer
Put(q, s) == [bytes |-> q.bytes \o s, dead |-> q.dead]

\* Mutant: the bytes stay in front of the queue.
TakeNothing(q, n) == q

\* buffer_read_adv: n bytes were consumed; a drained buffer reclaims all of
\* its space, a partly drained one reclaims nothing
Take(q, n) ==
  IF n = Len(q.bytes) THEN Empty
  ELSE [bytes |-> SubSeq(q.bytes, n + 1, Len(q.bytes)), dead |-> q.dead + n]

\* buffer_compact
Compacted(q) == [bytes |-> q.bytes, dead |-> 0]
=============================================================================
