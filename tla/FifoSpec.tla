------------------------------ MODULE FifoSpec ------------------------------
(***************************************************************************)
(* The abstract machine of a buffer: it delivers the bytes put into it in  *)
(* order, each once, and never holds more than Limit.                      *)
(***************************************************************************)
EXTENDS Fifo

CONSTANT Byte

VARIABLE queue

Chunk == UNION {[1..n -> Byte] : n \in 0..Limit}

Init == queue = Empty

Write == \E s \in Chunk : Len(s) <= Room(queue) /\ queue' = Put(queue, s)
Read == \E n \in 0..Unread(queue) : queue' = Take(queue, n)
Compact == queue' = Compacted(queue)
Reset == queue' = Empty

Next == Write \/ Read \/ Compact \/ Reset

Spec == Init /\ [][Next]_queue
=============================================================================
