----------------------------- MODULE ByteBuffer -----------------------------
(***************************************************************************)
(* src/src/buffer.c: the byte buffer every connection uses for its input   *)
(* and output.  The memory is an array of Limit bytes; `read' and `write'  *)
(* are the two pointers, as offsets from b->data.                          *)
(***************************************************************************)
EXTENDS Integers, Sequences

CONSTANTS
  Byte,    \* the values of a byte
  Zero,    \* the value calloc leaves in the memory
  Limit    \* b->limit - b->data

ASSUME BufferAssumption == Limit \in Nat \ {0} /\ Zero \in Byte

VARIABLES data, read, write
vars == <<data, read, write>>

Init ==
  /\ data = [i \in 1..Limit |-> Zero]
  /\ read = 0
  /\ write = 0

WritePtrPastEnd == Limit - write + 1
WritePtr == Limit - write     \* the count reported by buffer_write_ptr
ReadPtr == write - read       \* the count reported by buffer_read_ptr

\* memory d once s has been stored at offset w
Stored(d, w, s) ==
  [i \in 1..Limit |-> IF i \in w + 1 .. w + Len(s) THEN s[i - w] ELSE d[i]]

\* A caller stores s at the write pointer (recv, memcpy, buffer_write) and
\* calls buffer_write_adv.
WriteAdv(s) ==
  /\ Len(s) <= WritePtr
  /\ data' = Stored(data, write, s)
  /\ write' = write + Len(s)
  /\ UNCHANGED read

\* buffer_compact: memmove when there are unread bytes, both pointers back
\* to the start when there are none, nothing when R is already at the start.
CompactedNoMove(d, r, w) == [data |-> d, write |-> w - r]

Compacted(d, r, w) ==
  [data  |-> [i \in 1..Limit |-> IF i <= w - r THEN d[r + i] ELSE d[i]],
   write |-> w - r]

Compact ==
  /\ data' = Compacted(data, read, write).data
  /\ write' = Compacted(data, read, write).write
  /\ read' = 0

ReadAdvNoCompact(n) ==
  /\ n <= ReadPtr
  /\ read' = read + n
  /\ UNCHANGED <<data, write>>

\* buffer_read_adv (and buffer_read, with n = 1): a drained buffer is
\* compacted at once.
ReadAdv(n) ==
  /\ n <= ReadPtr
  /\ IF read + n = write
     THEN /\ read' = 0
          /\ write' = 0
     ELSE /\ read' = read + n
          /\ UNCHANGED write
  /\ UNCHANGED data

\* buffer_reset
Reset ==
  /\ read' = 0
  /\ write' = 0
  /\ UNCHANGED data

Chunk == UNION {[1..n -> Byte] : n \in 0..Limit}

Next ==
  \/ \E s \in Chunk : WriteAdv(s)
  \/ \E n \in 0..Limit : ReadAdv(n)
  \/ Compact
  \/ Reset

Spec == Init /\ [][Next]_vars

-----------------------------------------------------------------------------
\* The pointers keep the order buffer.h:27-28 states, R <= W <= limit, which
\* the asserts of buffer.c rely on, and the memory never changes size.
TypeOK ==
  /\ data \in [1..Limit -> Byte]
  /\ read \in 0..Limit
  /\ write \in 0..Limit
  /\ read <= write

\* A buffer with nothing to read offers its whole capacity to the next
\* recv: callers that wait for the buffer to drain before reading again
\* never call recv with a zero length, whose 0 they would take for the end
\* of the stream.
DrainedOffersAll == ReadPtr = 0 => WritePtr = Limit

\* The unread bytes, as the queue of FifoSpec.
UnreadBytes(d, r, w) == [i \in 1..(w - r) |-> d[r + i]]
Queue == [bytes |-> UnreadBytes(data, read, write), dead |-> read]

\* The pointer manipulations implement the queue: bytes come out in the order
\* they went in, none lost, none repeated, whatever mix of partial reads,
\* writes and compactions is made.
Fifo == INSTANCE FifoSpec WITH queue <- Queue
FifoRefined == Fifo!Spec
=============================================================================
