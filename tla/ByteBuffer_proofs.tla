------------------------- MODULE ByteBuffer_proofs -------------------------
(* Proofs about the byte buffer, for every capacity and every byte set. *)
EXTENDS ByteBuffer, SequenceTheorems, TLAPS

\* The pointers stay ordered and inside the memory: R <= W <= limit.
THEOREM TypeCorrect == Spec => []TypeOK
<1> USE BufferAssumption DEF TypeOK
<1>1. Init => TypeOK
  BY DEF Init
<1>2. TypeOK /\ [Next]_vars => TypeOK'
  <2> SUFFICES ASSUME TypeOK, [Next]_vars PROVE TypeOK'
    OBVIOUS
  <2>1. ASSUME NEW s \in Chunk, WriteAdv(s) PROVE TypeOK'
    <3>1. PICK k \in 0..Limit : s \in [1..k -> Byte]
      BY <2>1 DEF Chunk
    <3>2. Len(s) = k
      BY <3>1
    <3>3. k <= Limit - write /\ write' = write + k /\ read' = read
      BY <2>1, <3>2 DEF WriteAdv, WritePtr
    <3>4. \A i \in write + 1 .. write + k : s[i - write] \in Byte
      BY <3>1
    <3>5. data' \in [1..Limit -> Byte]
      BY <2>1, <3>2, <3>4 DEF WriteAdv, Stored
    <3> QED
      BY <3>3, <3>5
  <2>2. ASSUME NEW n \in 0..Limit, ReadAdv(n) PROVE TypeOK'
    BY <2>2 DEF ReadAdv, ReadPtr
  <2>3. CASE Compact
    <3>1. data' = [i \in 1..Limit |-> IF i <= write - read THEN data[read + i] ELSE data[i]]
      BY <2>3 DEF Compact, Compacted
    <3>2. \A i \in 1..Limit : i <= write - read => read + i \in 1..Limit
      OBVIOUS
    <3>3. data' \in [1..Limit -> Byte]
      BY <3>1, <3>2
    <3>4. read' = 0 /\ write' = write - read
      BY <2>3 DEF Compact, Compacted
    <3> QED
      BY <3>3, <3>4
  <2>4. CASE Reset
    BY <2>4 DEF Reset
  <2>5. CASE UNCHANGED vars
    BY <2>5 DEF vars
  <2> QED
    BY <2>1, <2>2, <2>3, <2>4, <2>5 DEF Next
<1> QED
  BY <1>1, <1>2, PTL DEF Spec

\* A drained buffer has both pointers at its start, so that its whole
\* capacity is writable.  The invariant is stated on the pointers.
DrainedAtStart == read = write => write = 0

\* A drained buffer always offers all of its capacity to the next recv.
THEOREM DrainedOffersAllCorrect == Spec => []DrainedOffersAll
<1> USE BufferAssumption DEF TypeOK, DrainedAtStart
<1>1. Init => DrainedAtStart
  BY DEF Init
<1>2. TypeOK /\ DrainedAtStart /\ [Next]_vars => DrainedAtStart'
  <2> SUFFICES ASSUME TypeOK, DrainedAtStart, [Next]_vars PROVE DrainedAtStart'
    OBVIOUS
  <2>1. ASSUME NEW s \in Chunk, WriteAdv(s) PROVE DrainedAtStart'
    <3>1. PICK k \in 0..Limit : s \in [1..k -> Byte]
      BY <2>1 DEF Chunk
    <3>2. Len(s) = k
      BY <3>1
    <3> QED
      BY <2>1, <3>2 DEF WriteAdv, WritePtr
  <2>2. ASSUME NEW n \in 0..Limit, ReadAdv(n) PROVE DrainedAtStart'
    BY <2>2 DEF ReadAdv, ReadPtr
  <2>3. CASE Compact
    BY <2>3 DEF Compact, Compacted
  <2>4. CASE Reset
    BY <2>4 DEF Reset
  <2>5. CASE UNCHANGED vars
    BY <2>5 DEF vars
  <2> QED
    BY <2>1, <2>2, <2>3, <2>4, <2>5 DEF Next
<1>3. TypeOK /\ DrainedAtStart => DrainedOffersAll
  BY DEF DrainedOffersAll, ReadPtr, WritePtr
<1> QED
  BY <1>1, <1>2, <1>3, TypeCorrect, PTL DEF Spec

-----------------------------------------------------------------------------
\* The unread bytes are a sequence of bytes as long as R is behind W.
LEMMA UnreadIsSeq ==
  ASSUME NEW d \in [1..Limit -> Byte], NEW r \in 0..Limit, NEW w \in r..Limit
  PROVE  /\ UnreadBytes(d, r, w) \in Seq(Byte)
         /\ Len(UnreadBytes(d, r, w)) = w - r
         /\ \A i \in 1..(w - r) : UnreadBytes(d, r, w)[i] = d[r + i]
<1> USE BufferAssumption
<1>1. \A i \in 1..(w - r) : r + i \in 1..Limit
  OBVIOUS
<1>2. w - r \in Nat
  OBVIOUS
<1>3. UnreadBytes(d, r, w) \in [1..(w - r) -> Byte]
  BY <1>1 DEF UnreadBytes
<1> QED
  BY <1>2, <1>3 DEF UnreadBytes

\* An empty range holds the empty sequence.
LEMMA UnreadNothing ==
  ASSUME NEW d, NEW r \in Nat
  PROVE  UnreadBytes(d, r, r) = << >>
  BY DEF UnreadBytes

\* Storing s behind the unread bytes, and leaving those alone, appends it.
LEMMA StoreAppends ==
  ASSUME NEW d \in [1..Limit -> Byte], NEW s \in Seq(Byte),
         NEW r \in 0..Limit, NEW w \in r..Limit, w + Len(s) <= Limit
  PROVE  /\ Stored(d, w, s) \in [1..Limit -> Byte]
         /\ UnreadBytes(Stored(d, w, s), r, w + Len(s)) = UnreadBytes(d, r, w) \o s
<1> USE BufferAssumption
<1> DEFINE old == UnreadBytes(d, r, w)
           v == w + Len(s)
           e == Stored(d, w, s)
           new == UnreadBytes(e, r, v)
<1>1. Len(s) \in Nat /\ v \in r..Limit
  BY LenProperties
<1>e. /\ e \in [1..Limit -> Byte]
      /\ \A i \in 1..Limit : e[i] = IF i \in w + 1 .. v THEN s[i - w] ELSE d[i]
  <2>1. \A i \in w + 1 .. v : s[i - w] \in Byte
    BY <1>1, ElementOfSeq
  <2> QED
    BY <2>1 DEF Stored
<1>v. v = w + Len(s)
  OBVIOUS
<1> HIDE DEF e, v
<1>2. /\ old \in Seq(Byte)
      /\ Len(old) = w - r
      /\ \A i \in 1..(w - r) : old[i] = d[r + i]
  BY UnreadIsSeq
<1>3. /\ new \in Seq(Byte)
      /\ Len(new) = v - r
      /\ \A i \in 1..(v - r) : new[i] = e[r + i]
  BY ZenonT(40), <1>1, <1>e, UnreadIsSeq
<1> HIDE DEF old, new
<1>4. /\ old \o s \in Seq(Byte)
      /\ Len(old \o s) = Len(old) + Len(s)
      /\ \A i \in 1 .. Len(old) + Len(s) :
            (old \o s)[i] = IF i <= Len(old) THEN old[i] ELSE s[i - Len(old)]
  BY <1>2, ConcatProperties
<1>5. Len(new) = Len(old \o s)
  BY <1>1, <1>v, <1>2, <1>3, <1>4
<1>6. \A i \in 1..Len(new) : new[i] = (old \o s)[i]
  <2> TAKE i \in 1..Len(new)
  <2>1. i \in 1..(v - r) /\ i \in 1 .. Len(old) + Len(s) /\ r + i \in 1..Limit
    BY <1>1, <1>v, <1>2, <1>3
  <2>2. new[i] = IF r + i \in w + 1 .. v THEN s[r + i - w] ELSE d[r + i]
    BY <1>e, <1>3, <2>1
  <2>3. (old \o s)[i] = IF i <= w - r THEN old[i] ELSE s[i - (w - r)]
    BY <1>2, <1>4, <2>1
  <2>4. CASE i <= w - r
    <3>1. ~(r + i \in w + 1 .. v) /\ i \in 1..(w - r)
      BY <2>1, <2>4
    <3> QED
      BY <1>2, <2>2, <2>3, <2>4, <3>1
  <2>5. CASE ~(i <= w - r)
    <3>1. r + i \in w + 1 .. v /\ r + i - w = i - (w - r)
      BY <1>1, <2>1, <2>5
    <3> QED
      BY <2>2, <2>3, <2>5, <3>1
  <2> QED
    BY <2>4, <2>5
<1>7. new = old \o s
  BY <1>3, <1>4, <1>5, <1>6, SeqEqual
<1> QED
  BY <1>e, <1>7 DEF new, old, e, v

\* Storing s at the write pointer appends it to the unread bytes.
LEMMA WriteAppends ==
  ASSUME TypeOK, NEW s \in Chunk, WriteAdv(s)
  PROVE  Queue' = Fifo!Put(Queue, s)
<1> USE BufferAssumption DEF TypeOK
<1>1. s \in Seq(Byte) /\ Len(s) \in Nat
  <2>1. PICK k \in 0..Limit : s \in [1..k -> Byte]
    BY DEF Chunk
  <2> QED
    BY <2>1
<1>2. /\ read' = read
      /\ write' = write + Len(s)
      /\ write + Len(s) <= Limit
      /\ data' = Stored(data, write, s)
  BY <1>1 DEF WriteAdv, WritePtr
<1>3. write \in read..Limit
  OBVIOUS
<1>4. UnreadBytes(Stored(data, write, s), read, write + Len(s))
        = UnreadBytes(data, read, write) \o s
  BY <1>1, <1>2, <1>3, StoreAppends
<1> QED
  BY <1>2, <1>4 DEF Queue, Fifo!Put

\* Advancing the read pointer takes bytes from the front, and reclaims the
\* space exactly when it drains the buffer.
LEMMA ReadTakes ==
  ASSUME TypeOK, NEW n \in 0..Limit, ReadAdv(n)
  PROVE  n \in 0..Fifo!Unread(Queue) /\ Queue' = Fifo!Take(Queue, n)
<1> USE BufferAssumption DEF TypeOK
<1> DEFINE old == UnreadBytes(data, read, write)
<1>1. /\ old \in Seq(Byte)
      /\ Len(old) = write - read
      /\ \A i \in 1..(write - read) : old[i] = data[read + i]
  <2>1. write \in read..Limit
    OBVIOUS
  <2> QED
    BY <2>1, UnreadIsSeq
<1>2. n \in 0..(write - read) /\ data' = data
  BY DEF ReadAdv, ReadPtr
<1>3. n \in 0..Fifo!Unread(Queue)
  BY <1>1, <1>2 DEF Fifo!Unread, Queue
<1>4. CASE read + n = write
  <2>1. Queue' = [bytes |-> << >>, dead |-> 0]
    BY <1>4, UnreadNothing DEF ReadAdv, Queue
  <2> QED
    BY <1>1, <1>3, <1>4, <2>1 DEF Fifo!Take, Fifo!Empty, Queue
<1>5. CASE read + n # write
  <2>1. read' = read + n /\ write' = write /\ read + n \in 0..Limit /\ write \in (read + n)..Limit
    BY <1>2, <1>5 DEF ReadAdv
  <2> DEFINE new == UnreadBytes(data, read + n, write)
             rest == SubSeq(old, n + 1, Len(old))
  <2>2. /\ new \in Seq(Byte)
        /\ Len(new) = write - (read + n)
        /\ \A i \in 1..(write - (read + n)) : new[i] = data[read + n + i]
    BY <2>1, UnreadIsSeq
  <2>3. n + 1 \in Int /\ Len(old) \in Int /\ \A i \in n + 1 .. Len(old) : old[i] \in Byte
    BY <1>1, <1>2, ElementOfSeq
  <2>4. /\ rest \in Seq(Byte)
        /\ Len(rest) = (IF n + 1 <= Len(old) THEN Len(old) - (n + 1) + 1 ELSE 0)
        /\ \A i \in 1..(Len(old) - (n + 1) + 1) : rest[i] = old[n + 1 + i - 1]
    BY <2>3, SubSeqProperties
  <2>5. Len(rest) = Len(new)
    BY <1>1, <1>2, <1>5, <2>2, <2>4
  <2>6. \A i \in 1..Len(new) : new[i] = rest[i]
    <3> TAKE i \in 1..Len(new)
    <3>1. new[i] = data[read + n + i]
      BY <2>2
    <3>2. i \in 1..(Len(old) - (n + 1) + 1) /\ n + i \in 1..(write - read) /\ n + 1 + i - 1 = n + i
      BY <1>1, <1>2, <2>2
    <3>3. rest[i] = old[n + i]
      BY <2>4, <3>2
    <3>4. old[n + i] = data[read + (n + i)]
      BY <1>1, <3>2
    <3>5. read + (n + i) = read + n + i
      BY <1>2, <2>2
    <3> QED
      BY <3>1, <3>3, <3>4, <3>5
  <2>7. new = rest
    BY <2>2, <2>4, <2>5, <2>6, SeqEqual
  <2>8. n # Len(old)
    BY <1>1, <1>2, <1>5
  <2> QED
    BY <1>2, <1>3, <2>1, <2>7, <2>8 DEF Fifo!Take, Queue
<1> QED
  BY <1>4, <1>5

\* Compaction moves the unread bytes to the start and changes none of them.
LEMMA CompactKeeps ==
  ASSUME TypeOK, Compact
  PROVE  Queue' = Fifo!Compacted(Queue)
<1> USE BufferAssumption DEF TypeOK
<1>1. /\ read' = 0
      /\ write' = write - read
      /\ data' = [i \in 1..Limit |-> IF i <= write - read THEN data[read + i] ELSE data[i]]
  BY DEF Compact, Compacted
<1>2. \A i \in 1..(write - read) : i \in 1..Limit /\ 0 + i = i
  OBVIOUS
<1>3. \A i \in 1..(write - read) : data'[0 + i] = data[read + i]
  BY <1>1, <1>2
<1>4. write - read - 0 = write - read
  OBVIOUS
<1>5. UnreadBytes(data', 0, write - read) = UnreadBytes(data, read, write)
  BY <1>3, <1>4 DEF UnreadBytes
<1> QED
  BY <1>1, <1>5 DEF Queue, Fifo!Compacted

\* The buffer implements the queue: the bytes come out in the order they
\* went in, none lost and none repeated.
THEOREM FifoRefinedCorrect == Spec => FifoRefined
<1> USE BufferAssumption
<1>1. Init => Fifo!Init
  BY UnreadNothing DEF Init, Fifo!Init, Queue, Fifo!Empty
<1>2. TypeOK /\ [Next]_vars => [Fifo!Next]_Queue
  <2> SUFFICES ASSUME TypeOK, [Next]_vars PROVE Fifo!Next \/ UNCHANGED Queue
    OBVIOUS
  <2>1. ASSUME NEW s \in Chunk, WriteAdv(s) PROVE Fifo!Write
    <3>1. Queue' = Fifo!Put(Queue, s)
      BY <2>1, WriteAppends
    <3>2. Len(Queue.bytes) = write - read
      BY UnreadIsSeq DEF TypeOK, Queue
    <3>3. Len(s) <= Fifo!Room(Queue)
      <4>1. PICK k \in 0..Limit : s \in [1..k -> Byte]
        BY DEF Chunk
      <4>2. Len(s) = k
        BY <4>1
      <4>3. Fifo!Room(Queue) = Limit - read - (write - read)
        BY <3>2 DEF Fifo!Room, Queue
      <4> QED
        BY <2>1, <4>2, <4>3 DEF WriteAdv, WritePtr, TypeOK
    <3>4. s \in Fifo!Chunk
      BY DEF Chunk, Fifo!Chunk
    <3> QED
      BY <3>1, <3>3, <3>4 DEF Fifo!Write
  <2>2. ASSUME NEW n \in 0..Limit, ReadAdv(n) PROVE Fifo!Read
    BY <2>2, ReadTakes DEF Fifo!Read
  <2>3. ASSUME Compact PROVE Fifo!Compact
    BY <2>3, CompactKeeps DEF Fifo!Compact
  <2>4. ASSUME Reset PROVE Fifo!Reset
    <3>1. Queue' = Fifo!Empty
      BY <2>4, UnreadNothing DEF Reset, Queue, Fifo!Empty
    <3> QED
      BY <3>1 DEF Fifo!Reset
  <2>5. CASE UNCHANGED vars
    BY <2>5 DEF vars, Queue, UnreadBytes
  <2> QED
    BY <2>1, <2>2, <2>3, <2>4, <2>5 DEF Next, Fifo!Next
<1> QED
  BY <1>1, <1>2, TypeCorrect, PTL DEF Spec, FifoRefined, Fifo!Spec
=============================================================================
