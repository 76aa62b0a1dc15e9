---------------------------- MODULE Relay_proofs ----------------------------
(* Proofs about the relay, for every buffer capacity and every stream. *)
EXTENDS Relay, SequenceTheorems, TLAPS

-----------------------------------------------------------------------------
(* The operators on buffers and streams *)

\* Concatenation of streams is associative.
LEMMA Associative ==
  ASSUME NEW x \in Seq(Nat), NEW y \in Seq(Nat), NEW z \in Seq(Nat)
  PROVE  (x \o y) \o z = x \o (y \o z)
<1> DEFINE xy == x \o y
           yz == y \o z
           l == xy \o z
           r == x \o yz
<1>1. Len(x) \in Nat /\ Len(y) \in Nat /\ Len(z) \in Nat
  BY LenProperties
<1>2. /\ xy \in Seq(Nat) /\ Len(xy) = Len(x) + Len(y)
      /\ \A i \in 1..(Len(x) + Len(y)) : xy[i] = IF i <= Len(x) THEN x[i] ELSE y[i - Len(x)]
  BY ConcatProperties
<1>3. /\ yz \in Seq(Nat) /\ Len(yz) = Len(y) + Len(z)
      /\ \A i \in 1..(Len(y) + Len(z)) : yz[i] = IF i <= Len(y) THEN y[i] ELSE z[i - Len(y)]
  BY ConcatProperties
<1> HIDE DEF xy, yz
<1>4. /\ l \in Seq(Nat) /\ Len(l) = Len(xy) + Len(z)
      /\ \A i \in 1..(Len(xy) + Len(z)) : l[i] = IF i <= Len(xy) THEN xy[i] ELSE z[i - Len(xy)]
  <2>1. xy \in Seq(Nat)
    BY <1>2
  <2> QED
    BY <2>1, ConcatProperties
<1>5. /\ r \in Seq(Nat) /\ Len(r) = Len(x) + Len(yz)
      /\ \A i \in 1..(Len(x) + Len(yz)) : r[i] = IF i <= Len(x) THEN x[i] ELSE yz[i - Len(x)]
  <2>1. yz \in Seq(Nat)
    BY <1>3
  <2> QED
    BY <2>1, ConcatProperties
<1> HIDE DEF l, r
<1>6. Len(l) = Len(x) + Len(y) + Len(z) /\ Len(r) = Len(l)
  BY <1>1, <1>2, <1>3, <1>4, <1>5
<1>7. \A i \in 1..Len(l) : l[i] = r[i]
  <2> TAKE i \in 1..Len(l)
  <2>1. /\ i \in Int /\ i >= 1 /\ i <= Len(x) + Len(y) + Len(z)
        /\ i \in 1..(Len(xy) + Len(z)) /\ i \in 1..(Len(x) + Len(yz))
    BY <1>1, <1>2, <1>3, <1>6
  <2>2. /\ l[i] = IF i <= Len(x) + Len(y) THEN xy[i] ELSE z[i - (Len(x) + Len(y))]
        /\ r[i] = IF i <= Len(x) THEN x[i] ELSE yz[i - Len(x)]
    BY <1>2, <1>4, <1>5, <2>1
  <2>3. CASE i <= Len(x)
    <3>1. i \in 1..(Len(x) + Len(y)) /\ i <= Len(x) + Len(y)
      BY <1>1, <2>1, <2>3
    <3>2. xy[i] = x[i]
      BY <1>2, <2>3, <3>1
    <3> QED
      BY <2>2, <2>3, <3>1, <3>2
  <2>4. CASE ~(i <= Len(x)) /\ i <= Len(x) + Len(y)
    <3>1. /\ i \in 1..(Len(x) + Len(y))
          /\ i - Len(x) \in 1..(Len(y) + Len(z)) /\ i - Len(x) <= Len(y)
      BY <1>1, <2>1, <2>4
    <3>2. xy[i] = y[i - Len(x)]
      BY <1>2, <2>4, <3>1
    <3>3. yz[i - Len(x)] = y[i - Len(x)]
      BY <1>3, <3>1
    <3> QED
      BY <2>2, <2>4, <3>2, <3>3
  <2>5. CASE ~(i <= Len(x) + Len(y))
    <3>1. /\ i - Len(x) \in 1..(Len(y) + Len(z))
          /\ ~(i - Len(x) <= Len(y)) /\ ~(i <= Len(x))
          /\ (i - Len(x)) - Len(y) = i - (Len(x) + Len(y))
      BY <1>1, <2>1, <2>5
    <3>2. yz[i - Len(x)] = z[(i - Len(x)) - Len(y)]
      BY <1>3, <3>1
    <3> QED
      BY <2>2, <2>5, <3>1, <3>2
  <2> QED
    BY <1>1, <2>1, <2>3, <2>4, <2>5
<1> QED
  BY <1>4, <1>5, <1>6, <1>7, SeqEqual DEF l, r, xy, yz

\* What was received goes behind what was there and uses up that much room.
LEMMA PutKeeps ==
  ASSUME NEW q \in QueueType, NEW b \in Seq(Nat)
  PROVE  /\ Put(q, b) \in QueueType
         /\ Room(Put(q, b)) = Room(q) - Len(b)
         /\ Put(q, b).bytes = q.bytes \o b
<1>1. q.bytes \in Seq(Nat) /\ q.dead \in Nat
  BY DEF QueueType
<1>2. q.bytes \o b \in Seq(Nat) /\ Len(q.bytes \o b) = Len(q.bytes) + Len(b)
  BY <1>1, ConcatProperties
<1>3. Len(q.bytes) \in Nat /\ Len(b) \in Nat
  BY <1>1, LenProperties
<1> QED
  BY <1>1, <1>2, <1>3, RelayAssumption DEF Put, Room, QueueType

\* What is consumed and what remains are the two parts of what was there.
LEMMA TakeSplits ==
  ASSUME NEW q \in QueueType, NEW n \in 0..Unread(q), Room(q) >= 0
  PROVE  /\ Take(q, n) \in QueueType
         /\ Room(Take(q, n)) >= 0
         /\ Front(q, n) \in Seq(Nat)
         /\ Front(q, n) \o Take(q, n).bytes = q.bytes
<1> DEFINE b == q.bytes
<1>1. b \in Seq(Nat) /\ q.dead \in Nat /\ Len(b) \in Nat
  BY LenProperties DEF QueueType
<1>2. n \in 0..Len(b)
  BY DEF Unread
<1> HIDE DEF b
<1>3. \A i \in 1..Len(b) : b[i] \in Nat
  BY <1>1, ElementOfSeq
<1>4. 1 \in Int /\ n \in Int /\ n + 1 \in Int /\ Len(b) \in Int
  BY <1>1, <1>2
<1>5. SubSeq(b, 1, n) \in Seq(Nat)
  <2>1. \A i \in 1..n : b[i] \in Nat
    BY <1>1, <1>2, <1>3
  <2> QED
    BY <1>4, <2>1, SubSeqProperties
<1>6. /\ SubSeq(b, n + 1, Len(b)) \in Seq(Nat)
      /\ n < Len(b) => Len(SubSeq(b, n + 1, Len(b))) = Len(b) - n
  <2>1. \A i \in n + 1 .. Len(b) : b[i] \in Nat
    BY <1>1, <1>2, <1>3
  <2>2. /\ SubSeq(b, n + 1, Len(b)) \in Seq(Nat)
        /\ Len(SubSeq(b, n + 1, Len(b)))
             = IF n + 1 <= Len(b) THEN Len(b) - (n + 1) + 1 ELSE 0
    BY <1>4, <2>1, SubSeqProperties
  <2> QED
    BY <1>1, <1>2, <2>2
<1>7. SubSeq(b, 1, n) \o SubSeq(b, n + 1, Len(b)) = b
  <2>1. 1 \in 1..(Len(b) + 1) /\ n \in 1 - 1 .. Len(b) /\ Len(b) \in n..Len(b)
    BY <1>1, <1>2
  <2>2. SubSeq(b, 1, n) \o SubSeq(b, n + 1, Len(b)) = SubSeq(b, 1, Len(b))
    BY <1>1, <2>1, ConcatAdjacentSubSeq
  <2> QED
    BY <1>1, <2>2, SubSeqFull
<1>8. CASE n = Len(b)
  <2>1. Take(q, n) = [bytes |-> << >>, dead |-> 0]
    BY <1>8 DEF Take, Empty, b
  <2>2. << >> \in Seq(Nat) /\ Len(<< >>) = 0
    BY EmptySeq
  <2>3. Front(q, n) = b
    BY <1>1, <1>8, SubSeqFull DEF Front, b
  <2>4. Take(q, n) \in QueueType /\ Room(Take(q, n)) = Limit
    BY <2>1, <2>2, RelayAssumption DEF QueueType, Room
  <2>5. b \o << >> = b
    BY <1>1, ConcatEmptySeq
  <2> QED
    BY <1>1, <2>1, <2>3, <2>4, <2>5, RelayAssumption DEF b
<1>9. CASE n # Len(b)
  <2>1. Take(q, n) = [bytes |-> SubSeq(b, n + 1, Len(b)), dead |-> q.dead + n]
    BY <1>9 DEF Take, b
  <2>2. Take(q, n) \in QueueType
    BY <1>1, <1>2, <1>6, <2>1 DEF QueueType
  <2>3. n < Len(b)
    BY <1>1, <1>2, <1>9
  <2>4. Room(Take(q, n)) = Limit - (q.dead + n) - (Len(b) - n)
    BY <1>6, <2>1, <2>3 DEF Room
  <2>5. Room(q) = Limit - q.dead - Len(b)
    BY DEF Room, b
  <2>6. Room(Take(q, n)) >= 0
    BY <1>1, <1>2, <2>4, <2>5, RelayAssumption
  <2>7. Front(q, n) = SubSeq(b, 1, n) /\ Take(q, n).bytes = SubSeq(b, n + 1, Len(b))
    BY <2>1 DEF Front, b
  <2>8. Front(q, n) \in Seq(Nat) /\ Front(q, n) \o Take(q, n).bytes = b
    BY <1>5, <1>7, <2>7
  <2> QED
    BY <2>2, <2>6, <2>8 DEF b
<1> QED
  BY <1>8, <1>9

\* The stream so far and the k bytes that follow it are the longer stream.
LEMMA StreamGrows ==
  ASSUME NEW a \in Nat, NEW k \in Nat
  PROVE  /\ Interval(a, k) \in Seq(Nat) /\ Len(Interval(a, k)) = k
         /\ Upto(a) \in Seq(Nat) /\ Len(Upto(a)) = a
         /\ Upto(a) \o Interval(a, k) = Upto(a + k)
<1>1. Interval(a, k) \in Seq(Nat) /\ Len(Interval(a, k)) = k
  BY DEF Interval
<1>2. \A n \in Nat : Upto(n) \in Seq(Nat) /\ Len(Upto(n)) = n /\ \A i \in 1..n : Upto(n)[i] = i
  BY DEF Upto
<1>3. \A i \in 1..k : Interval(a, k)[i] = a + i
  BY DEF Interval
<1> DEFINE u == Upto(a)
           v == Interval(a, k)
           w == Upto(a + k)
<1>4. u \in Seq(Nat) /\ Len(u) = a /\ \A i \in 1..a : u[i] = i
  BY <1>2
<1>5. w \in Seq(Nat) /\ Len(w) = a + k /\ \A i \in 1..(a + k) : w[i] = i
  BY <1>2
<1>6. v \in Seq(Nat) /\ Len(v) = k /\ \A i \in 1..k : v[i] = a + i
  BY <1>1, <1>3
<1> HIDE DEF u, v, w
<1>7. /\ u \o v \in Seq(Nat)
      /\ Len(u \o v) = a + k
      /\ \A i \in 1..(a + k) : (u \o v)[i] = IF i <= a THEN u[i] ELSE v[i - a]
  BY <1>4, <1>6, ConcatProperties
<1>8. \A i \in 1..(a + k) : (u \o v)[i] = w[i]
  <2> TAKE i \in 1..(a + k)
  <2>1. CASE i <= a
    BY <1>4, <1>5, <1>7, <2>1
  <2>2. CASE ~(i <= a)
    <3>1. i - a \in 1..k
      BY <2>2
    <3>2. (u \o v)[i] = v[i - a] /\ w[i] = i
      BY <1>5, <1>7, <2>2
    <3>3. v[i - a] = a + (i - a)
      BY <1>6, <3>1
    <3> QED
      BY <3>2, <3>3
  <2> QED
    BY <2>1, <2>2
<1>9. u \o v = w
  BY <1>5, <1>7, <1>8, SeqEqual
<1> QED
  BY <1>1, <1>4, <1>9 DEF u, v, w

-----------------------------------------------------------------------------
(* Type correctness *)

\* The variables stay in their ranges and no buffer is ever overrun, whatever
\* recv and send return.
LEMMA TypeStep == TypeOK /\ [Next]_vars => TypeOK'
<1> SUFFICES ASSUME TypeOK, [Next]_vars PROVE TypeOK'
  OBVIOUS
<1> USE DEF TypeOK
<1>1. ASSUME NEW s \in Side, NEW k \in 1..Limit, CopyRead(s, k) PROVE TypeOK'
  <2>1. /\ Interval(got[s], k) \in Seq(Nat)
        /\ Len(Interval(got[s], k)) = k
    <3>1. got[s] \in Nat /\ k \in Nat
      BY RelayAssumption
    <3> QED
      BY <3>1, StreamGrows
  <2> DEFINE new == Put(buf[s], Interval(got[s], k))
  <2>2. new \in QueueType /\ Room(new) = Room(buf[s]) - k
    <3>1. buf[s] \in QueueType
      OBVIOUS
    <3> QED
      BY <2>1, <3>1, PutKeeps
  <2>3. k <= Room(buf[s]) /\ k <= sent[s] - got[s] /\ buf' = [buf EXCEPT ![s] = new]
    BY <1>1 DEF CopyRead
  <2>4. Room(buf[s]) \in Int
    <3>1. buf[s].bytes \in Seq(Nat) /\ buf[s].dead \in Nat
      BY DEF QueueType
    <3>2. Len(buf[s].bytes) \in Nat
      BY <3>1, LenProperties
    <3> QED
      BY <3>1, <3>2, RelayAssumption DEF Room
  <2> HIDE DEF new
  <2>5. Room(new) >= 0
    BY <2>2, <2>3, <2>4
  <2>6. buf' \in [Side -> QueueType] /\ \A t \in Side : Room(buf'[t]) >= 0
    BY <2>2, <2>3, <2>5
  <2>7. got' = [got EXCEPT ![s] = @ + k] /\ sent' = sent
    BY <1>1 DEF CopyRead
  <2>8. got' \in [Side -> Nat] /\ \A t \in Side : got'[t] <= sent'[t]
    BY <2>3, <2>7, RelayAssumption
  <2>9. interest' \in [Side -> SUBSET {"OP_READ", "OP_WRITE"}]
    BY <1>1 DEF CopyRead, Side, Other
  <2>10. UNCHANGED <<reading, writing, down, sent, end, out, state, whole>>
    BY <1>1 DEF CopyRead
  <2> QED
    BY <2>6, <2>8, <2>9, <2>10
<1>2. ASSUME NEW s \in Side, NEW k \in 1..Limit, CopyWrite(s, k) PROVE TypeOK'
  <2> DEFINE o == Other(s)
             rest == Take(buf[o], k)
             last == ~Pending(rest) /\ ~reading[o]
             w == [writing EXCEPT ![s] = @ /\ ~last]
             drained == IF Pending(rest) THEN interest
                        ELSE [interest EXCEPT ![s] = @ \ {"OP_WRITE"}]
  <2>1. o \in Side
    BY DEF Side, Other
  <2>2. /\ k <= Unread(buf[o])
        /\ buf' = [buf EXCEPT ![o] = rest]
        /\ out' = [out EXCEPT ![o] = @ \o Front(buf[o], k)]
        /\ interest' = IF reading[o] THEN [drained EXCEPT ![o] = @ \cup {"OP_READ"}]
                       ELSE drained
        /\ writing' = w
        /\ down' = [down EXCEPT ![s] = @ \/ last]
        /\ state' = CheckClose(reading, w)
        /\ UNCHANGED <<reading, sent, got, end>>
    BY <1>2 DEF CopyWrite
  <2>3. rest \in QueueType /\ Room(rest) >= 0 /\ Front(buf[o], k) \in Seq(Nat)
    <3>1. buf[o] \in QueueType /\ Room(buf[o]) >= 0
      BY <2>1
    <3>2. Unread(buf[o]) \in Nat
      BY <3>1, LenProperties DEF QueueType, Unread
    <3>3. k \in 0..Unread(buf[o])
      BY <2>2, <3>2, RelayAssumption
    <3> QED
      BY <3>1, <3>3, TakeSplits
  <2> HIDE DEF o, rest
  <2>4. buf' \in [Side -> QueueType] /\ \A t \in Side : Room(buf'[t]) >= 0
    BY <2>1, <2>2, <2>3
  <2>5. out' \in [Side -> Seq(Nat)]
    <3>1. out[o] \o Front(buf[o], k) \in Seq(Nat)
      BY <2>1, <2>3, ConcatProperties
    <3> QED
      BY <2>1, <2>2, <3>1
  <2>6. interest' \in [Side -> SUBSET {"OP_READ", "OP_WRITE"}]
    BY <2>1, <2>2
  <2>7. last \in BOOLEAN
    OBVIOUS
  <2> HIDE DEF last
  <2>8. writing' \in [Side -> BOOLEAN] /\ down' \in [Side -> BOOLEAN]
    BY <2>2, <2>7
  <2>9. state' \in {"COPY", "DONE", "ERROR"}
    BY <2>2 DEF CheckClose
  <2>10. whole' \in BOOLEAN
    BY <1>2 DEF CopyWrite
  <2> QED
    BY <2>2, <2>4, <2>5, <2>6, <2>8, <2>9, <2>10
<1>3. ASSUME NEW s \in Side, CopyEof(s) PROVE TypeOK'
  <2> DEFINE last == ~Pending(buf[s])
  <2>1. Other(s) \in Side
    BY DEF Side, Other
  <2>2. last \in BOOLEAN
    OBVIOUS
  <2>3. CASE last /\ end[Other(s)] = "reset"
    BY <1>3, <2>3 DEF CopyEof
  <2>4. CASE ~(last /\ end[Other(s)] = "reset")
    <3> DEFINE w == [writing EXCEPT ![s] = FALSE, ![Other(s)] = @ /\ ~last]
    <3>1. /\ interest' = [interest EXCEPT ![s] = @ \ {"OP_READ"}]
          /\ reading' = Always(FALSE)
          /\ writing' = w
          /\ down' = [down EXCEPT ![Other(s)] = @ \/ last]
          /\ state' = CheckClose(Always(FALSE), w)
          /\ UNCHANGED <<buf, sent, got, end, out, whole>>
      BY <1>3, <2>4 DEF CopyEof
    <3> HIDE DEF last
    <3>2. writing' \in [Side -> BOOLEAN] /\ down' \in [Side -> BOOLEAN]
      BY <2>1, <2>2, <3>1
    <3>3. state' \in {"COPY", "DONE", "ERROR"}
      BY <3>1 DEF CheckClose
    <3>4. reading' \in [Side -> BOOLEAN]
      BY <3>1 DEF Always
    <3>5. interest' \in [Side -> SUBSET {"OP_READ", "OP_WRITE"}]
      BY <3>1
    <3> QED
      BY <3>1, <3>2, <3>3, <3>4, <3>5
  <2> QED
    BY <2>3, <2>4
<1>4. ASSUME NEW s \in Side, CopyWriteFails(s) \/ CopyWriteKills(s) PROVE TypeOK'
  BY <1>4 DEF CopyWriteFails, CopyWriteKills
<1>5. ASSUME NEW s \in Side, SideSends(s) PROVE TypeOK'
  BY <1>5 DEF SideSends
<1>6. ASSUME NEW s \in Side, NEW how \in {"closed", "reset"}, SideEnds(s, how) PROVE TypeOK'
  BY <1>6 DEF SideEnds
<1>7. CASE UNCHANGED vars
  BY <1>7 DEF vars
<1> QED
  BY <1>1, <1>2, <1>3, <1>4, <1>5, <1>6, <1>7 DEF Next, Callback, Idle

LEMMA TypeInit == Init => TypeOK
<1> SUFFICES ASSUME Init PROVE TypeOK
  OBVIOUS
<1>1. << >> \in Seq(Nat) /\ Len(<< >>) = 0
  BY EmptySeq
<1>2. Empty \in QueueType /\ Room(Empty) = Limit
  BY <1>1, RelayAssumption DEF Empty, QueueType, Room
<1> QED
  BY <1>1, <1>2, RelayAssumption DEF Init, Always, TypeOK

\* No buffer is overrun and every variable keeps its range.
THEOREM TypeCorrect == Spec => []TypeOK
BY TypeInit, TypeStep, PTL DEF Spec

-----------------------------------------------------------------------------
(* The order of the bytes *)

\* A step of the relay keeps the stream whole: recv appends at its end, send
\* moves bytes across the border between what is out and what is buffered.
LEMMA InOrderStep == TypeOK /\ InOrder /\ [Next]_vars => InOrder'
<1> SUFFICES ASSUME TypeOK, InOrder, [Next]_vars PROVE InOrder'
  OBVIOUS
<1>0. \A s \in Side :
        /\ buf[s] \in QueueType /\ Room(buf[s]) >= 0
        /\ buf[s].bytes \in Seq(Nat) /\ out[s] \in Seq(Nat) /\ got[s] \in Nat
        /\ out[s] \o buf[s].bytes = Upto(got[s])
  BY DEF TypeOK, InOrder, QueueType
<1>1. ASSUME NEW s \in Side, NEW k \in 1..Limit, CopyRead(s, k) PROVE InOrder'
  <2> DEFINE more == Interval(got[s], k)
             b == buf[s].bytes
  <2>1. k \in Nat
    BY RelayAssumption
  <2>2. more \in Seq(Nat) /\ Upto(got[s]) \o more = Upto(got[s] + k)
    BY <1>0, <2>1, StreamGrows
  <2>3. /\ buf' = [buf EXCEPT ![s] = Put(@, more)]
        /\ got' = [got EXCEPT ![s] = @ + k]
        /\ out' = out
    BY <1>1 DEF CopyRead
  <2> HIDE DEF more
  <2>4. Put(buf[s], more).bytes = b \o more
    BY <1>0, <2>2, PutKeeps
  <2>5. out[s] \o (b \o more) = (out[s] \o b) \o more
    <3>1. out[s] \in Seq(Nat) /\ b \in Seq(Nat) /\ more \in Seq(Nat)
      BY <1>0, <2>2
    <3> HIDE DEF b
    <3> QED
      BY <3>1, Associative
  <2>6. out[s] \o Put(buf[s], more).bytes = Upto(got[s] + k)
    BY <1>0, <2>2, <2>4, <2>5
  <2>7. buf'[s] = Put(buf[s], more) /\ got'[s] = got[s] + k
    BY <2>3 DEF TypeOK
  <2>8. \A t \in Side \ {s} : buf'[t] = buf[t] /\ got'[t] = got[t]
    BY <2>3 DEF TypeOK
  <2>9. \A t \in Side : out'[t] \o buf'[t].bytes = Upto(got'[t])
    BY <1>0, <2>3, <2>6, <2>7, <2>8
  <2> QED
    BY <2>9 DEF InOrder
<1>2. ASSUME NEW s \in Side, NEW k \in 1..Limit, CopyWrite(s, k) PROVE InOrder'
  <2> DEFINE o == Other(s)
             rest == Take(buf[o], k)
             front == Front(buf[o], k)
  <2>1. o \in Side
    BY DEF Side, Other
  <2>2. /\ k <= Unread(buf[o])
        /\ buf' = [buf EXCEPT ![o] = rest]
        /\ out' = [out EXCEPT ![o] = @ \o front]
        /\ got' = got
    BY <1>2 DEF CopyWrite
  <2>3. /\ rest \in QueueType
        /\ front \in Seq(Nat) /\ front \o rest.bytes = buf[o].bytes
    <3>1. Unread(buf[o]) \in Nat
      BY <1>0, <2>1, LenProperties DEF Unread
    <3>2. k \in 0..Unread(buf[o])
      BY <2>2, <3>1, RelayAssumption
    <3> QED
      BY <1>0, <2>1, <3>2, TakeSplits
  <2> HIDE DEF o, rest, front
  <2>4. rest.bytes \in Seq(Nat)
    BY <2>3 DEF QueueType
  <2>5. (out[o] \o front) \o rest.bytes = out[o] \o (front \o rest.bytes)
    <3>1. out[o] \in Seq(Nat) /\ front \in Seq(Nat) /\ rest.bytes \in Seq(Nat)
      BY <1>0, <2>1, <2>3, <2>4
    <3> QED
      BY <3>1, Associative
  <2>6. (out[o] \o front) \o rest.bytes = Upto(got[o])
    BY <1>0, <2>1, <2>3, <2>5
  <2>7. buf'[o] = rest /\ out'[o] = out[o] \o front
    BY <2>1, <2>2 DEF TypeOK
  <2>8. \A t \in Side \ {o} : buf'[t] = buf[t] /\ out'[t] = out[t]
    BY <2>2 DEF TypeOK
  <2>9. \A t \in Side : out'[t] \o buf'[t].bytes = Upto(got'[t])
    BY <1>0, <2>2, <2>6, <2>7, <2>8
  <2> QED
    BY <2>9 DEF InOrder
<1>3. CASE UNCHANGED <<buf, out, got>>
  BY <1>3 DEF InOrder
<1>4. ASSUME NEW s \in Side,
             \/ CopyEof(s) \/ CopyWriteFails(s) \/ CopyWriteKills(s) \/ SideSends(s)
             \/ \E how \in {"closed", "reset"} : SideEnds(s, how)
      PROVE  UNCHANGED <<buf, out, got>>
  BY <1>4 DEF CopyEof, CopyWriteFails, CopyWriteKills, SideSends, SideEnds
<1>5. UNCHANGED vars => UNCHANGED <<buf, out, got>>
  BY DEF vars
<1> QED
  BY <1>1, <1>2, <1>3, <1>4, <1>5 DEF Next, Callback, Idle

LEMMA InOrderInit == Init => InOrder
<1> SUFFICES ASSUME Init PROVE InOrder
  OBVIOUS
<1>1. Upto(0) = << >>
  <2>1. Upto(0) \in Seq(Nat) /\ Len(Upto(0)) = 0
    BY StreamGrows
  <2> QED
    BY <2>1, EmptySeq, SeqEqual
<1>2. << >> \o << >> = << >>
  BY EmptySeq, ConcatEmptySeq
<1> QED
  BY <1>1, <1>2 DEF Init, InOrder, Always, Empty

\* What a side receives is a prefix of what the other one sent, for every
\* capacity, every stream and every way recv and send cut it.
THEOREM InOrderCorrect == Spec => []InOrder
BY TypeInit, TypeStep, InOrderInit, InOrderStep, PTL DEF Spec

-----------------------------------------------------------------------------
(* The interest in writing *)

\* copy_read and copy_write keep OP_WRITE of a side equivalent to the presence
\* of bytes for it, with partial sends too.
THEOREM WriteInterestExactCorrect == Spec => []WriteInterestExact
<1>1. Init => WriteInterestExact
  BY DEF Init, WriteInterestExact, Always, Empty, Pending, Side, Other
<1>2. TypeOK /\ WriteInterestExact /\ [Next]_vars => WriteInterestExact'
  <2> SUFFICES ASSUME TypeOK, WriteInterestExact, [Next]_vars, state' = "COPY"
               PROVE  \A s \in Side : "OP_WRITE" \in interest'[s] <=> Pending(buf[Other(s)])'
    BY DEF WriteInterestExact
  <2>0. /\ buf \in [Side -> QueueType]
        /\ interest \in [Side -> SUBSET {"OP_READ", "OP_WRITE"}]
        /\ \A s \in Side : Other(s) \in Side /\ Other(s) # s /\ Other(Other(s)) = s
        /\ \A s, t \in Side : t # s => t = Other(s)
    BY DEF TypeOK, Side, Other
  <2>1. ASSUME NEW s \in Side, NEW k \in 1..Limit, CopyRead(s, k)
        PROVE  \A t \in Side : "OP_WRITE" \in interest'[t] <=> Pending(buf[Other(t)])'
    <3>1. /\ state = "COPY"
          /\ buf' = [buf EXCEPT ![s] = Put(@, Interval(got[s], k))]
          /\ interest' = [interest EXCEPT ![s] = @ \ {"OP_READ"},
                                          ![Other(s)] = @ \cup {"OP_WRITE"}]
      BY <2>1 DEF CopyRead, Reads
    <3>2. Pending(buf'[s])
      <4>1. got[s] \in Nat /\ k \in Nat /\ k > 0
        BY RelayAssumption DEF TypeOK
      <4>2. Interval(got[s], k) \in Seq(Nat) /\ Len(Interval(got[s], k)) = k
        BY <4>1, StreamGrows
      <4>3. buf[s] \in QueueType /\ buf[s].bytes \in Seq(Nat)
        BY <2>0 DEF QueueType
      <4>4. Put(buf[s], Interval(got[s], k)).bytes = buf[s].bytes \o Interval(got[s], k)
        BY <4>2, <4>3, PutKeeps
      <4>5. Interval(got[s], k) # << >>
        BY <4>1, <4>2
      <4>6. buf[s].bytes \o Interval(got[s], k) # << >>
        BY <4>2, <4>3, <4>5, ConcatEqualIffEmpty
      <4>7. buf'[s] = Put(buf[s], Interval(got[s], k))
        BY <2>0, <3>1
      <4> QED
        BY <4>4, <4>6, <4>7 DEF Pending
    <3>3. "OP_WRITE" \in interest'[Other(s)]
      BY <2>0, <3>1
    <3>4. "OP_WRITE" \in interest'[s] <=> "OP_WRITE" \in interest[s]
      BY <2>0, <3>1
    <3>5. buf'[Other(s)] = buf[Other(s)]
      BY <2>0, <3>1
    <3>6. "OP_WRITE" \in interest[s] <=> Pending(buf[Other(s)])
      BY <3>1 DEF WriteInterestExact
    <3>7. "OP_WRITE" \in interest'[s] <=> Pending(buf'[Other(s)])
      BY <3>4, <3>5, <3>6 DEF Pending
    <3>8. \A t \in Side : "OP_WRITE" \in interest'[t] <=> Pending(buf'[Other(t)])
      BY <2>0, <3>2, <3>3, <3>7
    <3> QED
      BY <3>8 DEF Other
  <2>2. ASSUME NEW s \in Side, NEW k \in 1..Limit, CopyWrite(s, k)
        PROVE  \A t \in Side : "OP_WRITE" \in interest'[t] <=> Pending(buf[Other(t)])'
    <3> DEFINE o == Other(s)
               rest == Take(buf[o], k)
               drained == IF Pending(rest) THEN interest
                          ELSE [interest EXCEPT ![s] = @ \ {"OP_WRITE"}]
    <3>1. /\ state = "COPY" /\ "OP_WRITE" \in interest[s]
          /\ buf' = [buf EXCEPT ![o] = rest]
          /\ interest' = IF reading[o] THEN [drained EXCEPT ![o] = @ \cup {"OP_READ"}]
                         ELSE drained
      BY <2>2 DEF CopyWrite, Writes
    <3> HIDE DEF rest
    <3>2. "OP_WRITE" \in interest'[s] <=> Pending(rest)
      BY <2>0, <3>1
    <3>3. "OP_WRITE" \in interest'[o] <=> "OP_WRITE" \in interest[o]
      BY <2>0, <3>1
    <3>4. buf'[o] = rest /\ buf'[s] = buf[s]
      BY <2>0, <3>1
    <3>5. "OP_WRITE" \in interest[o] <=> Pending(buf[s])
      BY <2>0, <3>1 DEF WriteInterestExact
    <3>6. \A t \in Side : "OP_WRITE" \in interest'[t] <=> Pending(buf'[Other(t)])
      BY <2>0, <3>2, <3>3, <3>4, <3>5
    <3> QED
      BY <3>6 DEF Other
  <2>3. ASSUME NEW s \in Side, CopyEof(s)
        PROVE  \A t \in Side : "OP_WRITE" \in interest'[t] <=> Pending(buf[Other(t)])'
    <3>1. /\ state = "COPY" /\ buf' = buf
          /\ interest' = [interest EXCEPT ![s] = @ \ {"OP_READ"}]
      BY <2>3 DEF CopyEof, Reads
    <3>2. \A t \in Side : "OP_WRITE" \in interest'[t] <=> "OP_WRITE" \in interest[t]
      BY <2>0, <3>1
    <3>3. \A t \in Side : "OP_WRITE" \in interest'[t] <=> Pending(buf'[Other(t)])
      BY <3>1, <3>2 DEF WriteInterestExact
    <3> QED
      BY <3>3 DEF Other
  <2>4. ASSUME NEW s \in Side, CopyWriteFails(s) \/ CopyWriteKills(s) PROVE FALSE
    BY <2>4 DEF CopyWriteFails, CopyWriteKills
  <2>5. CASE UNCHANGED <<buf, interest, state>>
    BY <2>5 DEF WriteInterestExact, Pending, Other
  <2>6. ASSUME NEW s \in Side,
               SideSends(s) \/ \E how \in {"closed", "reset"} : SideEnds(s, how)
        PROVE  UNCHANGED <<buf, interest, state>>
    BY <2>6 DEF SideSends, SideEnds
  <2>7. UNCHANGED vars => UNCHANGED <<buf, interest, state>>
    BY DEF vars
  <2> QED
    BY <2>1, <2>2, <2>3, <2>4, <2>5, <2>6, <2>7 DEF Next, Callback, Idle
<1> QED
  BY <1>1, <1>2, TypeInit, TypeStep, PTL DEF Spec

-----------------------------------------------------------------------------
(* When send always takes the whole buffer *)

\* Then a side is read only while its buffer is empty, so that the end of a
\* stream is seen with nothing left to forward and ends the connection at once.
WholeSends ==
  whole /\ state = "COPY" => \A s \in Side :
    reading[s] /\ ("OP_READ" \in interest[s] => ~Pending(buf[s]) /\ Room(buf[s]) = Limit)

LEMMA WholeSendsInit == Init => WholeSends
<1> SUFFICES ASSUME Init PROVE WholeSends
  OBVIOUS
<1>1. Len(<< >>) = 0
  BY EmptySeq
<1> QED
  BY <1>1, RelayAssumption DEF Init, WholeSends, Always, Empty, Pending, Room

\* The last buffer is emptied by each send, and the first callback that finds
\* the end of a stream leaves no flag up.
LEMMA WholeSendsStep ==
  ASSUME TypeOK, WholeSends, [Next]_vars
  PROVE  WholeSends'
<1> USE DEF WholeSends
<1> SUFFICES ASSUME whole', state' = "COPY", NEW t \in Side
             PROVE  /\ reading'[t]
                    /\ "OP_READ" \in interest'[t] => ~Pending(buf[t])' /\ Room(buf[t])' = Limit
  OBVIOUS
<1>0. /\ buf \in [Side -> QueueType]
      /\ interest \in [Side -> SUBSET {"OP_READ", "OP_WRITE"}]
      /\ reading \in [Side -> BOOLEAN] /\ writing \in [Side -> BOOLEAN]
      /\ \A s \in Side : Other(s) \in Side /\ Other(s) # s
      /\ \A s, u \in Side : u = s \/ u = Other(s)
  BY DEF TypeOK, Side, Other
<1>1. ASSUME NEW s \in Side, NEW k \in 1..Limit, CopyRead(s, k)
      PROVE  /\ reading'[t]
             /\ "OP_READ" \in interest'[t] => ~Pending(buf[t])' /\ Room(buf[t])' = Limit
  <2>1. /\ state = "COPY" /\ reading' = reading /\ whole
        /\ buf' = [buf EXCEPT ![s] = Put(@, Interval(got[s], k))]
        /\ interest' = [interest EXCEPT ![s] = @ \ {"OP_READ"},
                                        ![Other(s)] = @ \cup {"OP_WRITE"}]
    BY <1>1 DEF CopyRead, Reads
  <2>2. CASE t = s
    BY <1>0, <2>1, <2>2
  <2>3. CASE t # s
    <3>1. buf'[t] = buf[t] /\ ("OP_READ" \in interest'[t] <=> "OP_READ" \in interest[t])
      BY <1>0, <2>1, <2>3
    <3> QED
      BY <2>1, <3>1 DEF Pending, Room
  <2> QED
    BY <2>2, <2>3
<1>2. ASSUME NEW s \in Side, NEW k \in 1..Limit, CopyWrite(s, k)
      PROVE  /\ reading'[t]
             /\ "OP_READ" \in interest'[t] => ~Pending(buf[t])' /\ Room(buf[t])' = Limit
  <2> DEFINE o == Other(s)
             drained == IF Pending(Take(buf[o], k)) THEN interest
                        ELSE [interest EXCEPT ![s] = @ \ {"OP_WRITE"}]
  <2>1. /\ state = "COPY" /\ reading' = reading /\ whole
        /\ k = Unread(buf[o])
        /\ buf' = [buf EXCEPT ![o] = Take(buf[o], k)]
        /\ interest' = IF reading[o] THEN [drained EXCEPT ![o] = @ \cup {"OP_READ"}]
                       ELSE drained
    BY <1>2 DEF CopyWrite, Writes
  <2>2. Take(buf[o], k) = Empty
    BY <2>1 DEF Take, Unread
  <2>3. ~Pending(Empty) /\ Room(Empty) = Limit
    <3>1. Len(<< >>) = 0
      BY EmptySeq
    <3> QED
      BY <3>1, RelayAssumption DEF Empty, Pending, Room
  <2>4. CASE t = o
    <3>1. buf'[t] = Empty
      BY <1>0, <2>1, <2>2, <2>4
    <3> QED
      BY <2>1, <2>3, <3>1 DEF Pending, Room
  <2>5. CASE t # o
    <3>1. buf'[t] = buf[t] /\ ("OP_READ" \in interest'[t] => "OP_READ" \in interest[t])
      BY <1>0, <2>1, <2>5
    <3> QED
      BY <2>1, <3>1 DEF Pending, Room
  <2> QED
    BY <2>4, <2>5
<1>3. ASSUME NEW s \in Side, CopyEof(s) PROVE FALSE
  <2>1. state = "COPY" /\ "OP_READ" \in interest[s] /\ whole
    BY <1>3 DEF CopyEof, Reads
  <2>2. ~Pending(buf[s])
    BY <2>1
  <2> DEFINE w == [writing EXCEPT ![s] = FALSE, ![Other(s)] = @ /\ ~(~Pending(buf[s]))]
  <2>3. state' = CheckClose(Always(FALSE), w)
    BY <1>3, <2>2 DEF CopyEof
  <2>4. \A u \in Side : ~w[u] /\ ~Always(FALSE)[u]
    BY <1>0, <2>2 DEF Always
  <2> QED
    BY <2>3, <2>4 DEF CheckClose
<1>4. ASSUME NEW s \in Side, CopyWriteFails(s) \/ CopyWriteKills(s) PROVE FALSE
  BY <1>4 DEF CopyWriteFails, CopyWriteKills
<1>5. CASE UNCHANGED <<buf, interest, reading, state, whole>>
  BY <1>5 DEF Pending, Room
<1>6. ASSUME NEW s \in Side,
             SideSends(s) \/ \E how \in {"closed", "reset"} : SideEnds(s, how)
      PROVE  UNCHANGED <<buf, interest, reading, state, whole>>
  BY <1>6 DEF SideSends, SideEnds
<1>7. UNCHANGED vars => UNCHANGED <<buf, interest, reading, state, whole>>
  BY DEF vars
<1> QED
  BY <1>1, <1>2, <1>3, <1>4, <1>5, <1>6, <1>7 DEF Next, Callback, Idle

\* While send takes all it is given, recv is never called with a length of 0.
THEOREM NeverReadsIntoFullCorrect ==
  Spec => []NeverReadsIntoFull
<1>1. WholeSends => NeverReadsIntoFull
  BY RelayAssumption DEF WholeSends, NeverReadsIntoFull
<1>2. TypeOK /\ WholeSends /\ [Next]_vars => WholeSends'
  BY WholeSendsStep
<1> QED
  BY <1>1, <1>2, TypeInit, TypeStep, WholeSendsInit, PTL DEF Spec

\* While send takes all it is given, a connection is closed in order only once
\* the side that ended its stream has got all of it across.
THEOREM OrderlyEndCorrect ==
  Spec => []OrderlyEnd
<1>1. Init => OrderlyEnd
  BY DEF Init, OrderlyEnd
<1>2. TypeOK /\ InOrder /\ WholeSends /\ OrderlyEnd /\ [Next]_vars => OrderlyEnd'
  <2> SUFFICES ASSUME TypeOK, InOrder, WholeSends, OrderlyEnd, [Next]_vars, whole', state' = "DONE"
               PROVE  OrderlyEnd'
    BY DEF OrderlyEnd
  <2>1. ASSUME NEW s \in Side, CopyEof(s) PROVE OrderlyEnd'
    <3>1. /\ state = "COPY" /\ whole /\ "OP_READ" \in interest[s] /\ NoData(s)
          /\ UNCHANGED <<buf, sent, got, end, out>>
      BY <2>1 DEF CopyEof, Reads
    <3>2. Room(buf[s]) = Limit /\ ~Pending(buf[s])
      BY <3>1 DEF WholeSends
    <3>3. end[s] = "reset" \/ (end[s] = "closed" /\ sent[s] = got[s])
      BY <3>1, <3>2, RelayAssumption DEF NoData
    <3>4. out[s] = Upto(got[s])
      <4>1. out[s] \in Seq(Nat) /\ out[s] \o buf[s].bytes = Upto(got[s])
        BY DEF TypeOK, InOrder
      <4>2. buf[s].bytes = << >>
        BY <3>2 DEF Pending
      <4> QED
        BY <4>1, <4>2, ConcatEmptySeq
    <3> QED
      BY <3>1, <3>3, <3>4 DEF OrderlyEnd, Upto
  <2>2. ASSUME NEW s \in Side, NEW k \in 1..Limit, CopyWrite(s, k) PROVE FALSE
    <3>1. state = "COPY" /\ whole /\ state' = CheckClose(reading, writing')
      BY <2>2 DEF CopyWrite, Writes
    <3>2. reading[s]
      BY <3>1 DEF WholeSends
    <3> QED
      BY <3>1, <3>2 DEF CheckClose
  <2>3. ASSUME NEW s \in Side, NEW k \in 1..Limit, CopyRead(s, k) PROVE FALSE
    BY <2>3 DEF CopyRead, Reads
  <2>4. ASSUME NEW s \in Side, CopyWriteFails(s) \/ CopyWriteKills(s) PROVE FALSE
    BY <2>4 DEF CopyWriteFails, CopyWriteKills
  <2>5. ASSUME NEW s \in Side,
               SideSends(s) \/ \E how \in {"closed", "reset"} : SideEnds(s, how)
        PROVE  FALSE
    BY <2>5 DEF SideSends, SideEnds
  <2>6. CASE UNCHANGED vars
    BY <2>6 DEF vars, OrderlyEnd, Upto
  <2> QED
    BY <2>1, <2>2, <2>3, <2>4, <2>5, <2>6 DEF Next, Callback, Idle
<1>3. TypeOK /\ WholeSends /\ [Next]_vars => WholeSends'
  BY WholeSendsStep
<1> QED
  BY <1>1, <1>2, <1>3, TypeInit, TypeStep, InOrderInit, InOrderStep, WholeSendsInit, PTL
  DEF Spec
=============================================================================
