-------------------------------- MODULE Relay --------------------------------
(***************************************************************************)
(* src/src/copy_stm.c: the COPY state of one connection, byte by byte.     *)
(* Each side of the proxy sends a stream of numbered bytes; what is read   *)
(* from a side goes into its buffer and from there to the other side.  The *)
(* buffers are the queues of Fifo, which ByteBuffer implements.  pselect   *)
(* being level triggered, a callback runs when its descriptor is of        *)
(* interest and the kernel has something for it.                           *)
(***************************************************************************)
EXTENDS Fifo

CONSTANT MaxBytes      \* bytes a side sends, at most

ASSUME RelayAssumption == Limit \in Nat \ {0} /\ MaxBytes \in Nat

Side == {"client", "origin"}
Other(s) == IF s = "client" THEN "origin" ELSE "client"

VARIABLES
  buf,        \* buf["client"] is write_buffer, buf["origin"] is read_buffer
  interest,   \* of client_fd and of origin_fd
  reading,    \* reading_client, reading_origin
  writing,    \* writing_client, writing_origin
  down,       \* shutdown(fd, SHUT_WR) was called on the socket of the side
  sent,       \* bytes each side has put on the wire
  got,        \* those the proxy has received
  end,        \* the side's own stream: "open", "closed" or "reset"
  out,        \* the bytes of each side that were sent on to the other one
  state,      \* COPY, how the connection was ended, or "killed": the process
  whole       \* history: every send so far has taken all it was given
vars == <<buf, interest, reading, writing, down, sent, got, end, out, state, whole>>

Always(v) == [s \in Side |-> v]

\* copy_init, and the interest request_write leaves
Init ==
  /\ buf = Always(Empty)
  /\ interest = Always({"OP_READ"})
  /\ reading = Always(TRUE) /\ writing = Always(TRUE)
  /\ down = Always(FALSE)
  /\ sent = Always(0) /\ got = Always(0)
  /\ end = Always("open")
  /\ out = Always(<< >>)
  /\ state = "COPY"
  /\ whole = TRUE

Upto(n) == [i \in 1..n |-> i]
Interval(a, n) == [i \in 1..n |-> a + i]     \* the n bytes that follow a

Reads(s) == state = "COPY" /\ "OP_READ" \in interest[s]
Writes(s) == state = "COPY" /\ "OP_WRITE" \in interest[s]

\* check_close_connection
CheckClose(r, w) ==
  IF \A s \in Side : ~r[s] /\ ~w[s] THEN "DONE" ELSE "COPY"

\* Mutants: the whole room is taken for received (nbytes, not ret); the other
\* side is not woken up; the side keeps its OP_READ.
CopyReadWhole(s, k) ==
  /\ Reads(s) /\ sent[s] > got[s] /\ k = Room(buf[s])
  /\ buf' = [buf EXCEPT ![s] = Put(@, Interval(got[s], k))]
  /\ got' = [got EXCEPT ![s] = @ + k]
  /\ interest' = [interest EXCEPT ![s] = @ \ {"OP_READ"}, ![Other(s)] = @ \cup {"OP_WRITE"}]
  /\ UNCHANGED <<reading, writing, down, sent, end, out, state, whole>>

CopyReadSilent(s, k) ==
  /\ Reads(s) /\ end[s] # "reset"
  /\ k <= Room(buf[s]) /\ k <= sent[s] - got[s]
  /\ buf' = [buf EXCEPT ![s] = Put(@, Interval(got[s], k))]
  /\ got' = [got EXCEPT ![s] = @ + k]
  /\ interest' = [interest EXCEPT ![s] = @ \ {"OP_READ"}]
  /\ UNCHANGED <<reading, writing, down, sent, end, out, state, whole>>

CopyReadAgain(s, k) ==
  /\ Reads(s) /\ end[s] # "reset"
  /\ k <= Room(buf[s]) /\ k <= sent[s] - got[s]
  /\ buf' = [buf EXCEPT ![s] = Put(@, Interval(got[s], k))]
  /\ got' = [got EXCEPT ![s] = @ + k]
  /\ interest' = [interest EXCEPT ![Other(s)] = @ \cup {"OP_WRITE"}]
  /\ UNCHANGED <<reading, writing, down, sent, end, out, state, whole>>

\* recv returned k bytes: the side is not read again until they are sent.
CopyRead(s, k) ==
  /\ Reads(s) /\ end[s] # "reset"
  /\ k <= Room(buf[s]) /\ k <= sent[s] - got[s]
  /\ buf' = [buf EXCEPT ![s] = Put(@, Interval(got[s], k))]
  /\ got' = [got EXCEPT ![s] = @ + k]
  /\ interest' = [interest EXCEPT ![s] = @ \ {"OP_READ"}, ![Other(s)] = @ \cup {"OP_WRITE"}]
  /\ UNCHANGED <<reading, writing, down, sent, end, out, state, whole>>

\* Mutant: EAGAIN is taken for the end of the stream.
NoDataYet(s) == end[s] = "reset" \/ sent[s] = got[s]

\* recv returns 0, for the end of the stream or for want of room, or the error
\* ECONNRESET.
NoData(s) ==
  \/ end[s] = "reset"
  \/ end[s] = "closed" /\ sent[s] = got[s]
  \/ Room(buf[s]) = 0 /\ (end[s] = "closed" \/ sent[s] > got[s])

\* Mutant: it is left to copy_write to shut the other side down.
CopyEofLeavesOpen(s) ==
  /\ Reads(s) /\ NoData(s)
  /\ interest' = [interest EXCEPT ![s] = @ \ {"OP_READ"}]
  /\ reading' = Always(FALSE)
  /\ writing' = [writing EXCEPT ![s] = FALSE]
  /\ state' = CheckClose(reading', writing')
  /\ UNCHANGED <<buf, down, sent, got, end, out, whole>>

\* Three flags fall, and the fourth one if nothing is left for the other side,
\* whose socket is then shut down (which fails if it was reset).
CopyEof(s) ==
  /\ Reads(s) /\ NoData(s)
  /\ LET o == Other(s)
         last == ~Pending(buf[s])
         w == [writing EXCEPT ![s] = FALSE, ![o] = @ /\ ~last]
     IN IF last /\ end[o] = "reset"
        THEN state' = "ERROR" /\ UNCHANGED <<interest, reading, writing, down>>
        ELSE /\ interest' = [interest EXCEPT ![s] = @ \ {"OP_READ"}]
             /\ reading' = Always(FALSE)
             /\ writing' = w
             /\ down' = [down EXCEPT ![o] = @ \/ last]
             /\ state' = CheckClose(Always(FALSE), w)
  /\ UNCHANGED <<buf, sent, got, end, out, whole>>

\* send to s took k bytes of what came from the other side o.
CopyWrite(s, k) ==
  LET o == Other(s)
      rest == Take(buf[o], k)
      last == ~Pending(rest) /\ ~reading[o]
      w == [writing EXCEPT ![s] = @ /\ ~last]
      drained == IF Pending(rest) THEN interest ELSE [interest EXCEPT ![s] = @ \ {"OP_WRITE"}]
  IN /\ Writes(s) /\ end[s] # "reset" /\ ~down[s]
     /\ k <= Unread(buf[o])
     /\ whole' = (whole /\ k = Unread(buf[o]))
     /\ buf' = [buf EXCEPT ![o] = rest]
     /\ out' = [out EXCEPT ![o] = @ \o Front(buf[o], k)]
     /\ interest' = IF reading[o] THEN [drained EXCEPT ![o] = @ \cup {"OP_READ"}] ELSE drained
     /\ writing' = w
     /\ down' = [down EXCEPT ![s] = @ \/ last]
     /\ state' = CheckClose(reading, w)
     /\ UNCHANGED <<reading, sent, got, end>>

\* send fails (ECONNRESET) or sends nothing.
CopyWriteFails(s) ==
  /\ Writes(s) /\ (end[s] = "reset" \/ (~down[s] /\ ~Pending(buf[Other(s)])))
  /\ state' = "ERROR"
  /\ UNCHANGED <<buf, interest, reading, writing, down, sent, got, end, out, whole>>

\* send fails with EPIPE, on a socket that the proxy itself has shut down or
\* that the side has reset.  Its flags are 0 and main.c handles SIGTERM and
\* SIGINT only: SIGPIPE ends the process, with every tunnel in it.
CopyWriteKills(s) ==
  /\ Writes(s) /\ (end[s] = "reset" \/ down[s])
  /\ state' = "killed"
  /\ UNCHANGED <<buf, interest, reading, writing, down, sent, got, end, out, whole>>

-----------------------------------------------------------------------------
(* The client and the origin server *)

SideSends(s) ==
  /\ state = "COPY" /\ end[s] = "open" /\ sent[s] < MaxBytes
  /\ sent' = [sent EXCEPT ![s] = @ + 1]
  /\ UNCHANGED <<buf, interest, reading, writing, down, got, end, out, state, whole>>

SideEnds(s, how) ==
  /\ state = "COPY" /\ end[s] # "reset" /\ how # end[s]
  /\ end' = [end EXCEPT ![s] = how]
  /\ UNCHANGED <<buf, interest, reading, writing, down, sent, got, out, state, whole>>

\* pselect times out, or serves other connections.
Idle == UNCHANGED vars

Callback(s) ==
  \/ \E k \in 1..Limit : CopyRead(s, k) \/ CopyWrite(s, k)
  \/ CopyEof(s) \/ CopyWriteFails(s) \/ CopyWriteKills(s)

Next ==
  \/ Idle
  \/ \E s \in Side :
       \/ Callback(s)
       \/ SideSends(s)
       \/ \E how \in {"closed", "reset"} : SideEnds(s, how)

Spec == Init /\ [][Next]_vars

\* Every iteration of the selector serves each descriptor that is of interest
\* and ready, and both sides keep reading what they are sent.
ReadFairly(s) == (\E k \in 1..Limit : CopyRead(s, k)) \/ CopyEof(s)
WriteFairly(s) ==
  (\E k \in 1..Limit : CopyWrite(s, k)) \/ CopyWriteFails(s) \/ CopyWriteKills(s)
FairSpec == Spec /\ \A s \in Side : WF_vars(ReadFairly(s)) /\ WF_vars(WriteFairly(s))

-----------------------------------------------------------------------------
(* Properties *)

QueueType == [bytes : Seq(Nat), dead : Nat]

\* The ranges of the variables; what a buffer holds fits in it.
TypeOK ==
  /\ buf \in [Side -> QueueType] /\ \A s \in Side : Room(buf[s]) >= 0
  /\ interest \in [Side -> SUBSET {"OP_READ", "OP_WRITE"}]
  /\ reading \in [Side -> BOOLEAN] /\ writing \in [Side -> BOOLEAN]
  /\ down \in [Side -> BOOLEAN]
  /\ sent \in [Side -> Nat] /\ got \in [Side -> Nat]
  /\ \A s \in Side : got[s] <= sent[s]
  /\ end \in [Side -> {"open", "closed", "reset"}]
  /\ out \in [Side -> Seq(Nat)]
  /\ state \in {"COPY", "DONE", "ERROR", "killed"}
  /\ whole \in BOOLEAN

\* What one side receives, followed by what is still buffered for it, is what
\* was read from the other side: no byte is lost, repeated or out of place,
\* however recv and send cut the stream.
InOrder == \A s \in Side : out[s] \o buf[s].bytes = Upto(got[s])

\* A side is waited for exactly while there are bytes for it: OP_WRITE on a
\* side without any would end the connection (send of no bytes), and bytes
\* without it would never leave.
WriteInterestExact ==
  state = "COPY" => \A s \in Side :
    "OP_WRITE" \in interest[s] <=> Pending(buf[Other(s)])

\* As long as no send was partial, no callback calls recv with a length of 0,
\* whose answer is taken for the end of the stream.  (After a partial send one
\* may: copy_write enables the other side's OP_READ and nothing compacts.)
NeverReadsIntoFull ==
  whole /\ state = "COPY" => \A s \in Side : "OP_READ" \in interest[s] => Room(buf[s]) > 0

\* As long as no send was partial, a connection that is closed in order had a
\* side that ended its stream, and the other side got every byte of it (or one
\* side was reset).
OrderlyEnd ==
  whole /\ state = "DONE" => \E s \in Side :
    \/ end[s] = "reset"
    \/ end[s] = "closed" /\ out[s] = Upto(sent[s])

\* Bytes do not stay in the proxy: each one reaches the other side, or the
\* connection ends.
Delivered ==
  \A s \in Side : \A n \in 1..MaxBytes :
    sent[s] >= n ~> Len(out[s]) >= n \/ state # "COPY"

\* When one side ends its stream the connection ends.
EndsAfterEof == \A s \in Side : end[s] # "open" ~> state # "COPY"
=============================================================================
