--------------------------- MODULE Socksv5_proofs ---------------------------
(***************************************************************************)
(* Proofs about the proxy's core, for any number of connections, addresses *)
(* and descriptors: its types, who is served, and what ties together the   *)
(* items of the selector, the structs of the pool, the descriptors they    *)
(* hold and the jobs of the resolver threads.                              *)
(***************************************************************************)
EXTENDS Socksv5, SequenceTheorems, FiniteSetTheorems, TLAPS

Table == [Fd -> [owner : Conn \cup {Passive, Nobody}, interest : Interest]]
SockType == [Fd -> {"free", "listen", "client", "idle", "connecting", "up", "refused"}]

-----------------------------------------------------------------------------
(* The table operations keep a table a table *)

\* Whatever the descriptor and the interest a caller passes, what a table
\* operation of selector.c leaves behind is a table.
LEMMA TableOps ==
  ASSUME NEW t \in Table, NEW fd
  PROVE  /\ \A i \in Interest : SetInterest(t, fd, i) \in Table
         /\ \A op \in {"OP_READ", "OP_WRITE"} :
              Additive(t, fd, op) \in Table /\ Reduction(t, fd, op) \in Table
         /\ \A i \in Interest, c \in Conn : Register(t, fd, i, c) \in Table
         /\ \A fds : Unregister(t, fds) \in Table
<1> USE DEF Table
<1>1. ASSUME NEW i \in Interest PROVE SetInterest(t, fd, i) \in Table
  BY <1>1 DEF SetInterest
<1>2. ASSUME NEW op \in {"OP_READ", "OP_WRITE"}
      PROVE  Additive(t, fd, op) \in Table /\ Reduction(t, fd, op) \in Table
  BY <1>2 DEF Additive, Reduction, Interest
<1>3. ASSUME NEW i \in Interest, NEW c \in Conn PROVE Register(t, fd, i, c) \in Table
  BY <1>3 DEF Register
<1>4. ASSUME NEW fds PROVE Unregister(t, fds) \in Table
  BY <1>4 DEF Unregister, Unused, Interest
<1> QED
  BY <1>1, <1>2, <1>3, <1>4

\* Descriptors and interests are the values TypeOK takes them for.
LEMMA FdFacts ==
  /\ Fd \subseteq Int /\ NoFd \in Int /\ NewFd \subseteq Fd \cup {NoFd}
  /\ {} \in Interest /\ {"OP_READ"} \in Interest /\ {"OP_WRITE"} \in Interest
  /\ Listener \in Fd
BY CoreAssumption DEF Fd, NoFd, NewFd, FreeFds, Interest, Listener

\* new_socksv5 returns a well-formed connection.
LEMMA NewConnType == \A fd \in Fd \cup {NoFd} : NewConn(fd) \in ConnRecord
BY CoreAssumption DEF NewConn, ConnRecord, State, Flag, NoFd

\* Each field of a connection may take any value of its range.
LEMMA Fields ==
  ASSUME NEW v \in ConnRecord
  PROVE  /\ \A x \in State : [v EXCEPT !.st = x] \in ConnRecord
         /\ \A x \in Fd \cup {NoFd} : [v EXCEPT !.origin_fd = x] \in ConnRecord
         /\ \A x \in {"noauth", "userpass", "none"} : [v EXCEPT !.method = x] \in ConnRecord
         /\ \A x \in BOOLEAN : [v EXCEPT !.authed = x] \in ConnRecord
         /\ \A x \in {"SUCCEDED", "failure"} : [v EXCEPT !.reply = x] \in ConnRecord
         /\ \A x \in {"none", "running", "posted"} : [v EXCEPT !.dns = x] \in ConnRecord
         /\ \A x \in 0..MaxAddrs : [v EXCEPT !.addrs = x] \in ConnRecord
         /\ \A x \in SUBSET Flag : [v EXCEPT !.flags = x] \in ConnRecord
         /\ \A x \in BOOLEAN : [v EXCEPT !.rb = x] \in ConnRecord
         /\ \A x \in BOOLEAN : [v EXCEPT !.wb = x] \in ConnRecord
BY DEF ConnRecord

-----------------------------------------------------------------------------
(* Type correctness *)

\* What the walk over the table and the queue of jobs look like after an event.
ReadyType == [r : SUBSET Fd, w : SUBSET Fd]

LEMMA EventType ==
  ASSUME TypeOK, NEW fd, ReadEvent(fd) \/ WriteEvent(fd)
  PROVE  jobs' = jobs /\ ready' \in ReadyType
BY DEF TypeOK, ReadEvent, WriteEvent, Above, ReadyType

\* A callback that changes its connection and the table, and nothing else.
LEMMA BecomesType ==
  ASSUME TypeOK, NEW c \in Conn, NEW v \in ConnRecord, NEW t \in Table,
         Becomes(c, v, t), jobs' = jobs, ready' \in ReadyType
  PROVE  TypeOK'
<1>1. conn' = [conn EXCEPT ![c] = v] /\ items' = t /\ UNCHANGED <<pool, sock, concurrent, pc>>
  BY DEF Becomes
<1>2. conn' \in [Conn -> ConnRecord]
  BY <1>1 DEF TypeOK
<1> QED
  BY <1>1, <1>2 DEF TypeOK, Table, ReadyType

\* socksv5_done, also when it aborts the process.
LEMMA DoneType ==
  ASSUME TypeOK, NEW c \in Conn, Done(c), jobs' = jobs, ready' \in ReadyType
  PROVE  TypeOK'
<1>0. items \in Table /\ sock \in SockType
  BY DEF TypeOK, Table, SockType
<1>1. \A fds : Unregister(items, fds) \in Table
  BY <1>0, TableOps
<1>2. \A fds : Closed(sock, fds) \in SockType
  BY <1>0 DEF Closed, SockType
<1>3. CASE Disconnect(c)
  <2>1. Blank \in ConnRecord
    BY NewConnType DEF Blank
  <2>2. conn' \in [Conn -> ConnRecord]
    BY <1>3, <2>1 DEF Disconnect, TypeOK
  <2>3. items' \in Table /\ sock' \in SockType /\ concurrent' \in Int /\ pool' \subseteq Conn /\ pc' = pc
    BY <1>1, <1>2, <1>3 DEF Disconnect, TypeOK
  <2> QED
    BY <2>2, <2>3 DEF TypeOK, Table, SockType, ReadyType
<1>4. CASE Abort(c)
  <2>1. items' \in Table /\ sock' \in SockType /\ pc' = "aborted" /\ UNCHANGED <<conn, pool, concurrent>>
    BY <1>1, <1>2, <1>4 DEF Abort
  <2> QED
    BY <2>1 DEF TypeOK, Table, SockType, ReadyType
<1> QED
  BY <1>3, <1>4 DEF Done

\* connect_through_ip returns one of three states and leaves a table, whatever
\* socket() and connect() did.
LEMMA ConnectType ==
  ASSUME TypeOK, NEW c \in Conn, NEW t \in Table, NEW f \in NewFd, NEW o \in ConnectOutcomes
  PROVE  /\ ConnectThroughIp(c, t, f, o).ret \in {"REQUEST_WRITE", "ORIGIN_CONNECT", "ERROR"}
         /\ ConnectThroughIp(c, t, f, o).reply \in {"SUCCEDED", "failure"}
         /\ ConnectThroughIp(c, t, f, o).items \in Table
         /\ ConnectThroughIp(c, t, f, o).sock \in SockType
<1> DEFINE toClient == SetInterest(t, conn[c].client_fd, {"OP_WRITE"})
<1>1. toClient \in Table /\ Register(t, f, {"OP_WRITE"}, c) \in Table
  BY FdFacts, TableOps
<1>2. conn[c].reply \in {"SUCCEDED", "failure"} /\ sock \in SockType
  BY DEF TypeOK, ConnRecord, SockType
<1>3. \A x \in {"idle", "up", "connecting"} : [sock EXCEPT ![f] = x] \in SockType
  BY <1>2 DEF SockType
<1>4. o \in {"inprogress", "immediate", "error"}
  BY CoreAssumption
<1> HIDE DEF toClient
<1>5. CASE f = NoFd
  <2>1. ConnectThroughIp(c, t, f, o)
          = [ret |-> "REQUEST_WRITE", reply |-> conn[c].reply, items |-> toClient, sock |-> sock]
    BY <1>5 DEF ConnectThroughIp, toClient
  <2> QED
    BY <1>1, <1>2, <2>1
<1>6. CASE f # NoFd /\ o = "error"
  <2>1. ConnectThroughIp(c, t, f, o)
          = [ret |-> "REQUEST_WRITE", reply |-> "failure", items |-> toClient,
             sock |-> [sock EXCEPT ![f] = "idle"]]
    BY <1>6 DEF ConnectThroughIp, toClient
  <2> QED
    BY <1>1, <1>3, <2>1
<1>7. CASE f # NoFd /\ o = "immediate"
  <2>1. ConnectThroughIp(c, t, f, o)
          = [ret |-> "ORIGIN_CONNECT", reply |-> conn[c].reply, items |-> t,
             sock |-> [sock EXCEPT ![f] = "up"]]
    BY <1>7 DEF ConnectThroughIp
  <2> QED
    BY <1>2, <1>3, <2>1
<1>8. CASE f # NoFd /\ o = "inprogress"
  <2> DEFINE next == IF CanRegister(t, f) THEN Register(t, f, {"OP_WRITE"}, c) ELSE t
             ret == IF CanRegister(t, f) THEN "ORIGIN_CONNECT" ELSE "ERROR"
  <2>1. ConnectThroughIp(c, t, f, o)
          = [ret |-> ret, reply |-> conn[c].reply, items |-> next,
             sock |-> [sock EXCEPT ![f] = "connecting"]]
    BY <1>8 DEF ConnectThroughIp
  <2>2. next \in Table /\ ret \in {"ORIGIN_CONNECT", "ERROR"}
    BY <1>1
  <2> QED
    BY <1>2, <1>3, <2>1, <2>2
<1> QED
  BY <1>4, <1>5, <1>6, <1>7, <1>8

\* The handlers of the handshake, of the reply and of the connect's outcome.
LEMMA CallbackType ==
  ASSUME TypeOK, NEW fd \in Fd, NEW c \in Conn
  PROVE  /\ IoFails(c, fd) => TypeOK'
         /\ \A m \in {"noauth", "userpass", "none"} : GreetingRead(c, fd, m) => TypeOK'
         /\ GreetingWrite(c, fd) => TypeOK'
         /\ \A ok \in BOOLEAN : AuthRead(c, fd, ok) => TypeOK'
         /\ AuthWrite(c, fd) => TypeOK'
         /\ RequestReadError(c, fd) => TypeOK'
         /\ RequestReadFqdn(c, fd) => TypeOK'
         /\ VerifyConnection(c, fd) => TypeOK'
         /\ \A left \in Leftover : RequestWrite(c, fd, left) => TypeOK'
<1>0. /\ conn[c] \in ConnRecord /\ items \in Table
      /\ {"OP_READ"} \in Interest /\ {"OP_WRITE"} \in Interest /\ {} \in Interest
  BY FdFacts DEF TypeOK, Table
<1>1. ASSUME IoFails(c, fd) PROVE TypeOK'
  <2>1. (ReadEvent(fd) \/ WriteEvent(fd)) /\ Done(c)
    BY <1>1 DEF IoFails
  <2>2. jobs' = jobs /\ ready' \in ReadyType
    BY <2>1, EventType
  <2> QED
    BY <2>1, <2>2, DoneType
<1>2. ASSUME NEW m \in {"noauth", "userpass", "none"}, GreetingRead(c, fd, m) PROVE TypeOK'
  <2> DEFINE v == [conn[c] EXCEPT !.st = "GREETING_WRITE", !.method = m]
             t == SetInterest(items, fd, {"OP_WRITE"})
  <2>1. ReadEvent(fd) /\ Becomes(c, v, t)
    BY <1>2 DEF GreetingRead
  <2>2. v \in ConnRecord
    BY <1>0 DEF ConnRecord, State
  <2>3. t \in Table
    BY <1>0, TableOps
  <2>4. jobs' = jobs /\ ready' \in ReadyType
    BY <2>1, EventType
  <2> HIDE DEF v, t
  <2> QED
    BY <2>1, <2>2, <2>3, <2>4, BecomesType
<1>3. ASSUME GreetingWrite(c, fd) PROVE TypeOK'
  <2>1. jobs' = jobs /\ ready' \in ReadyType
    BY <1>3, EventType DEF GreetingWrite
  <2>2. ASSUME NEW q \in {"REQUEST_READ", "AUTH_READ"},
               Becomes(c, [conn[c] EXCEPT !.st = q], SetInterest(items, fd, {"OP_READ"}))
        PROVE  TypeOK'
    <3>1. [conn[c] EXCEPT !.st = q] \in ConnRecord
      BY <1>0, Fields DEF State
    <3>2. SetInterest(items, fd, {"OP_READ"}) \in Table
      BY <1>0, TableOps
    <3> QED
      BY <2>1, <2>2, <3>1, <3>2, BecomesType
  <2> QED
    BY <1>3, <2>1, <2>2, DoneType DEF GreetingWrite
<1>4. ASSUME NEW ok \in BOOLEAN, AuthRead(c, fd, ok) PROVE TypeOK'
  <2> DEFINE v == [conn[c] EXCEPT !.st = "AUTH_WRITE", !.authed = ok]
             t == SetInterest(items, fd, {"OP_WRITE"})
  <2>1. ReadEvent(fd) /\ Becomes(c, v, t)
    BY <1>4 DEF AuthRead
  <2>2. v \in ConnRecord
    BY <1>0 DEF ConnRecord, State
  <2>3. t \in Table
    BY <1>0, TableOps
  <2>4. jobs' = jobs /\ ready' \in ReadyType
    BY <2>1, EventType
  <2> HIDE DEF v, t
  <2> QED
    BY <2>1, <2>2, <2>3, <2>4, BecomesType
<1>5. ASSUME AuthWrite(c, fd) PROVE TypeOK'
  <2>1. jobs' = jobs /\ ready' \in ReadyType
    BY <1>5, EventType DEF AuthWrite
  <2>2. ASSUME Becomes(c, [conn[c] EXCEPT !.st = "REQUEST_READ"], SetInterest(items, fd, {"OP_READ"}))
        PROVE  TypeOK'
    <3>1. [conn[c] EXCEPT !.st = "REQUEST_READ"] \in ConnRecord
      BY <1>0, Fields DEF State
    <3>2. SetInterest(items, fd, {"OP_READ"}) \in Table
      BY <1>0, TableOps
    <3> QED
      BY <2>1, <2>2, <3>1, <3>2, BecomesType
  <2> QED
    BY <1>5, <2>1, <2>2, DoneType DEF AuthWrite
<1>6. ASSUME RequestReadError(c, fd) PROVE TypeOK'
  <2> DEFINE v == [conn[c] EXCEPT !.st = "REQUEST_WRITE", !.reply = "failure"]
             t == SetInterest(items, fd, {"OP_WRITE"})
  <2>1. ReadEvent(fd) /\ Becomes(c, v, t)
    BY <1>6 DEF RequestReadError
  <2>2. v \in ConnRecord
    BY <1>0 DEF ConnRecord, State
  <2>3. t \in Table
    BY <1>0, TableOps
  <2>4. jobs' = jobs /\ ready' \in ReadyType
    BY <2>1, EventType
  <2> HIDE DEF v, t
  <2> QED
    BY <2>1, <2>2, <2>3, <2>4, BecomesType
<1>7. ASSUME RequestReadFqdn(c, fd) PROVE TypeOK'
  <2> DEFINE v == [conn[c] EXCEPT !.st = "ORIGIN_CONNECT", !.dns = "running"]
             t == SetInterest(items, fd, {})
  <2>1. ReadEvent(fd) /\ Becomes(c, v, t)
    BY <1>7 DEF RequestReadFqdn
  <2>2. v \in ConnRecord
    BY <1>0 DEF ConnRecord, State
  <2>3. t \in Table
    BY <1>0, TableOps
  <2>4. jobs' = jobs /\ ready' \in ReadyType
    BY <2>1, EventType
  <2> HIDE DEF v, t
  <2> QED
    BY <2>1, <2>2, <2>3, <2>4, BecomesType
<1>8. ASSUME VerifyConnection(c, fd) PROVE TypeOK'
  <2> DEFINE re == IF sock[conn[c].origin_fd] = "refused" THEN "failure" ELSE "SUCCEDED"
             v == [conn[c] EXCEPT !.st = "REQUEST_WRITE", !.reply = re]
             muted == SetInterest(items, fd, {})
             t == SetInterest(muted, conn[c].client_fd, {"OP_WRITE"})
  <2>1. WriteEvent(fd) /\ Becomes(c, v, t)
    BY <1>8 DEF VerifyConnection
  <2>2. v \in ConnRecord
    <3>1. re \in {"SUCCEDED", "failure"}
      OBVIOUS
    <3> HIDE DEF re
    <3> QED
      BY <1>0, <3>1 DEF ConnRecord, State
  <2>3. muted \in Table
    BY <1>0, TableOps
  <2> HIDE DEF muted
  <2>4. t \in Table
    BY <1>0, <2>3, TableOps
  <2>5. jobs' = jobs /\ ready' \in ReadyType
    BY <2>1, EventType
  <2> HIDE DEF v, t
  <2> QED
    BY <2>1, <2>2, <2>4, <2>5, BecomesType
<1>9. ASSUME NEW left \in Leftover, RequestWrite(c, fd, left) PROVE TypeOK'
  <2>1. jobs' = jobs /\ ready' \in ReadyType
    BY <1>9, EventType DEF RequestWrite
  <2> DEFINE v == [conn[c] EXCEPT !.st = "COPY", !.flags = Flag, !.rb = left]
             own == SetInterest(items, fd, {"OP_READ"})
             t == SetInterest(own, conn[c].origin_fd, {"OP_READ"})
  <2>2. Becomes(c, v, t) \/ Done(c)
    BY <1>9 DEF RequestWrite
  <2>3. v \in ConnRecord
    <3>1. left \in BOOLEAN
      BY CoreAssumption
    <3> QED
      BY <1>0, <3>1 DEF ConnRecord, State
  <2>4. own \in Table
    BY <1>0, TableOps
  <2> HIDE DEF own
  <2>5. t \in Table
    BY <1>0, <2>4, TableOps
  <2> HIDE DEF v, t
  <2> QED
    BY <2>1, <2>2, <2>3, <2>5, BecomesType, DoneType
<1> QED
  BY <1>1, <1>2, <1>3, <1>4, <1>5, <1>6, <1>7, <1>8, <1>9

\* The flags and the two buffers of the side of a tunnel that fd is.
LEMMA EndsType ==
  ASSUME NEW c, NEW fd, NEW e, e = Ends(c, fd)
  PROVE  /\ e.reads \in {"rb", "wb"} /\ e.writes \in {"rb", "wb"}
         /\ e.mine \in Flag /\ e.theirs \in Flag /\ e.source \in Flag
BY DEF Ends, Flag

\* Marking a buffer, whichever of the two it is, as holding bytes or as empty.
LEMMA BufferType ==
  ASSUME NEW v \in ConnRecord, NEW k \in {"rb", "wb"}, NEW b \in BOOLEAN
  PROVE  [v EXCEPT ![k] = b] \in ConnRecord
<1>1. CASE k = "rb"
  <2>1. [v EXCEPT ![k] = b] = [v EXCEPT !.rb = b]
    BY <1>1
  <2> QED
    BY <2>1, Fields
<1>2. CASE k = "wb"
  <2>1. [v EXCEPT ![k] = b] = [v EXCEPT !.wb = b]
    BY <1>2
  <2> QED
    BY <2>1, Fields
<1> QED
  BY <1>1, <1>2

\* The handlers of the tunnel.
LEMMA CopyType ==
  ASSUME TypeOK, NEW fd \in Fd, NEW c \in Conn
  PROVE  /\ CopyRead(c, fd) => TypeOK'
         /\ CopyEof(c, fd) => TypeOK'
         /\ CopyWrite(c, fd) => TypeOK'
         /\ CopyWritePart(c, fd) => TypeOK'
<1> DEFINE e == Ends(c, fd)
<1>0. /\ conn[c] \in ConnRecord /\ items \in Table /\ conn[c].flags \subseteq Flag
      /\ e.reads \in {"rb", "wb"} /\ e.writes \in {"rb", "wb"}
  BY EndsType DEF TypeOK, Table, ConnRecord
<1>a. /\ \A k \in {"rb", "wb"}, b \in BOOLEAN : [conn[c] EXCEPT ![k] = b] \in ConnRecord
      /\ \A x \in SUBSET Flag : [conn[c] EXCEPT !.flags = x] \in ConnRecord
  BY <1>0, BufferType, Fields
<1>1. ASSUME CopyRead(c, fd) PROVE TypeOK'
  <2> DEFINE v == [conn[c] EXCEPT ![e.reads] = TRUE]
             own == Reduction(items, fd, "OP_READ")
             t == Additive(own, e.peer, "OP_WRITE")
  <2>1. ReadEvent(fd) /\ (Becomes(c, v, t) \/ Done(c))
    BY <1>1 DEF CopyRead
  <2>2. v \in ConnRecord
    BY <1>0, <1>a
  <2>3. own \in Table
    BY <1>0, TableOps
  <2> HIDE DEF own
  <2>4. t \in Table
    BY <2>3, TableOps
  <2>5. jobs' = jobs /\ ready' \in ReadyType
    BY <2>1, EventType
  <2> HIDE DEF v, t
  <2> QED
    BY <2>1, <2>2, <2>4, <2>5, BecomesType, DoneType
<1>2. ASSUME CopyEof(c, fd) PROVE TypeOK'
  <2> DEFINE flags == conn[c].flags \ ({"reading_client", "reading_origin", e.mine}
                        \cup (IF conn[c][e.reads] THEN {} ELSE {e.theirs}))
             v == [conn[c] EXCEPT !.flags = flags]
             t == Reduction(items, fd, "OP_READ")
  <2>1. ReadEvent(fd) /\ (Becomes(c, v, t) \/ Done(c))
    BY <1>2 DEF CopyEof
  <2>2. flags \in SUBSET Flag
    BY <1>0
  <2> HIDE DEF flags
  <2>3. v \in ConnRecord
    BY <2>2, <1>a
  <2>4. t \in Table
    BY <1>0, TableOps
  <2>5. jobs' = jobs /\ ready' \in ReadyType
    BY <2>1, EventType
  <2> HIDE DEF v, t
  <2> QED
    BY <2>1, <2>3, <2>4, <2>5, BecomesType, DoneType
<1>3. ASSUME CopyWrite(c, fd) PROVE TypeOK'
  <2> DEFINE flags == IF e.source \in conn[c].flags THEN conn[c].flags
                      ELSE conn[c].flags \ {e.mine}
             emptied == [conn[c] EXCEPT ![e.writes] = FALSE]
             closing == [conn[c] EXCEPT ![e.writes] = FALSE, !.flags = flags]
             sent == Reduction(items, fd, "OP_WRITE")
             again == Additive(sent, e.peer, "OP_READ")
  <2>1. /\ WriteEvent(fd)
        /\ Becomes(c, emptied, again) \/ Becomes(c, closing, sent) \/ Done(c)
    BY <1>3 DEF CopyWrite
  <2>2. flags \in SUBSET Flag
    BY <1>0
  <2>3. emptied \in ConnRecord
    BY <1>0, <1>a
  <2>4. closing \in ConnRecord
    <3>1. closing = [emptied EXCEPT !.flags = flags]
      OBVIOUS
    <3> HIDE DEF emptied, flags, closing
    <3> QED
      BY <2>2, <2>3, <3>1, Fields
  <2>5. sent \in Table
    BY <1>0, TableOps
  <2> HIDE DEF sent
  <2>6. again \in Table
    BY <2>5, TableOps
  <2>7. jobs' = jobs /\ ready' \in ReadyType
    BY <2>1, EventType
  <2> HIDE DEF emptied, closing, again
  <2> QED
    BY <2>1, <2>3, <2>4, <2>5, <2>6, <2>7, BecomesType, DoneType
<1>4. ASSUME CopyWritePart(c, fd) PROVE TypeOK'
  <2> DEFINE t == IF e.source \in conn[c].flags
                  THEN Additive(items, e.peer, "OP_READ") ELSE items
  <2>1. WriteEvent(fd) /\ Becomes(c, conn[c], t)
    BY <1>4 DEF CopyWritePart
  <2>2. t \in Table
    BY <1>0, TableOps
  <2>3. jobs' = jobs /\ ready' \in ReadyType
    BY <2>1, EventType
  <2> HIDE DEF t
  <2> QED
    BY <1>0, <2>1, <2>2, <2>3, BecomesType
<1> QED
  BY <1>1, <1>2, <1>3, <1>4

\* The steps that touch descriptors or jobs besides their connection: a new
\* client, a connect() to the origin, a resolution and what follows it.
LEMMA ConnectingType ==
  ASSUME TypeOK, NEW c \in Conn
  PROVE  /\ \A f \in NewFd : Accept(c, f) => TypeOK'
         /\ \A fd \in Fd, f \in NewFd, o \in ConnectOutcomes :
              RequestReadIp(c, fd, f, o) => TypeOK'
         /\ \A n \in 0..MaxAddrs : Resolve(c, n) => TypeOK'
         /\ \A f \in NewFd, o \in ConnectOutcomes : TryAddress(c, f, o) => TypeOK'
         /\ NoAddressLeft(c) => TypeOK'
<1>0. /\ conn \in [Conn -> ConnRecord] /\ conn[c] \in ConnRecord /\ items \in Table
      /\ sock \in SockType /\ pool \subseteq Conn /\ jobs \in Seq(Fd \cup {NoFd})
      /\ {"OP_READ"} \in Interest /\ {"OP_WRITE"} \in Interest /\ {} \in Interest
  BY FdFacts DEF TypeOK, Table, SockType
<1>1. ASSUME NEW f \in NewFd, Accept(c, f) PROVE TypeOK'
  <2>1. jobs' = jobs /\ ready' \in ReadyType /\ pool' \subseteq Conn /\ pc' = pc
    BY <1>0, <1>1, EventType, FdFacts DEF Accept
  <2>2. CASE CanRegister(items, f)
    <3>1. f \in Fd
      BY <1>1, FdFacts DEF Accept
    <3>2. NewConn(f) \in ConnRecord /\ Register(items, f, {"OP_READ"}, c) \in Table
      BY <1>0, <3>1, NewConnType, TableOps
    <3>3. /\ conn' = [conn EXCEPT ![c] = NewConn(f)]
          /\ items' = Register(items, f, {"OP_READ"}, c)
          /\ sock' = [sock EXCEPT ![f] = "client"] /\ concurrent' = concurrent + 1
      BY <1>1, <2>2 DEF Accept
    <3>4. conn' \in [Conn -> ConnRecord] /\ items' \in Table /\ sock' \in SockType
      BY <1>0, <3>2, <3>3 DEF SockType
    <3>5. concurrent' \in Int
      BY <3>3 DEF TypeOK
    <3> QED
      BY <2>1, <3>4, <3>5 DEF TypeOK, Table, SockType, ReadyType
  <2>3. CASE ~CanRegister(items, f)
    BY <1>1, <2>1, <2>3 DEF Accept, TypeOK, ReadyType
  <2> QED
    BY <2>2, <2>3
<1>2. ASSUME NEW fd \in Fd, NEW f \in NewFd, NEW o \in ConnectOutcomes,
             RequestReadIp(c, fd, f, o)
      PROVE  TypeOK'
  <2> DEFINE muted == SetInterest(items, fd, {})
             r == ConnectThroughIp(c, muted, f, o)
  <2>1. jobs' = jobs /\ ready' \in ReadyType
    BY <1>2, EventType DEF RequestReadIp
  <2>2. muted \in Table
    BY <1>0, TableOps
  <2>3. /\ conn' = [conn EXCEPT ![c].st = r.ret, ![c].reply = r.reply, ![c].origin_fd = f]
        /\ items' = r.items /\ sock' = r.sock /\ UNCHANGED <<pool, concurrent, pc>>
    BY <1>2 DEF RequestReadIp
  <2> HIDE DEF muted
  <2>4. /\ r.ret \in State /\ r.reply \in {"SUCCEDED", "failure"}
        /\ r.items \in Table /\ r.sock \in SockType
    BY <2>2, ConnectType DEF State
  <2> HIDE DEF r
  <2>5. conn' \in [Conn -> ConnRecord]
    BY <1>0, <2>3, <2>4, FdFacts DEF ConnRecord
  <2> QED
    BY <2>1, <2>3, <2>4, <2>5 DEF TypeOK, Table, SockType, ReadyType
<1>3. ASSUME NEW n \in 0..MaxAddrs, Resolve(c, n) PROVE TypeOK'
  <2>1. conn' \in [Conn -> ConnRecord]
    BY <1>0, <1>3 DEF Resolve, ConnRecord
  <2>2. conn[c].client_fd \in Fd \cup {NoFd}
    BY <1>0 DEF ConnRecord
  <2>3. <<conn[c].client_fd>> \o jobs \in Seq(Fd \cup {NoFd})
    BY <1>0, <2>2, ConcatProperties
  <2>4. jobs' \in Seq(Fd \cup {NoFd}) /\ UNCHANGED <<pool, items, sock, ready, concurrent, pc>>
    BY <1>3, <2>3 DEF Resolve
  <2> QED
    BY <2>1, <2>4 DEF TypeOK
<1>4. ASSUME Notified(c)
      PROVE  /\ Tail(jobs) \in Seq(Fd \cup {NoFd})
             /\ AfterJobs(Tail(jobs)) \in {"select", "notify"} /\ ready' = ready
  BY <1>0, <1>4, HeadTailProperties DEF Notified, AfterJobs
<1>5. ASSUME NEW f \in NewFd, NEW o \in ConnectOutcomes, TryAddress(c, f, o) PROVE TypeOK'
  <2> DEFINE r == ConnectThroughIp(c, items, f, o)
             next == [conn[c] EXCEPT !.reply = r.reply, !.origin_fd = f, !.addrs = @ - 1]
  <2>1. /\ Notified(c) /\ More(c)
        /\ \/ /\ conn' = [conn EXCEPT ![c] = [next EXCEPT !.dns = "none"]]
              /\ items' = r.items /\ sock' = r.sock
              /\ jobs' = Tail(jobs) /\ pc' = AfterJobs(Tail(jobs))
              /\ UNCHANGED <<pool, concurrent>>
           \/ /\ conn' = [conn EXCEPT ![c] = next]
              /\ items' = r.items /\ sock' = r.sock
              /\ UNCHANGED <<pool, jobs, concurrent, pc>>
           \/ /\ pc' = "aborted"
              /\ UNCHANGED <<conn, pool, items, sock, jobs, concurrent>>
    BY <1>5 DEF TryAddress
  <2>2. r.reply \in {"SUCCEDED", "failure"} /\ r.items \in Table /\ r.sock \in SockType
    BY <1>0, ConnectType
  <2>3. conn[c].addrs - 1 \in 0..MaxAddrs
    BY <1>0, <2>1, CoreAssumption DEF More, ConnRecord
  <2>4. next \in ConnRecord
    <3> HIDE DEF r
    <3> QED
      BY <1>0, <2>2, <2>3, FdFacts DEF ConnRecord
  <2> HIDE DEF next
  <2>5. [next EXCEPT !.dns = "none"] \in ConnRecord
    BY <2>4, Fields
  <2> HIDE DEF r
  <2>6. conn' \in [Conn -> ConnRecord]
    BY <1>0, <2>1, <2>4, <2>5
  <2> QED
    BY <1>4, <2>1, <2>2, <2>6 DEF TypeOK, Table, SockType
<1>6. ASSUME NoAddressLeft(c) PROVE TypeOK'
  <2>1. conn' \in [Conn -> ConnRecord]
    BY <1>0, <1>6 DEF NoAddressLeft, ConnRecord, State
  <2>2. items' \in Table
    BY <1>0, <1>6, TableOps DEF NoAddressLeft
  <2>3. Notified(c)
    BY <1>6 DEF NoAddressLeft
  <2> QED
    BY <1>4, <1>6, <2>1, <2>2, <2>3 DEF NoAddressLeft, TypeOK, Table
<1> QED
  BY <1>1, <1>2, <1>3, <1>5, <1>6

\* The loop itself, the network and the end of the server.
LEMMA LoopType ==
  ASSUME TypeOK
  PROVE  /\ Select => TypeOK'
         /\ Interrupted => TypeOK'
         /\ EndIteration => TypeOK'
         /\ \A fd \in Fd : Pass(fd) => TypeOK'
         /\ \A fd \in Fd, a \in {"up", "refused"} : NetworkAnswers(fd, a) => TypeOK'
         /\ \A fd \in Fd, c \in Conn : SendKills(c, fd) => TypeOK'
         /\ Stop => TypeOK'
<1>1. Select => TypeOK'
  BY DEF TypeOK, Select, Readers, Writers
<1>2. Interrupted => TypeOK'
  BY DEF TypeOK, Interrupted
<1>3. EndIteration => TypeOK'
  BY DEF TypeOK, EndIteration, AfterJobs
<1>4. ASSUME NEW fd \in Fd, Pass(fd) PROVE TypeOK'
  <2>1. jobs' = jobs /\ ready' \in ReadyType
    BY <1>4, EventType DEF Pass
  <2> QED
    BY <1>4, <2>1 DEF Pass, TypeOK, ReadyType
<1>5. ASSUME NEW fd \in Fd, NEW a \in {"up", "refused"}, NetworkAnswers(fd, a) PROVE TypeOK'
  BY <1>5 DEF NetworkAnswers, TypeOK
<1>6. ASSUME NEW fd \in Fd, NEW c \in Conn, SendKills(c, fd) PROVE TypeOK'
  <2>1. jobs' = jobs /\ ready' \in ReadyType
    BY <1>6, EventType DEF SendKills
  <2> QED
    BY <1>6, <2>1 DEF SendKills, TypeOK, ReadyType
<1>7. Stop => TypeOK'
  BY DEF Stop, TypeOK, Unused, Interest
<1> QED
  BY <1>1, <1>2, <1>3, <1>4, <1>5, <1>6, <1>7

\* The server starts with the passive socket registered and no client.
LEMMA TypeInit == Init => TypeOK
<1> SUFFICES ASSUME Init PROVE TypeOK
  OBVIOUS
<1>1. conn \in [Conn -> ConnRecord]
  BY NewConnType DEF Init, Blank
<1>2. items \in Table
  BY DEF Init, Table, Unused, Interest
<1>3. sock \in SockType
  BY DEF Init, SockType
<1> QED
  BY <1>1, <1>2, <1>3 DEF Init, TypeOK, Table, SockType

\* Every step of the server, the resolver and the network keeps the ranges.
LEMMA TypeStep == TypeOK /\ [Next]_vars => TypeOK'
<1> SUFFICES ASSUME TypeOK, [Next]_vars PROVE TypeOK'
  OBVIOUS
<1>1. Current \subseteq Fd
  BY DEF Current, Due
<1>2. CASE Loop
  BY <1>1, <1>2, LoopType DEF Loop
<1>3. CASE Callback
  BY <1>1, <1>3, CallbackType, CopyType, ConnectingType DEF Callback
<1>4. CASE Resolver
  BY <1>4, ConnectingType DEF Resolver
<1>5. CASE Network
  BY <1>5, LoopType DEF Network
<1>6. CASE Stop
  BY <1>6, LoopType
<1>7. CASE BrokenPipe
  BY <1>1, <1>7, LoopType DEF BrokenPipe
<1>8. CASE UNCHANGED vars
  BY <1>8 DEF TypeOK, vars
<1> QED
  BY <1>2, <1>3, <1>4, <1>5, <1>6, <1>7, <1>8 DEF Next, Ended

\* The fields of every connection, the table, the descriptors, the queue of
\* jobs and the program counter keep their ranges, whatever the number of
\* connections, descriptors and addresses.
THEOREM TypeCorrect == Spec => []TypeOK
<1> QED
  BY TypeInit, TypeStep, PTL DEF Spec

-----------------------------------------------------------------------------
(* Authorisation *)

\* What OnlyAuthorised needs of one connection to be inductive: it also looks
\* at the states before the request, where the method is already fixed and
\* leads to AUTH_READ only when it is user and password.
Authorised(v) ==
  /\ v.st \in {"REQUEST_READ", "ORIGIN_CONNECT", "REQUEST_WRITE", "COPY"} =>
       \/ v.method = "noauth"
       \/ v.method = "userpass" /\ v.authed
  /\ v.st \in {"AUTH_READ", "AUTH_WRITE"} => v.method = "userpass"

AuthInv == \A c \in Conn : Authorised(conn[c])

\* A step that leaves the other connections alone keeps the invariant when it
\* keeps it for its own.
LEMMA OneConn ==
  ASSUME TypeOK, AuthInv, NEW c \in Conn, NEW v, Authorised(v),
         conn' = [conn EXCEPT ![c] = v]
  PROVE  AuthInv'
<1>1. \A d \in Conn : conn'[d] = IF d = c THEN v ELSE conn[d]
  BY DEF TypeOK
<1> QED
  BY <1>1 DEF AuthInv

\* A connection that keeps its method and its verdict stays authorised in
\* every state it reaches from a request on.
LEMMA StaysAuthorised ==
  ASSUME NEW v, NEW w, Authorised(v), w.method = v.method, w.authed = v.authed,
         v.st \in {"REQUEST_READ", "ORIGIN_CONNECT", "REQUEST_WRITE", "COPY"},
         w.st \notin {"AUTH_READ", "AUTH_WRITE"}
  PROVE  Authorised(w)
BY DEF Authorised

\* A connection that ends is authorised for nothing.
LEMMA DoneAuth ==
  ASSUME TypeOK, AuthInv, NEW c \in Conn, Done(c)
  PROVE  AuthInv'
<1>1. Authorised(Blank)
  BY DEF Authorised, Blank, NewConn
<1>2. conn' = [conn EXCEPT ![c] = Blank] \/ conn' = conn
  BY DEF Done, Disconnect, Abort
<1> QED
  BY <1>1, <1>2, OneConn DEF AuthInv

\* The handshake: the states of the negotiation and the two ways out of it.
LEMMA HandshakeAuth ==
  ASSUME TypeOK, AuthInv, NEW fd \in Fd, NEW c \in Conn
  PROVE  /\ \A m \in {"noauth", "userpass", "none"} : GreetingRead(c, fd, m) => AuthInv'
         /\ GreetingWrite(c, fd) => AuthInv'
         /\ \A ok \in BOOLEAN : AuthRead(c, fd, ok) => AuthInv'
         /\ AuthWrite(c, fd) => AuthInv'
<1>0. conn[c] \in ConnRecord /\ Authorised(conn[c])
  BY DEF TypeOK, AuthInv
<1>1. ASSUME NEW m \in {"noauth", "userpass", "none"}, GreetingRead(c, fd, m) PROVE AuthInv'
  <2> DEFINE v == [conn[c] EXCEPT !.st = "GREETING_WRITE", !.method = m]
  <2>1. conn' = [conn EXCEPT ![c] = v]
    BY <1>1 DEF GreetingRead, Becomes
  <2>2. Authorised(v)
    BY <1>0 DEF Authorised, ConnRecord
  <2> QED
    BY <2>1, <2>2, OneConn
<1>2. ASSUME GreetingWrite(c, fd) PROVE AuthInv'
  <2>1. CASE conn[c].method = "noauth"
    <3> DEFINE v == [conn[c] EXCEPT !.st = "REQUEST_READ"]
    <3>1. conn' = [conn EXCEPT ![c] = v]
      BY <1>2, <2>1 DEF GreetingWrite, Becomes
    <3>2. Authorised(v)
      BY <1>0, <2>1 DEF Authorised, ConnRecord
    <3> QED
      BY <3>1, <3>2, OneConn
  <2>2. CASE conn[c].method = "userpass"
    <3> DEFINE v == [conn[c] EXCEPT !.st = "AUTH_READ"]
    <3>1. conn' = [conn EXCEPT ![c] = v]
      BY <1>2, <2>2 DEF GreetingWrite, Becomes
    <3>2. Authorised(v)
      BY <1>0, <2>2 DEF Authorised, ConnRecord
    <3> QED
      BY <3>1, <3>2, OneConn
  <2>3. CASE conn[c].method = "none"
    BY <1>2, <2>3, DoneAuth DEF GreetingWrite
  <2> QED
    BY <1>2, <2>1, <2>2, <2>3 DEF GreetingWrite
<1>3. ASSUME NEW ok \in BOOLEAN, AuthRead(c, fd, ok) PROVE AuthInv'
  <2> DEFINE v == [conn[c] EXCEPT !.st = "AUTH_WRITE", !.authed = ok]
  <2>1. conn' = [conn EXCEPT ![c] = v] /\ conn[c].st = "AUTH_READ"
    BY <1>3 DEF AuthRead, Becomes, Serves
  <2>2. Authorised(v)
    BY <1>0, <2>1 DEF Authorised, ConnRecord
  <2> QED
    BY <2>1, <2>2, OneConn
<1>4. ASSUME AuthWrite(c, fd) PROVE AuthInv'
  <2>1. CASE conn[c].authed
    <3> DEFINE v == [conn[c] EXCEPT !.st = "REQUEST_READ"]
    <3>1. conn' = [conn EXCEPT ![c] = v] /\ conn[c].st = "AUTH_WRITE"
      BY <1>4, <2>1 DEF AuthWrite, Becomes, Serves
    <3>2. Authorised(v)
      BY <1>0, <2>1, <3>1 DEF Authorised, ConnRecord
    <3> QED
      BY <3>1, <3>2, OneConn
  <2>2. CASE ~conn[c].authed
    BY <1>4, <2>2, DoneAuth DEF AuthWrite
  <2> QED
    BY <2>1, <2>2
<1> QED
  BY <1>1, <1>2, <1>3, <1>4

\* The request and the connection to the origin: no handler looks at the
\* method again, and none goes back to the negotiation.
LEMMA RequestAuth ==
  ASSUME TypeOK, AuthInv, NEW fd \in Fd, NEW c \in Conn
  PROVE  /\ RequestReadError(c, fd) => AuthInv'
         /\ RequestReadFqdn(c, fd) => AuthInv'
         /\ \A f \in NewFd, o \in ConnectOutcomes : RequestReadIp(c, fd, f, o) => AuthInv'
         /\ VerifyConnection(c, fd) => AuthInv'
         /\ \A left \in Leftover : RequestWrite(c, fd, left) => AuthInv'
<1>0. conn[c] \in ConnRecord /\ Authorised(conn[c])
  BY DEF TypeOK, AuthInv
<1>1. ASSUME RequestReadError(c, fd) PROVE AuthInv'
  <2> DEFINE v == [conn[c] EXCEPT !.st = "REQUEST_WRITE", !.reply = "failure"]
  <2>1. conn' = [conn EXCEPT ![c] = v] /\ conn[c].st = "REQUEST_READ"
    BY <1>1 DEF RequestReadError, Becomes, Serves
  <2>2. Authorised(v)
    BY <1>0, <2>1 DEF Authorised, ConnRecord
  <2> QED
    BY <2>1, <2>2, OneConn
<1>2. ASSUME RequestReadFqdn(c, fd) PROVE AuthInv'
  <2> DEFINE v == [conn[c] EXCEPT !.st = "ORIGIN_CONNECT", !.dns = "running"]
  <2>1. conn' = [conn EXCEPT ![c] = v] /\ conn[c].st = "REQUEST_READ"
    BY <1>2 DEF RequestReadFqdn, Becomes, Serves
  <2>2. Authorised(v)
    BY <1>0, <2>1 DEF Authorised, ConnRecord
  <2> QED
    BY <2>1, <2>2, OneConn
<1>3. ASSUME NEW f \in NewFd, NEW o \in ConnectOutcomes, RequestReadIp(c, fd, f, o)
      PROVE  AuthInv'
  <2> DEFINE muted == SetInterest(items, fd, {})
             r == ConnectThroughIp(c, muted, f, o)
             v == [[[conn[c] EXCEPT !.st = r.ret] EXCEPT !.reply = r.reply] EXCEPT !.origin_fd = f]
  <2>1. muted \in Table
    BY FdFacts, TableOps DEF TypeOK, Table
  <2> HIDE DEF muted
  <2>2. r.ret \in {"REQUEST_WRITE", "ORIGIN_CONNECT", "ERROR"}
    BY <2>1, ConnectType
  <2>3. conn[c].st = "REQUEST_READ"
    BY <1>3 DEF RequestReadIp, Serves
  <2>4. conn' = [conn EXCEPT ![c].st = r.ret, ![c].reply = r.reply, ![c].origin_fd = f]
    BY <1>3 DEF RequestReadIp, muted
  <2> HIDE DEF r
  <2>5. conn' = [conn EXCEPT ![c] = v]
    BY <2>4 DEF TypeOK, ConnRecord
  <2>6. v.method = conn[c].method /\ v.authed = conn[c].authed /\ v.st = r.ret
    BY <1>0 DEF ConnRecord
  <2> HIDE DEF v
  <2>7. Authorised(v)
    BY <1>0, <2>2, <2>3, <2>6, StaysAuthorised
  <2> QED
    BY <2>5, <2>7, OneConn
<1>4. ASSUME VerifyConnection(c, fd) PROVE AuthInv'
  <2> DEFINE re == IF sock[conn[c].origin_fd] = "refused" THEN "failure" ELSE "SUCCEDED"
             v == [conn[c] EXCEPT !.st = "REQUEST_WRITE", !.reply = re]
  <2>1. conn' = [conn EXCEPT ![c] = v] /\ conn[c].st = "ORIGIN_CONNECT"
    BY <1>4 DEF VerifyConnection, Becomes, Serves
  <2>2. Authorised(v)
    BY <1>0, <2>1 DEF Authorised, ConnRecord
  <2> QED
    BY <2>1, <2>2, OneConn
<1>5. ASSUME NEW left \in Leftover, RequestWrite(c, fd, left) PROVE AuthInv'
  <2> DEFINE v == [conn[c] EXCEPT !.st = "COPY", !.flags = Flag, !.rb = left]
  <2>1. conn' = [conn EXCEPT ![c] = v] \/ Done(c)
    BY <1>5 DEF RequestWrite, Becomes
  <2>2. conn[c].st = "REQUEST_WRITE"
    BY <1>5 DEF RequestWrite, Serves
  <2>3. Authorised(v)
    BY <1>0, <2>2 DEF Authorised, ConnRecord
  <2> QED
    BY <2>1, <2>3, OneConn, DoneAuth
<1> QED
  BY <1>1, <1>2, <1>3, <1>4, <1>5

\* The tunnel and the notifications of the resolver.
LEMMA CopyAuth ==
  ASSUME TypeOK, AuthInv, NEW fd \in Fd, NEW c \in Conn
  PROVE  /\ CopyRead(c, fd) => AuthInv'
         /\ CopyEof(c, fd) => AuthInv'
         /\ CopyWrite(c, fd) => AuthInv'
         /\ CopyWritePart(c, fd) => AuthInv'
<1> DEFINE e == Ends(c, fd)
<1>0. conn[c] \in ConnRecord /\ Authorised(conn[c]) /\ {e.reads, e.writes} \subseteq {"rb", "wb"}
  BY EndsType DEF TypeOK, AuthInv
<1>1. ASSUME NEW k \in {"rb", "wb"}, NEW b
      PROVE  Authorised([conn[c] EXCEPT ![k] = b])
  <2>1. CASE k = "rb"
    <3>1. [conn[c] EXCEPT ![k] = b] = [conn[c] EXCEPT !.rb = b]
      BY <2>1
    <3> QED
      BY <1>0, <3>1 DEF Authorised, ConnRecord
  <2>2. CASE k = "wb"
    <3>1. [conn[c] EXCEPT ![k] = b] = [conn[c] EXCEPT !.wb = b]
      BY <2>2
    <3> QED
      BY <1>0, <3>1 DEF Authorised, ConnRecord
  <2> QED
    BY <2>1, <2>2
<1>2. ASSUME NEW x PROVE Authorised([conn[c] EXCEPT !.flags = x])
  BY <1>0 DEF Authorised, ConnRecord
<1>3. ASSUME NEW k \in {"rb", "wb"}, NEW x
      PROVE  Authorised([conn[c] EXCEPT ![k] = FALSE, !.flags = x])
  <2>1. CASE k = "rb"
    <3>1. [conn[c] EXCEPT ![k] = FALSE, !.flags = x] = [conn[c] EXCEPT !.rb = FALSE, !.flags = x]
      BY <2>1
    <3> QED
      BY <1>0, <3>1 DEF Authorised, ConnRecord
  <2>2. CASE k = "wb"
    <3>1. [conn[c] EXCEPT ![k] = FALSE, !.flags = x] = [conn[c] EXCEPT !.wb = FALSE, !.flags = x]
      BY <2>2
    <3> QED
      BY <1>0, <3>1 DEF Authorised, ConnRecord
  <2> QED
    BY <2>1, <2>2
<1>4. ASSUME CopyRead(c, fd) PROVE AuthInv'
  <2>1. conn' = [conn EXCEPT ![c] = [conn[c] EXCEPT ![e.reads] = TRUE]] \/ Done(c)
    BY <1>4 DEF CopyRead, Becomes
  <2> QED
    BY <1>0, <1>1, <2>1, OneConn, DoneAuth
<1>5. ASSUME CopyEof(c, fd) PROVE AuthInv'
  <2> DEFINE flags == conn[c].flags \ ({"reading_client", "reading_origin", e.mine}
                        \cup (IF conn[c][e.reads] THEN {} ELSE {e.theirs}))
  <2>1. conn' = [conn EXCEPT ![c] = [conn[c] EXCEPT !.flags = flags]] \/ Done(c)
    BY <1>5 DEF CopyEof, Becomes
  <2> HIDE DEF flags
  <2> QED
    BY <1>2, <2>1, OneConn, DoneAuth
<1>6. ASSUME CopyWrite(c, fd) PROVE AuthInv'
  <2> DEFINE flags == IF e.source \in conn[c].flags THEN conn[c].flags
                      ELSE conn[c].flags \ {e.mine}
  <2>1. \/ conn' = [conn EXCEPT ![c] = [conn[c] EXCEPT ![e.writes] = FALSE]]
        \/ conn' = [conn EXCEPT ![c] = [conn[c] EXCEPT ![e.writes] = FALSE, !.flags = flags]]
        \/ Done(c)
    BY <1>6 DEF CopyWrite, Becomes
  <2> HIDE DEF flags
  <2> QED
    BY <1>0, <1>1, <1>3, <2>1, OneConn, DoneAuth
<1>7. ASSUME CopyWritePart(c, fd) PROVE AuthInv'
  <2>1. conn' = [conn EXCEPT ![c] = conn[c]]
    BY <1>7 DEF CopyWritePart, Becomes
  <2> QED
    BY <1>0, <2>1, OneConn
<1> QED
  BY <1>4, <1>5, <1>6, <1>7

\* A new client, and what a resolution leads to.
LEMMA ConnectingAuth ==
  ASSUME TypeOK, AuthInv, NEW c \in Conn
  PROVE  /\ \A f \in NewFd : Accept(c, f) => AuthInv'
         /\ \A n \in 0..MaxAddrs : Resolve(c, n) => AuthInv'
         /\ \A f \in NewFd, o \in ConnectOutcomes : TryAddress(c, f, o) => AuthInv'
         /\ NoAddressLeft(c) => AuthInv'
<1>0. conn[c] \in ConnRecord /\ Authorised(conn[c]) /\ conn \in [Conn -> ConnRecord]
  BY DEF TypeOK, AuthInv
<1>1. ASSUME NEW f \in NewFd, Accept(c, f) PROVE AuthInv'
  <2>1. Authorised(NewConn(f))
    BY DEF Authorised, NewConn
  <2>2. conn' = [conn EXCEPT ![c] = NewConn(f)] \/ conn' = conn
    BY <1>1 DEF Accept
  <2> QED
    BY <2>1, <2>2, OneConn DEF AuthInv
<1>2. ASSUME NEW n \in 0..MaxAddrs, Resolve(c, n) PROVE AuthInv'
  <2> DEFINE v == [conn[c] EXCEPT !.dns = "posted", !.addrs = n]
  <2>1. conn' = [conn EXCEPT ![c] = v]
    BY <1>0, <1>2 DEF Resolve, ConnRecord
  <2>2. Authorised(v)
    BY <1>0 DEF Authorised, ConnRecord
  <2> QED
    BY <2>1, <2>2, OneConn
<1>3. ASSUME NEW f \in NewFd, NEW o \in ConnectOutcomes, TryAddress(c, f, o) PROVE AuthInv'
  <2> DEFINE r == ConnectThroughIp(c, items, f, o)
             next == [conn[c] EXCEPT !.reply = r.reply, !.origin_fd = f, !.addrs = @ - 1]
             last == [next EXCEPT !.dns = "none"]
  <2>1. \/ conn' = [conn EXCEPT ![c] = last]
        \/ conn' = [conn EXCEPT ![c] = next]
        \/ conn' = conn
    BY <1>3 DEF TryAddress
  <2> HIDE DEF r
  <2>2. Authorised(next) /\ Authorised(last)
    BY <1>0 DEF Authorised, ConnRecord
  <2> HIDE DEF next, last
  <2> QED
    BY <2>1, <2>2, OneConn DEF AuthInv
<1>4. ASSUME NoAddressLeft(c) PROVE AuthInv'
  <2> DEFINE v == [conn[c] EXCEPT !.st = "REQUEST_WRITE", !.reply = "failure", !.dns = "none"]
  <2>1. conn' = [conn EXCEPT ![c] = v]
    BY <1>0, <1>4 DEF NoAddressLeft, ConnRecord
  <2>2. conn[c].st = "ORIGIN_CONNECT"
    <3>1. Notified(c)
      BY <1>4 DEF NoAddressLeft
    <3> QED
      BY <3>1 DEF Notified, Serves
  <2>3. Authorised(v)
    BY <1>0, <2>2 DEF Authorised, ConnRecord
  <2> QED
    BY <2>1, <2>3, OneConn
<1> QED
  BY <1>1, <1>2, <1>3, <1>4

\* Every step keeps every connection authorised for the state it is in.
LEMMA AuthStep == TypeOK /\ AuthInv /\ [Next]_vars => AuthInv'
<1> SUFFICES ASSUME TypeOK, AuthInv, [Next]_vars PROVE AuthInv'
  OBVIOUS
<1>1. Current \subseteq Fd
  BY DEF Current, Due
<1>2. CASE conn' = conn
  BY <1>2 DEF AuthInv
<1>3. CASE Callback
  <2>1. ASSUME NEW fd \in Fd, NEW c \in Conn, IoFails(c, fd) PROVE AuthInv'
    BY <2>1, DoneAuth DEF IoFails
  <2> QED
    BY <1>1, <1>3, <2>1, HandshakeAuth, RequestAuth, CopyAuth, ConnectingAuth DEF Callback
<1>4. CASE Resolver
  BY <1>4, ConnectingAuth DEF Resolver
<1>5. CASE Loop \/ BrokenPipe \/ Network \/ Stop \/ Ended \/ UNCHANGED vars
  <2>1. conn' = conn
    BY <1>5 DEF Loop, Select, Interrupted, EndIteration, Pass, BrokenPipe, SendKills, Network,
                NetworkAnswers, Stop, Ended, vars
  <2> QED
    BY <1>2, <2>1
<1> QED
  BY <1>3, <1>4, <1>5 DEF Next

\* No connection is in a state that serves a request before it negotiated no
\* authentication or had its user and password accepted, for any number of
\* clients, descriptors and addresses.
THEOREM OnlyAuthorisedCorrect == Spec => []OnlyAuthorised
<1>1. Init => AuthInv
  <2>1. Authorised(Blank)
    BY DEF Authorised, Blank, NewConn
  <2> QED
    BY <2>1 DEF Init, AuthInv
<1>2. TypeOK /\ AuthInv => OnlyAuthorised
  BY DEF TypeOK, AuthInv, Authorised, OnlyAuthorised
<1> QED
  BY <1>1, <1>2, AuthStep, TypeCorrect, PTL DEF Spec

-----------------------------------------------------------------------------
(* What ties the core together *)

\* A descriptor fits in the uint8_t that ops_copy keeps it in.
WideFd == FdMod > MaxFd

Early == {"GREETING_READ", "GREETING_WRITE", "AUTH_READ", "AUTH_WRITE", "REQUEST_READ"}

\* What the fields of one struct say about each other: no origin before the
\* request was read, one while a tunnel runs; a thread only in ORIGIN_CONNECT.
Local(v) ==
  /\ v.st \in Early => v.origin_fd = NoFd
  /\ v.st = "COPY" => v.origin_fd # NoFd
  /\ v.client_fd = NoFd => v = Blank
  /\ v.dns # "none" => v.st = "ORIGIN_CONNECT"

Locals == \A c \in Conn : Local(conn[c])

\* Items, pool and descriptors agree; what a struct holds is open, except
\* after an abort; what is not in the pool is as new_socksv5 will find it.
Owned ==
  /\ sock[Listener] = "listen"
  /\ \A fd \in Fd : items[fd].owner # Nobody => sock[fd] # "free"
  /\ \A fd \in Fd : items[fd].owner = Passive => fd = Listener
  /\ \A fd \in Fd, c \in Conn : items[fd].owner = c => c \in pool /\ fd \in Fds(c)
  /\ \A c, d \in pool : c # d => Fds(c) \cap Fds(d) = {}
  /\ pc # "aborted" => \A c \in pool : \A fd \in Fds(c) : sock[fd] \notin {"free", "listen"}
  /\ pc # "stopped" => \A c \in Conn \ pool : conn[c] = Blank

\* A connection that waits for its resolution is registered with its client
\* only, which is muted; while its job is served it may want to answer.
Waiting ==
  pc # "stopped" => \A c \in Conn : conn[c].dns # "none" =>
    /\ items[conn[c].client_fd].owner = c
    /\ \A fd \in Fd : items[fd].owner = c => fd = conn[c].client_fd
    /\ \/ items[conn[c].client_fd].interest = {}
       \/ pc = "aborted"
       \/ pc = "notify" /\ jobs # << >> /\ Head(jobs) = conn[c].client_fd

\* Every queued job is the only one of a connection whose thread has ended.
Queued ==
  /\ \A i \in 1..Len(jobs) :
       /\ jobs[i] \in Fd /\ items[jobs[i]].owner \in Conn
       /\ conn[items[jobs[i]].owner].dns = "posted"
       /\ conn[items[jobs[i]].owner].client_fd = jobs[i]
  /\ \A i, k \in 1..Len(jobs) : jobs[i] = jobs[k] => i = k

\* An interest is only of a kind that the state of the connection has a handler for.
Handled(v, i) ==
  /\ "OP_READ" \in i => v.st \in ReadStates
  /\ "OP_WRITE" \in i => v.st \in WriteStates

\* It is so for every descriptor a connection is registered with.
AllHandled ==
  \A fd \in Fd, c \in Conn : items[fd].owner = c => Handled(conn[c], items[fd].interest)

\* The joint invariant: the steps that keep one conjunct rely on the others.
LinkInv == TypeOK /\ Owned /\ Locals /\ AllHandled /\ Waiting /\ Queued

\* It holds before the first arrival.
LEMMA LinkInit == Init => LinkInv
<1> SUFFICES ASSUME Init PROVE LinkInv
  OBVIOUS
<1>1. TypeOK
  BY TypeInit
<1>2. \A c \in Conn : conn[c] = Blank
  BY DEF Init
<1>3. /\ pool = {} /\ jobs = << >> /\ sock[Listener] = "listen"
      /\ \A fd \in Fd : items[fd].owner \notin Conn
      /\ \A fd \in Fd : fd # Listener => items[fd].owner = Nobody
      /\ \A fd \in Fd : items[fd].owner # Nobody => sock[fd] # "free"
  BY FdFacts, CoreAssumption DEF Init, Unused
<1>4. Passive # Nobody
  BY DEF Passive, Nobody
<1>5. Owned
  BY <1>2, <1>3, <1>4 DEF Owned
<1>6. Local(Blank) /\ Blank.dns = "none"
  BY DEF Local, Blank, NewConn, Early
<1>7. Locals /\ AllHandled /\ Waiting
  BY <1>2, <1>3, <1>6 DEF Locals, AllHandled, Waiting
<1>8. Queued
  BY <1>3 DEF Queued
<1> QED
  BY <1>1, <1>5, <1>7, <1>8 DEF LinkInv

-----------------------------------------------------------------------------
(* What an event and a table operation leave alone *)

\* A descriptor of a process is itself in a uint8_t that is wide enough.
LEMMA FitsInByte ==
  ASSUME WideFd, NEW fd \in Fd PROVE fd % FdMod = fd
BY CoreAssumption DEF WideFd, Fd

\* The descriptors of a connection are descriptors, its client's among them
\* once it has any.
LEMMA FdsFacts ==
  ASSUME LinkInv, NEW c \in Conn
  PROVE  /\ Fds(c) \subseteq Fd
         /\ Fds(c) # {} => conn[c].client_fd \in Fds(c)
<1>1. conn[c] \in ConnRecord /\ Local(conn[c])
  BY DEF LinkInv, TypeOK, Locals
<1>2. Fds(c) \subseteq Fd
  BY <1>1, FdFacts DEF Fds, ConnRecord
<1>3. conn[c].client_fd = NoFd => Fds(c) = {}
  BY <1>1 DEF Local, Blank, NewConn, Fds
<1> QED
  BY <1>2, <1>3 DEF Fds

\* A callback serves a live connection, on a descriptor it holds, and none
\* whose name is being resolved.
LEMMA EventOf ==
  ASSUME LinkInv, NEW fd \in Fd, NEW c \in Conn, items[fd].owner = c,
         ReadEvent(fd) \/ WriteEvent(fd)
  PROVE  /\ pc = "iterate" /\ c \in pool /\ fd \in Fds(c) /\ conn[c].dns = "none"
         /\ conn[c].client_fd \in Fds(c) /\ jobs' = jobs /\ ready' \in ReadyType
<1>1. pc = "iterate" /\ items[fd].interest # {}
  BY DEF ReadEvent, WriteEvent, Current, Due, ReadDue, WriteDue
<1>2. c \in pool /\ fd \in Fds(c)
  BY DEF LinkInv, Owned
<1>3. conn[c].dns = "none"
  BY <1>1 DEF LinkInv, Waiting
<1>4. jobs' = jobs /\ ready' \in ReadyType
  BY EventType DEF LinkInv
<1>5. conn[c].client_fd \in Fds(c)
  BY <1>2, FdsFacts
<1> QED
  BY <1>1, <1>2, <1>3, <1>4, <1>5

\* The table u is t but for interests, of items of c or of nobody.
Retuned(c, t, u) ==
  \A g \in Fd : u[g].owner = t[g].owner /\ (t[g].owner \in Conn \ {c} => u[g] = t[g])

\* What a callback does to the interest of a descriptor of its own connection
\* is seen by no other connection.
LEMMA RetuneSet ==
  ASSUME LinkInv, NEW c \in Conn, c \in pool, NEW t \in Table, Retuned(c, items, t),
         NEW fd \in Fds(c), NEW i \in Interest, NEW u, u = SetInterest(t, fd, i)
  PROVE  /\ u \in Table /\ Retuned(c, items, u)
         /\ u[fd].interest = i
         /\ \A g \in Fd \ {fd} : u[g] = t[g]
<1>1. fd \in Fd
  BY FdsFacts
<1>2. items[fd].owner \notin Conn \ {c}
  BY <1>1 DEF LinkInv, Owned
<1>3. /\ \A g \in Fd \ {fd} : u[g] = t[g]
      /\ u[fd].owner = t[fd].owner /\ u[fd].interest = i
  BY <1>1 DEF Table, SetInterest
<1>4. Retuned(c, items, u)
  BY <1>2, <1>3 DEF Retuned
<1>5. u \in Table
  BY TableOps
<1> QED
  BY <1>3, <1>4, <1>5

\* The two incremental forms set an interest too.
LEMMA RetuneStep ==
  ASSUME LinkInv, NEW c \in Conn, c \in pool, NEW t \in Table, Retuned(c, items, t),
         NEW fd \in Fds(c), NEW op \in {"OP_READ", "OP_WRITE"}
  PROVE  /\ Additive(t, fd, op) \in Table /\ Retuned(c, items, Additive(t, fd, op))
         /\ Reduction(t, fd, op) \in Table /\ Retuned(c, items, Reduction(t, fd, op))
<1>1. t[fd].interest \in Interest
  BY FdsFacts DEF Table
<1>2. /\ Additive(t, fd, op) = SetInterest(t, fd, t[fd].interest \cup {op})
      /\ Reduction(t, fd, op) = SetInterest(t, fd, t[fd].interest \ {op})
  BY DEF Additive, Reduction, SetInterest
<1>3. t[fd].interest \cup {op} \in Interest /\ t[fd].interest \ {op} \in Interest
  BY <1>1 DEF Interest
<1> QED
  BY <1>2, <1>3, RetuneSet

-----------------------------------------------------------------------------
(* The callbacks that keep their connection *)

\* A callback that changes the struct of its connection and the interests of
\* its items, with the descriptors it had.
LEMMA KeepsLinks ==
  ASSUME LinkInv, NEW c \in Conn, c \in pool, pc = "iterate", conn[c].dns = "none",
         NEW v \in ConnRecord, v.client_fd = conn[c].client_fd,
         v.origin_fd = conn[c].origin_fd, Local(v),
         NEW t \in Table, Retuned(c, items, t),
         Becomes(c, v, t), jobs' = jobs, ready' \in ReadyType,
         \A g \in Fd : items[g].owner = c => Handled(v, t[g].interest),
         v.dns # "none" => /\ items[v.client_fd].owner = c /\ t[v.client_fd].interest = {}
                           /\ \A g \in Fd : items[g].owner = c => g = v.client_fd
  PROVE  LinkInv'
<1>1. /\ conn' = [conn EXCEPT ![c] = v] /\ items' = t
      /\ pool' = pool /\ sock' = sock /\ pc' = pc /\ jobs' = jobs
  BY DEF Becomes
<1>2. \A d \in Conn : conn'[d] = IF d = c THEN v ELSE conn[d]
  BY <1>1 DEF LinkInv, TypeOK
<1>3. \A d \in Conn : Fds(d)' = Fds(d)
  BY <1>2 DEF Fds
<1>4. \A g \in Fd : /\ items'[g].owner = items[g].owner
                    /\ items[g].owner \in Conn \ {c} => items'[g] = items[g]
  BY <1>1 DEF Retuned
<1>5. TypeOK'
  BY BecomesType DEF LinkInv
<1>6. Owned'
  <2>1. \A d \in pool : Fds(d)' = Fds(d)
    BY <1>3 DEF LinkInv, TypeOK
  <2> QED
    BY <1>1, <1>2, <1>3, <1>4, <2>1 DEF LinkInv, Owned
<1>7. Locals'
  BY <1>2 DEF LinkInv, Locals
<1>8. AllHandled'
  BY <1>1, <1>2, <1>4 DEF LinkInv, AllHandled
<1>9. Waiting'
  <2> SUFFICES ASSUME NEW d \in Conn, conn'[d].dns # "none"
               PROVE  /\ items'[conn'[d].client_fd].owner = d
                      /\ \A g \in Fd : items'[g].owner = d => g = conn'[d].client_fd
                      /\ items'[conn'[d].client_fd].interest = {}
    BY DEF Waiting
  <2>1. conn'[d].client_fd \in Fd
    <3>1. conn'[d].client_fd # NoFd
      BY <1>7 DEF Locals, Local, Blank, NewConn
    <3> QED
      BY <1>5, <3>1 DEF TypeOK, ConnRecord
  <2>2. CASE d = c
    BY <1>1, <1>2, <1>4, <2>1, <2>2
  <2>3. CASE d # c
    <3>1. /\ conn'[d] = conn[d] /\ items[conn[d].client_fd].owner = d
          /\ \A g \in Fd : items[g].owner = d => g = conn[d].client_fd
          /\ items[conn[d].client_fd].interest = {}
      BY <1>2, <2>3 DEF LinkInv, Waiting
    <3> QED
      BY <1>4, <2>1, <2>3, <3>1
  <2> QED
    BY <2>2, <2>3
<1>10. Queued'
  <2>1. \A i \in 1..Len(jobs) : items[jobs[i]].owner # c
    BY DEF LinkInv, Queued
  <2> QED
    BY <1>1, <1>2, <1>4, <2>1 DEF LinkInv, Queued
<1> QED
  BY <1>5, <1>6, <1>7, <1>8, <1>9, <1>10 DEF LinkInv

\* socksv5_done, to its end or to its abort.
LEMMA DoneLinks ==
  ASSUME LinkInv, NEW c \in Conn, c \in pool, pc = "iterate", conn[c].dns = "none",
         conn[c].client_fd \in Fds(c),
         Done(c), jobs' = jobs, ready' \in ReadyType
  PROVE  LinkInv'
<1>1. TypeOK'
  BY DoneType DEF LinkInv
<1>2. Fds(c) \subseteq Fd /\ Listener \notin Fds(c)
  BY FdsFacts DEF LinkInv, Owned
<1>3. \A d \in pool : d # c => Fds(d) \cap Fds(c) = {}
  BY DEF LinkInv, Owned
<1>4. \A i \in 1..Len(jobs) :
        /\ items[jobs[i]].owner \in pool \ {c}
        /\ jobs[i] \in Fds(items[jobs[i]].owner)
  BY DEF LinkInv, Queued, Owned
<1>5. \A d \in Conn : conn[d].dns # "none" =>
        /\ d \in pool \ {c} /\ conn[d].client_fd \in Fds(d)
        /\ items[conn[d].client_fd].owner = d /\ items[conn[d].client_fd].interest = {}
        /\ \A g \in Fd : items[g].owner = d => g = conn[d].client_fd
  <2> SUFFICES ASSUME NEW d \in Conn, conn[d].dns # "none"
               PROVE  /\ d \in pool \ {c} /\ conn[d].client_fd \in Fds(d)
                      /\ items[conn[d].client_fd].owner = d
                      /\ items[conn[d].client_fd].interest = {}
                      /\ \A g \in Fd : items[g].owner = d => g = conn[d].client_fd
    OBVIOUS
  <2>1. /\ items[conn[d].client_fd].owner = d /\ items[conn[d].client_fd].interest = {}
        /\ \A g \in Fd : items[g].owner = d => g = conn[d].client_fd
    BY DEF LinkInv, Waiting
  <2>2. conn[d].client_fd \in Fd
    <3>1. conn[d].client_fd # NoFd
      BY DEF LinkInv, Locals, Local, Blank, NewConn
    <3> QED
      BY <3>1 DEF LinkInv, TypeOK, ConnRecord
  <2> QED
    BY <2>1, <2>2 DEF LinkInv, Owned
<1>6. ASSUME NEW S \in SUBSET Fds(c), items' = Unregister(items, S), sock' = Closed(sock, S)
      PROVE  /\ \A g \in Fd : g \in S => items'[g].owner = Nobody
             /\ \A g \in Fd \ S : items'[g] = items[g] /\ sock'[g] = sock[g]
             /\ sock'[Listener] = "listen"
  BY <1>2, <1>6, FdFacts DEF Unregister, Closed, Unused, LinkInv, Owned, TypeOK
<1>7. CASE Disconnect(c)
  <2>1. /\ items' = Unregister(items, Fds(c)) /\ sock' = Closed(sock, Fds(c))
        /\ pool' = pool \ {c} /\ conn' = [conn EXCEPT ![c] = Blank] /\ pc' = pc
    BY <1>7 DEF Disconnect
  <2>2. \A d \in Conn : conn'[d] = IF d = c THEN Blank ELSE conn[d]
    BY <2>1 DEF LinkInv, TypeOK
  <2>3. \A d \in Conn \ {c} : Fds(d)' = Fds(d)
    BY <2>2 DEF Fds
  <2>4. /\ \A g \in Fd : g \in Fds(c) => items'[g].owner = Nobody
        /\ \A g \in Fd \ Fds(c) : items'[g] = items[g] /\ sock'[g] = sock[g]
        /\ sock'[Listener] = "listen"
    BY <1>6, <2>1
  <2>5. Local(Blank) /\ Blank.dns = "none"
    BY DEF Local, Blank, NewConn, Early
  <2>6. Owned'
    <3>1. pool' \subseteq Conn \ {c} /\ Nobody \notin Conn /\ Nobody # Passive
      BY <2>1, CoreAssumption DEF LinkInv, TypeOK, Nobody, Passive
    <3>2. /\ \A g \in Fd : items'[g].owner # Nobody => sock'[g] # "free"
          /\ \A g \in Fd : items'[g].owner = Passive => g = Listener
      BY <2>4, <3>1 DEF LinkInv, Owned
    <3>3. \A g \in Fd, d \in Conn : items'[g].owner = d => d \in pool' /\ g \in Fds(d)'
      BY <2>1, <2>3, <2>4, <3>1 DEF LinkInv, Owned
    <3>4. \A d, e \in pool' : d # e => Fds(d)' \cap Fds(e)' = {}
      BY <2>1, <2>3, <3>1 DEF LinkInv, Owned
    <3>5. \A d \in pool' : \A g \in Fds(d)' : sock'[g] \notin {"free", "listen"}
      <4> SUFFICES ASSUME NEW d \in pool', NEW g \in Fds(d)'
                   PROVE  sock'[g] \notin {"free", "listen"}
        OBVIOUS
      <4>1. d \in pool /\ d \in Conn /\ g \in Fds(d) /\ g \notin Fds(c)
        BY <1>3, <2>1, <2>3, <3>1
      <4>2. g \in Fd \ Fds(c)
        BY <4>1, FdsFacts
      <4> QED
        BY <2>4, <4>1, <4>2 DEF LinkInv, Owned
    <3>6. \A d \in Conn \ pool' : conn'[d] = Blank
      BY <2>1, <2>2 DEF LinkInv, Owned
    <3> QED
      BY <2>4, <3>2, <3>3, <3>4, <3>5, <3>6 DEF Owned
  <2>7. Locals' /\ AllHandled'
    <3>1. Nobody \notin Conn
      BY CoreAssumption
    <3> QED
      BY <1>2, <2>2, <2>4, <2>5, <3>1 DEF LinkInv, Locals, AllHandled, Owned
  <2>8. Waiting'
    <3> SUFFICES ASSUME NEW d \in Conn, conn'[d].dns # "none"
                 PROVE  /\ items'[conn'[d].client_fd].owner = d
                        /\ \A g \in Fd : items'[g].owner = d => g = conn'[d].client_fd
                        /\ items'[conn'[d].client_fd].interest = {}
      BY DEF Waiting
    <3>1. d # c /\ conn'[d] = conn[d]
      BY <2>2, <2>5
    <3>2. conn[d].client_fd \in Fd \ Fds(c)
      BY <1>3, <1>5, <3>1, FdsFacts
    <3>3. \A g \in Fd : items'[g].owner = d => items[g].owner = d
      BY <2>4, CoreAssumption
    <3> QED
      BY <1>5, <2>4, <3>1, <3>2, <3>3
  <2>9. Queued'
    <3>1. \A i \in 1..Len(jobs) : jobs[i] \in Fd \ Fds(c)
      BY <1>3, <1>4 DEF LinkInv, Queued
    <3> QED
      BY <1>4, <2>2, <2>4, <3>1 DEF LinkInv, Queued
  <2> QED
    BY <1>1, <2>6, <2>7, <2>8, <2>9 DEF LinkInv
<1>8. CASE Abort(c)
  <2> DEFINE S == {conn[c].client_fd}
  <2>1. /\ items' = Unregister(items, S) /\ sock' = Closed(sock, S)
        /\ pool' = pool /\ conn' = conn /\ pc' = "aborted"
    BY <1>8 DEF Abort
  <2>2. S \subseteq Fds(c)
    OBVIOUS
  <2> HIDE DEF S
  <2>3. \A d \in Conn : Fds(d)' = Fds(d)
    BY <2>1 DEF Fds
  <2>4. /\ \A g \in Fd : g \in S => items'[g].owner = Nobody
        /\ \A g \in Fd \ S : items'[g] = items[g] /\ sock'[g] = sock[g]
        /\ sock'[Listener] = "listen"
    BY <1>6, <2>1, <2>2
  <2>5. Owned'
    <3>1. pool \subseteq Conn /\ Nobody \notin Conn /\ Nobody # Passive
      BY CoreAssumption DEF LinkInv, TypeOK, Nobody, Passive
    <3> QED
      BY <2>1, <2>3, <2>4, <3>1 DEF LinkInv, Owned
  <2>6. Locals' /\ AllHandled'
    <3>1. Nobody \notin Conn
      BY CoreAssumption
    <3> QED
      BY <2>1, <2>4, <3>1 DEF LinkInv, Locals, AllHandled
  <2>7. Waiting'
    <3> SUFFICES ASSUME NEW d \in Conn, conn[d].dns # "none"
                 PROVE  /\ items'[conn[d].client_fd].owner = d
                        /\ \A g \in Fd : items'[g].owner = d => g = conn[d].client_fd
      BY <2>1 DEF Waiting
    <3>1. conn[d].client_fd \in Fd \ S
      BY <1>3, <1>5, <2>2, FdsFacts
    <3>2. \A g \in Fd : items'[g].owner = d => items[g].owner = d
      BY <2>4, CoreAssumption
    <3> QED
      BY <1>5, <2>4, <3>1, <3>2
  <2>8. Queued'
    <3>1. \A i \in 1..Len(jobs) : jobs[i] \in Fd \ S
      BY <1>3, <1>4, <2>2 DEF LinkInv, Queued
    <3> QED
      BY <1>4, <2>1, <2>4, <3>1 DEF LinkInv, Queued
  <2> QED
    BY <1>1, <2>5, <2>6, <2>7, <2>8 DEF LinkInv
<1> QED
  BY <1>7, <1>8 DEF Done

\* Until its request was read a connection has one descriptor: a callback that
\* gives it another state and interest leaves everything in its place.
LEMMA EarlyLinks ==
  ASSUME LinkInv, NEW fd \in Fd, NEW c \in Conn, items[fd].owner = c,
         ReadEvent(fd) \/ WriteEvent(fd), conn[c].st \in Early,
         NEW v \in ConnRecord, v.client_fd = conn[c].client_fd,
         v.origin_fd = conn[c].origin_fd, v.st # "COPY",
         NEW i \in Interest, Handled(v, i), Becomes(c, v, SetInterest(items, fd, i)),
         v.dns # "none" => v.st = "ORIGIN_CONNECT" /\ i = {}
  PROVE  LinkInv'
<1> DEFINE t == SetInterest(items, fd, i)
<1>1. /\ pc = "iterate" /\ c \in pool /\ fd \in Fds(c) /\ conn[c].dns = "none"
      /\ jobs' = jobs /\ ready' \in ReadyType
  BY EventOf
<1>2. conn[c].origin_fd = NoFd
  BY DEF LinkInv, Locals, Local
<1>3. Fds(c) = {fd} /\ conn[c].client_fd = fd
  BY <1>1, <1>2 DEF Fds
<1>4. \A g \in Fd : items[g].owner = c => g = fd
  BY <1>3 DEF LinkInv, Owned
<1>5. items \in Table /\ Retuned(c, items, items)
  BY DEF LinkInv, TypeOK, Table, Retuned
<1>6. t \in Table /\ Retuned(c, items, t) /\ t[fd].interest = i
  BY <1>1, <1>5, RetuneSet
<1>7. fd # NoFd
  BY CoreAssumption DEF Fd, NoFd
<1>8. Local(v)
  BY <1>2, <1>3, <1>7 DEF Local
<1> HIDE DEF t
<1>9. /\ \A g \in Fd : items[g].owner = c => Handled(v, t[g].interest)
      /\ v.dns # "none" => /\ items[v.client_fd].owner = c /\ t[v.client_fd].interest = {}
                           /\ \A g \in Fd : items[g].owner = c => g = v.client_fd
  BY <1>3, <1>4, <1>6
<1>10. Becomes(c, v, t)
  BY DEF t
<1> QED
  BY <1>1, <1>6, <1>8, <1>9, <1>10, KeepsLinks

\* socksv5_done from the callback of an event.
LEMMA EventDone ==
  ASSUME LinkInv, NEW fd \in Fd, NEW c \in Conn, items[fd].owner = c,
         ReadEvent(fd) \/ WriteEvent(fd), Done(c)
  PROVE  LinkInv'
BY EventOf, DoneLinks

\* The negotiation, and the requests that need no connect().
LEMMA HandshakeLinks ==
  ASSUME LinkInv, NEW fd \in Fd, NEW c \in Conn
  PROVE  /\ \A m \in {"noauth", "userpass", "none"} : GreetingRead(c, fd, m) => LinkInv'
         /\ GreetingWrite(c, fd) => LinkInv'
         /\ \A ok \in BOOLEAN : AuthRead(c, fd, ok) => LinkInv'
         /\ AuthWrite(c, fd) => LinkInv'
         /\ RequestReadError(c, fd) => LinkInv'
         /\ RequestReadFqdn(c, fd) => LinkInv'
<1>0. conn[c] \in ConnRecord
  BY DEF LinkInv, TypeOK
<1>a. {} \in Interest /\ {"OP_READ"} \in Interest /\ {"OP_WRITE"} \in Interest
  BY FdFacts
<1>b. /\ \A v : v.st \in ReadStates => Handled(v, {"OP_READ"})
      /\ \A v : v.st \in WriteStates => Handled(v, {"OP_WRITE"})
      /\ \A v : Handled(v, {})
  BY DEF Handled
<1>1. ASSUME NEW m \in {"noauth", "userpass", "none"}, GreetingRead(c, fd, m) PROVE LinkInv'
  <2> DEFINE v == [conn[c] EXCEPT !.st = "GREETING_WRITE", !.method = m]
  <2>1. /\ ReadEvent(fd) /\ items[fd].owner = c /\ conn[c].st = "GREETING_READ"
        /\ Becomes(c, v, SetInterest(items, fd, {"OP_WRITE"}))
    BY <1>1 DEF GreetingRead, Serves
  <2>2. /\ v \in ConnRecord /\ v.client_fd = conn[c].client_fd
        /\ v.origin_fd = conn[c].origin_fd /\ v.dns = conn[c].dns /\ v.st = "GREETING_WRITE"
    BY <1>0 DEF ConnRecord, State
  <2>3. conn[c].dns = "none"
    BY <2>1, EventOf
  <2> HIDE DEF v
  <2> QED
    BY <1>a, <1>b, <2>1, <2>2, <2>3, EarlyLinks DEF Early, WriteStates
<1>2. ASSUME NEW q \in {"AUTH_READ", "REQUEST_READ"}, ReadEvent(fd) \/ WriteEvent(fd),
             items[fd].owner = c, conn[c].st \in Early,
             Becomes(c, [conn[c] EXCEPT !.st = q], SetInterest(items, fd, {"OP_READ"}))
      PROVE  LinkInv'
  <2> DEFINE v == [conn[c] EXCEPT !.st = q]
  <2>1. /\ v \in ConnRecord /\ v.client_fd = conn[c].client_fd
        /\ v.origin_fd = conn[c].origin_fd /\ v.dns = conn[c].dns /\ v.st = q
    BY <1>0 DEF ConnRecord, State
  <2>2. conn[c].dns = "none"
    BY <1>2, EventOf
  <2>3. Becomes(c, v, SetInterest(items, fd, {"OP_READ"}))
    BY <1>2
  <2> HIDE DEF v
  <2>4. Handled(v, {"OP_READ"}) /\ v.st # "COPY"
    BY <1>b, <2>1 DEF ReadStates
  <2> QED
    BY <1>a, <1>2, <2>1, <2>2, <2>3, <2>4, EarlyLinks
<1>3. ASSUME GreetingWrite(c, fd) PROVE LinkInv'
  <2>1. WriteEvent(fd) /\ items[fd].owner = c /\ conn[c].st \in Early
    BY <1>3 DEF GreetingWrite, Serves, Early
  <2>2. \/ \E q \in {"AUTH_READ", "REQUEST_READ"} :
             Becomes(c, [conn[c] EXCEPT !.st = q], SetInterest(items, fd, {"OP_READ"}))
        \/ Done(c)
    BY <1>3 DEF GreetingWrite
  <2> QED
    BY <1>2, <2>1, <2>2, EventDone
<1>4. ASSUME NEW ok \in BOOLEAN, AuthRead(c, fd, ok) PROVE LinkInv'
  <2> DEFINE v == [conn[c] EXCEPT !.st = "AUTH_WRITE", !.authed = ok]
  <2>1. /\ ReadEvent(fd) /\ items[fd].owner = c /\ conn[c].st = "AUTH_READ"
        /\ Becomes(c, v, SetInterest(items, fd, {"OP_WRITE"}))
    BY <1>4 DEF AuthRead, Serves
  <2>2. /\ v \in ConnRecord /\ v.client_fd = conn[c].client_fd
        /\ v.origin_fd = conn[c].origin_fd /\ v.dns = conn[c].dns /\ v.st = "AUTH_WRITE"
    BY <1>0 DEF ConnRecord, State
  <2>3. conn[c].dns = "none"
    BY <2>1, EventOf
  <2> HIDE DEF v
  <2> QED
    BY <1>a, <1>b, <2>1, <2>2, <2>3, EarlyLinks DEF Early, WriteStates
<1>5. ASSUME AuthWrite(c, fd) PROVE LinkInv'
  <2>1. WriteEvent(fd) /\ items[fd].owner = c /\ conn[c].st \in Early
    BY <1>5 DEF AuthWrite, Serves, Early
  <2>2. \/ Becomes(c, [conn[c] EXCEPT !.st = "REQUEST_READ"], SetInterest(items, fd, {"OP_READ"}))
        \/ Done(c)
    BY <1>5 DEF AuthWrite
  <2> QED
    BY <1>2, <2>1, <2>2, EventDone
<1>6. ASSUME RequestReadError(c, fd) PROVE LinkInv'
  <2> DEFINE v == [conn[c] EXCEPT !.st = "REQUEST_WRITE", !.reply = "failure"]
  <2>1. /\ ReadEvent(fd) /\ items[fd].owner = c /\ conn[c].st = "REQUEST_READ"
        /\ Becomes(c, v, SetInterest(items, fd, {"OP_WRITE"}))
    BY <1>6 DEF RequestReadError, Serves
  <2>2. /\ v \in ConnRecord /\ v.client_fd = conn[c].client_fd
        /\ v.origin_fd = conn[c].origin_fd /\ v.dns = conn[c].dns /\ v.st = "REQUEST_WRITE"
    BY <1>0 DEF ConnRecord, State
  <2>3. conn[c].dns = "none"
    BY <2>1, EventOf
  <2> HIDE DEF v
  <2> QED
    BY <1>a, <1>b, <2>1, <2>2, <2>3, EarlyLinks DEF Early, WriteStates
<1>7. ASSUME RequestReadFqdn(c, fd) PROVE LinkInv'
  <2> DEFINE v == [conn[c] EXCEPT !.st = "ORIGIN_CONNECT", !.dns = "running"]
  <2>1. /\ ReadEvent(fd) /\ items[fd].owner = c /\ conn[c].st = "REQUEST_READ"
        /\ Becomes(c, v, SetInterest(items, fd, {}))
    BY <1>7 DEF RequestReadFqdn, Serves
  <2>2. /\ v \in ConnRecord /\ v.client_fd = conn[c].client_fd
        /\ v.origin_fd = conn[c].origin_fd /\ v.st = "ORIGIN_CONNECT"
    BY <1>0 DEF ConnRecord, State
  <2> HIDE DEF v
  <2> QED
    BY <1>a, <1>b, <2>1, <2>2, EarlyLinks DEF Early
<1> QED
  BY <1>1, <1>3, <1>4, <1>5, <1>6, <1>7

\* The outcome of the connect and the reply: nothing is registered or closed,
\* and a state that only writes leads to another one, or to the tunnel.
LEMMA ReplyLinks ==
  ASSUME LinkInv, NEW fd \in Fd, NEW c \in Conn
  PROVE  /\ VerifyConnection(c, fd) => LinkInv'
         /\ \A left \in Leftover : RequestWrite(c, fd, left) => LinkInv'
<1>0. conn[c] \in ConnRecord /\ Local(conn[c]) /\ items \in Table /\ Retuned(c, items, items)
  BY DEF LinkInv, TypeOK, Locals, Table, Retuned
<1>a. {} \in Interest /\ {"OP_READ"} \in Interest /\ {"OP_WRITE"} \in Interest
  BY FdFacts
<1>1. ASSUME VerifyConnection(c, fd) PROVE LinkInv'
  <2> DEFINE re == IF sock[conn[c].origin_fd] = "refused" THEN "failure" ELSE "SUCCEDED"
             v == [conn[c] EXCEPT !.st = "REQUEST_WRITE", !.reply = re]
             muted == SetInterest(items, fd, {})
             t == SetInterest(muted, conn[c].client_fd, {"OP_WRITE"})
  <2>1. WriteEvent(fd) /\ items[fd].owner = c /\ conn[c].st = "ORIGIN_CONNECT" /\ Becomes(c, v, t)
    BY <1>1 DEF VerifyConnection, Serves
  <2>2. /\ v \in ConnRecord /\ v.client_fd = conn[c].client_fd /\ v.st = "REQUEST_WRITE"
        /\ v.origin_fd = conn[c].origin_fd /\ v.dns = conn[c].dns
    <3>1. re \in {"SUCCEDED", "failure"}
      OBVIOUS
    <3> HIDE DEF re
    <3> QED
      BY <1>0, <3>1 DEF ConnRecord, State
  <2> HIDE DEF v
  <2>3. /\ pc = "iterate" /\ c \in pool /\ fd \in Fds(c) /\ conn[c].client_fd \in Fds(c)
        /\ conn[c].dns = "none" /\ jobs' = jobs /\ ready' \in ReadyType
    BY <2>1, EventOf
  <2>4. /\ muted \in Table /\ Retuned(c, items, muted) /\ muted[fd].interest = {}
        /\ \A g \in Fd \ {fd} : muted[g] = items[g]
    BY <1>0, <1>a, <2>3, RetuneSet
  <2> HIDE DEF muted
  <2>5. /\ t \in Table /\ Retuned(c, items, t) /\ t[conn[c].client_fd].interest = {"OP_WRITE"}
        /\ \A g \in Fd \ {conn[c].client_fd} : t[g] = muted[g]
    <3>1. t = SetInterest(muted, conn[c].client_fd, {"OP_WRITE"})
      OBVIOUS
    <3>2. /\ c \in pool /\ conn[c].client_fd \in Fds(c) /\ {"OP_WRITE"} \in Interest
          /\ muted \in Table /\ Retuned(c, items, muted)
      BY <1>a, <2>3, <2>4
    <3> HIDE DEF t
    <3> QED
      BY <3>1, <3>2, RetuneSet
  <2> HIDE DEF t
  <2>6. \A g \in Fd : items[g].owner = c => Handled(v, t[g].interest)
    <3> SUFFICES ASSUME NEW g \in Fd, items[g].owner = c PROVE "OP_READ" \notin t[g].interest
      BY <2>2 DEF Handled, WriteStates
    <3>1. "OP_READ" \notin items[g].interest
      BY <2>1 DEF LinkInv, AllHandled, Handled, ReadStates
    <3> QED
      BY <2>4, <2>5, <3>1
  <2>7. Local(v)
    BY <1>0, <2>1, <2>2, <2>3 DEF Local, Early, Blank, NewConn
  <2> QED
    BY <2>1, <2>2, <2>3, <2>5, <2>6, <2>7, KeepsLinks
<1>2. ASSUME NEW left \in Leftover, RequestWrite(c, fd, left) PROVE LinkInv'
  <2> DEFINE v == [conn[c] EXCEPT !.st = "COPY", !.flags = Flag, !.rb = left]
             own == SetInterest(items, fd, {"OP_READ"})
             t == SetInterest(own, conn[c].origin_fd, {"OP_READ"})
  <2>1. /\ WriteEvent(fd) /\ items[fd].owner = c /\ conn[c].st = "REQUEST_WRITE"
        /\ \/ Used(items, conn[c].origin_fd) /\ Becomes(c, v, t)
           \/ Done(c)
    BY <1>2 DEF RequestWrite, Serves
  <2>2. CASE Done(c)
    BY <2>1, <2>2, EventDone
  <2>3. CASE Used(items, conn[c].origin_fd) /\ Becomes(c, v, t)
    <3>1. /\ v \in ConnRecord /\ v.client_fd = conn[c].client_fd /\ v.st = "COPY"
          /\ v.origin_fd = conn[c].origin_fd /\ v.dns = conn[c].dns
      <4>1. left \in BOOLEAN
        BY CoreAssumption
      <4> QED
        BY <1>0, <4>1 DEF ConnRecord, State
    <3> HIDE DEF v
    <3>2. /\ pc = "iterate" /\ c \in pool /\ fd \in Fds(c) /\ conn[c].client_fd \in Fds(c)
          /\ conn[c].dns = "none" /\ jobs' = jobs /\ ready' \in ReadyType
      BY <2>1, EventOf
    <3>3. conn[c].origin_fd # NoFd
      BY <2>3 DEF Used, ValidFd, NoFd
    <3>4. conn[c].origin_fd \in Fds(c)
      BY <3>3 DEF Fds
    <3>5. own \in Table /\ Retuned(c, items, own)
      BY <1>0, <1>a, <3>2, RetuneSet
    <3> HIDE DEF own
    <3>6. t \in Table /\ Retuned(c, items, t)
      BY <1>a, <3>2, <3>4, <3>5, RetuneSet
    <3> HIDE DEF t
    <3>7. \A i : Handled(v, i)
      BY <3>1 DEF Handled, ReadStates, WriteStates
    <3>8. Local(v)
      BY <1>0, <2>1, <3>1, <3>2, <3>3 DEF Local, Early, Blank, NewConn
    <3>9. Becomes(c, v, t)
      BY <2>3 DEF t, v
    <3> QED
      BY <3>1, <3>2, <3>6, <3>7, <3>8, <3>9, KeepsLinks
  <2> QED
    BY <2>1, <2>2, <2>3
<1> QED
  BY <1>1, <1>2

\* The other side of a tunnel is the descriptor its uint8_t stands for.
LEMMA PeerIsOwn ==
  ASSUME WideFd, LinkInv, NEW c \in Conn, NEW fd \in Fds(c), conn[c].st = "COPY"
  PROVE  Ends(c, fd).peer \in Fds(c)
<1>1. conn[c].origin_fd # NoFd
  BY DEF LinkInv, Locals, Local
<1>2. conn[c].origin_fd \in Fds(c) /\ conn[c].client_fd \in Fds(c)
  BY <1>1, FdsFacts DEF Fds
<1>3. /\ conn[c].origin_fd % FdMod = conn[c].origin_fd
      /\ conn[c].client_fd % FdMod = conn[c].client_fd
  BY <1>2, FdsFacts, FitsInByte
<1>4. Ends(c, fd).peer \in {conn[c].origin_fd % FdMod, conn[c].client_fd % FdMod}
  BY DEF Ends
<1> QED
  BY <1>2, <1>3, <1>4

\* A step of a tunnel that stays one: whatever it is of interest for has a
\* handler, and its interests are of its own two descriptors.
LEMMA TunnelLinks ==
  ASSUME LinkInv, NEW fd \in Fd, NEW c \in Conn, items[fd].owner = c,
         ReadEvent(fd) \/ WriteEvent(fd), conn[c].st = "COPY",
         NEW v \in ConnRecord, v.client_fd = conn[c].client_fd,
         v.origin_fd = conn[c].origin_fd, v.st = "COPY", v.dns = conn[c].dns,
         NEW t \in Table, Retuned(c, items, t), Becomes(c, v, t)
  PROVE  LinkInv'
<1>1. /\ pc = "iterate" /\ c \in pool /\ conn[c].dns = "none"
      /\ jobs' = jobs /\ ready' \in ReadyType
  BY EventOf
<1>2. Local(v)
  BY <1>1 DEF LinkInv, Locals, Local, Early, Blank, NewConn
<1>3. \A i : Handled(v, i)
  BY DEF Handled, ReadStates, WriteStates
<1> QED
  BY <1>1, <1>2, <1>3, KeepsLinks

LEMMA CopyLinks ==
  ASSUME WideFd, LinkInv, NEW fd \in Fd, NEW c \in Conn
  PROVE  /\ CopyRead(c, fd) => LinkInv'
         /\ CopyEof(c, fd) => LinkInv'
         /\ CopyWrite(c, fd) => LinkInv'
         /\ CopyWritePart(c, fd) => LinkInv'
<1> DEFINE e == Ends(c, fd)
           Same(v) == /\ v \in ConnRecord /\ v.client_fd = conn[c].client_fd
                      /\ v.origin_fd = conn[c].origin_fd /\ v.st = conn[c].st
                      /\ v.dns = conn[c].dns
           Drop(op) == Reduction(items, fd, op)
<1>0. /\ conn[c] \in ConnRecord /\ items \in Table /\ Retuned(c, items, items)
      /\ e.reads \in {"rb", "wb"} /\ e.writes \in {"rb", "wb"}
  BY EndsType DEF LinkInv, TypeOK, Table, Retuned
<1>1. /\ Same(conn[c])
      /\ \A k \in {"rb", "wb"}, b \in BOOLEAN : Same([conn[c] EXCEPT ![k] = b])
      /\ \A x \in SUBSET Flag : Same([conn[c] EXCEPT !.flags = x])
      /\ \A k \in {"rb", "wb"}, x \in SUBSET Flag : Same([conn[c] EXCEPT ![k] = FALSE, !.flags = x])
  <2>1. \A x \in SUBSET Flag : Same([conn[c] EXCEPT !.flags = x])
    BY <1>0 DEF ConnRecord
  <2>2. ASSUME NEW b \in BOOLEAN
        PROVE  Same([conn[c] EXCEPT !.rb = b]) /\ Same([conn[c] EXCEPT !.wb = b])
    BY <1>0 DEF ConnRecord
  <2>3. ASSUME NEW k \in {"rb", "wb"}, NEW b \in BOOLEAN PROVE Same([conn[c] EXCEPT ![k] = b])
    <3>1. \/ [conn[c] EXCEPT ![k] = b] = [conn[c] EXCEPT !.rb = b]
          \/ [conn[c] EXCEPT ![k] = b] = [conn[c] EXCEPT !.wb = b]
      BY <2>3
    <3> HIDE DEF Same
    <3> QED
      BY <2>2, <3>1
  <2>4. ASSUME NEW x \in SUBSET Flag
        PROVE  /\ Same([conn[c] EXCEPT !.rb = FALSE, !.flags = x])
               /\ Same([conn[c] EXCEPT !.wb = FALSE, !.flags = x])
    BY <1>0 DEF ConnRecord
  <2>5. ASSUME NEW k \in {"rb", "wb"}, NEW x \in SUBSET Flag
        PROVE  Same([conn[c] EXCEPT ![k] = FALSE, !.flags = x])
    <3>1. \/ [conn[c] EXCEPT ![k] = FALSE, !.flags = x] = [conn[c] EXCEPT !.rb = FALSE, !.flags = x]
          \/ [conn[c] EXCEPT ![k] = FALSE, !.flags = x] = [conn[c] EXCEPT !.wb = FALSE, !.flags = x]
      BY <2>5
    <3> HIDE DEF Same
    <3> QED
      BY <2>4, <3>1
  <2>6. Same(conn[c])
    BY <1>0
  <2> HIDE DEF Same
  <2> QED
    BY <2>1, <2>3, <2>5, <2>6
<1>2. ASSUME ReadEvent(fd) \/ WriteEvent(fd), items[fd].owner = c, conn[c].st = "COPY"
      PROVE  /\ \A op \in {"OP_READ", "OP_WRITE"} :
                  /\ Drop(op) \in Table /\ Retuned(c, items, Drop(op))
                  /\ Additive(items, e.peer, op) \in Table
                  /\ Retuned(c, items, Additive(items, e.peer, op))
             /\ \A op, q \in {"OP_READ", "OP_WRITE"} :
                  /\ Additive(Drop(op), e.peer, q) \in Table
                  /\ Retuned(c, items, Additive(Drop(op), e.peer, q))
  <2>1. c \in pool /\ fd \in Fds(c)
    BY <1>2, EventOf
  <2>2. e.peer \in Fds(c)
    BY <1>2, <2>1, PeerIsOwn
  <2>3. ASSUME NEW op \in {"OP_READ", "OP_WRITE"}
        PROVE  /\ Drop(op) \in Table /\ Retuned(c, items, Drop(op))
               /\ Additive(items, e.peer, op) \in Table
               /\ Retuned(c, items, Additive(items, e.peer, op))
    BY <1>0, <2>1, <2>2, RetuneStep
  <2> HIDE DEF Drop, e
  <2>4. ASSUME NEW op \in {"OP_READ", "OP_WRITE"}, NEW q \in {"OP_READ", "OP_WRITE"}
        PROVE  /\ Additive(Drop(op), e.peer, q) \in Table
               /\ Retuned(c, items, Additive(Drop(op), e.peer, q))
    BY <2>1, <2>2, <2>3, RetuneStep
  <2> QED
    BY <2>3, <2>4
<1>3. ASSUME ReadEvent(fd) \/ WriteEvent(fd), items[fd].owner = c, conn[c].st = "COPY",
             NEW v, Same(v), NEW t \in Table, Retuned(c, items, t), Becomes(c, v, t)
      PROVE  LinkInv'
  BY <1>3, TunnelLinks
<1>4. ASSUME CopyRead(c, fd) PROVE LinkInv'
  <2> DEFINE v == [conn[c] EXCEPT ![e.reads] = TRUE]
             t == Additive(Drop("OP_READ"), e.peer, "OP_WRITE")
  <2>1. /\ ReadEvent(fd) /\ items[fd].owner = c /\ conn[c].st = "COPY"
        /\ Becomes(c, v, t) \/ Done(c)
    BY <1>4 DEF CopyRead, Serves
  <2>2. Same(v)
    BY <1>0, <1>1
  <2> HIDE DEF Same, v, Drop, e
  <2>3. t \in Table /\ Retuned(c, items, t)
    BY <1>2, <2>1
  <2> HIDE DEF t
  <2> QED
    BY <1>3, <2>1, <2>2, <2>3, EventDone
<1>5. ASSUME CopyEof(c, fd) PROVE LinkInv'
  <2> DEFINE flags == conn[c].flags \ ({"reading_client", "reading_origin", e.mine}
                        \cup (IF conn[c][e.reads] THEN {} ELSE {e.theirs}))
             v == [conn[c] EXCEPT !.flags = flags]
  <2>1. /\ ReadEvent(fd) /\ items[fd].owner = c /\ conn[c].st = "COPY"
        /\ Becomes(c, v, Drop("OP_READ")) \/ Done(c)
    BY <1>5 DEF CopyEof, Serves
  <2>2. flags \in SUBSET Flag
    BY <1>0 DEF ConnRecord
  <2> HIDE DEF flags
  <2>3. Same(v)
    BY <1>1, <2>2
  <2> HIDE DEF Same, v, Drop, e
  <2>4. Drop("OP_READ") \in Table /\ Retuned(c, items, Drop("OP_READ"))
    BY <1>2, <2>1
  <2> QED
    BY <1>3, <2>1, <2>3, <2>4, EventDone
<1>6. ASSUME CopyWrite(c, fd) PROVE LinkInv'
  <2> DEFINE flags == IF e.source \in conn[c].flags THEN conn[c].flags
                      ELSE conn[c].flags \ {e.mine}
             v == [conn[c] EXCEPT ![e.writes] = FALSE]
             w == [conn[c] EXCEPT ![e.writes] = FALSE, !.flags = flags]
             sent == Drop("OP_WRITE")
             again == Additive(sent, e.peer, "OP_READ")
  <2>1. /\ WriteEvent(fd) /\ items[fd].owner = c /\ conn[c].st = "COPY"
        /\ Becomes(c, v, again) \/ Becomes(c, w, sent) \/ Done(c)
    BY <1>6 DEF CopyWrite, Serves
  <2>2. flags \in SUBSET Flag
    BY <1>0 DEF ConnRecord
  <2> HIDE DEF flags
  <2>3. Same(v) /\ Same(w)
    BY <1>0, <1>1, <2>2
  <2> HIDE DEF Same, v, w, Drop, e
  <2>4. /\ sent \in Table /\ Retuned(c, items, sent)
        /\ again \in Table /\ Retuned(c, items, again)
    BY <1>2, <2>1
  <2> HIDE DEF sent, again
  <2> QED
    BY <1>3, <2>1, <2>3, <2>4, EventDone
<1>7. ASSUME CopyWritePart(c, fd) PROVE LinkInv'
  <2> DEFINE again == Additive(items, e.peer, "OP_READ")
  <2>1. /\ WriteEvent(fd) /\ items[fd].owner = c /\ conn[c].st = "COPY"
        /\ Becomes(c, conn[c], again) \/ Becomes(c, conn[c], items)
    BY <1>7 DEF CopyWritePart, Serves
  <2> HIDE DEF Same, Drop, e
  <2>2. again \in Table /\ Retuned(c, items, again)
    BY <1>2, <2>1
  <2> HIDE DEF again
  <2> QED
    BY <1>0, <1>1, <1>3, <2>1, <2>2
<1> QED
  BY <1>4, <1>5, <1>6, <1>7

-----------------------------------------------------------------------------
(* The steps that open descriptors *)

\* A step of c that changes its struct, its items and at most the descriptor
\* it holds from then on as its origin's, which no other connection has.
LEMMA OriginLinks ==
  ASSUME LinkInv, NEW c \in Conn, c \in pool, pc \in {"iterate", "notify"},
         conn[c].client_fd \in Fds(c),
         \A g \in Fd : items[g].owner = c => g = conn[c].client_fd,
         NEW v \in ConnRecord, v.client_fd = conn[c].client_fd, Local(v),
         v.origin_fd # Listener, \A d \in pool \ {c} : v.origin_fd \notin Fds(d),
         conn' = [conn EXCEPT ![c] = v], pool' = pool,
         \A g \in Fd : items[g].owner \in Conn \ {c} => items'[g] = items[g],
         \A g \in Fd : items'[g].owner = items[g].owner \/ (g = v.origin_fd /\ items'[g].owner = c),
         \A g \in Fd : items'[g].owner = c => Handled(v, items'[g].interest),
         \A g \in Fd \ {v.origin_fd} : sock'[g] = sock[g],
         v.origin_fd \in Fd => sock'[v.origin_fd] \notin {"free", "listen"}
  PROVE  Owned' /\ Locals' /\ AllHandled'
<1> DEFINE f == v.origin_fd
<1>1. \A d \in Conn : conn'[d] = IF d = c THEN v ELSE conn[d]
  BY DEF LinkInv, TypeOK
<1>2. \A d \in Conn \ {c} : Fds(d)' = Fds(d)
  BY <1>1 DEF Fds
<1>3. Fds(c)' = {conn[c].client_fd, f} \ {NoFd}
  BY <1>1 DEF Fds
<1>4. pool \subseteq Conn /\ Nobody \notin Conn /\ Passive \notin Conn /\ Passive # Nobody
  BY CoreAssumption DEF LinkInv, TypeOK, Nobody, Passive
<1>5. Locals' /\ AllHandled'
  BY <1>1 DEF LinkInv, Locals, AllHandled
<1>6. conn[c].client_fd \in Fd /\ conn[c].client_fd # NoFd
  BY FdsFacts DEF Fds
<1>7. Owned'
  <2>1. sock'[Listener] = "listen"
    BY FdFacts DEF LinkInv, Owned
  <2>2. ASSUME NEW g \in Fd, items'[g].owner # Nobody PROVE sock'[g] # "free"
    BY <2>2 DEF LinkInv, Owned
  <2>3. ASSUME NEW g \in Fd, items'[g].owner = Passive PROVE g = Listener
    BY <1>4, <2>3 DEF LinkInv, Owned
  <2>4. ASSUME NEW g \in Fd, NEW d \in Conn, items'[g].owner = d
        PROVE  d \in pool' /\ g \in Fds(d)'
    <3>1. CASE d = c
      <4>1. g \in {conn[c].client_fd, f} /\ g # NoFd
        BY <2>4, <3>1, CoreAssumption DEF Fd, NoFd
      <4> QED
        BY <1>3, <3>1, <4>1
    <3>2. CASE d # c
      BY <1>2, <2>4, <3>2 DEF LinkInv, Owned
    <3> QED
      BY <3>1, <3>2
  <2>5. ASSUME NEW d \in pool, NEW e \in pool, d # e PROVE Fds(d)' \cap Fds(e)' = {}
    <3>1. ASSUME NEW b \in pool \ {c} PROVE Fds(c)' \cap Fds(b)' = {}
      BY <1>2, <1>3, <1>4 DEF LinkInv, Owned
    <3>2. CASE d # c /\ e # c
      BY <1>2, <1>4, <2>5, <3>2 DEF LinkInv, Owned
    <3> QED
      BY <2>5, <3>1, <3>2
  <2>6. ASSUME NEW d \in pool, NEW g \in Fds(d)' PROVE sock'[g] \notin {"free", "listen"}
    <3>1. CASE g = f
      <4>1. g \in Fd
        <5>1. g # NoFd
          BY DEF Fds
        <5> QED
          BY <3>1, <5>1 DEF ConnRecord
      <4> QED
        BY <3>1, <4>1
    <3>2. CASE g # f
      <4>1. g \in Fds(d)
        <5>1. CASE d = c
          BY <1>3, <3>2, <5>1
        <5>2. CASE d # c
          BY <1>2, <1>4, <5>2
        <5> QED
          BY <5>1, <5>2
      <4>2. g \in Fd
        BY <1>4, <4>1, FdsFacts
      <4> QED
        BY <3>2, <4>1, <4>2 DEF LinkInv, Owned
    <3> QED
      BY <3>1, <3>2
  <2>7. \A d \in Conn \ pool' : conn'[d] = Blank
    BY <1>1 DEF LinkInv, Owned
  <2> QED
    BY <2>1, <2>2, <2>3, <2>4, <2>5, <2>6, <2>7 DEF Owned
<1> QED
  BY <1>5, <1>7

\* A new descriptor is held by no connection and registered by nobody.
LEMMA NewFdFacts ==
  ASSUME LinkInv, pc # "aborted", NEW f \in NewFd, f # NoFd
  PROVE  /\ f \in Fd /\ f # Listener /\ sock[f] = "free" /\ items[f].owner = Nobody
         /\ \A d \in pool : f \notin Fds(d)
<1>1. f \in Fd /\ sock[f] = "free"
  BY DEF NewFd, FreeFds
<1> QED
  BY <1>1 DEF LinkInv, Owned

\* connect_through_ip opens at most the descriptor f, and registers that one
\* or lets the client write; the rest of the table is as it was.
LEMMA ConnectEffect ==
  ASSUME LinkInv, NEW c \in Conn, c \in pool, pc # "aborted",
         conn[c].client_fd \in Fds(c),
         \A g \in Fd : items[g].owner = c => g = conn[c].client_fd,
         NEW t \in Table, Retuned(c, items, t),
         NEW f \in NewFd, NEW o \in ConnectOutcomes, NEW r, r = ConnectThroughIp(c, t, f, o)
  PROVE  /\ r.ret \in {"REQUEST_WRITE", "ORIGIN_CONNECT", "ERROR"}
         /\ \A g \in Fd : items[g].owner \in Conn \ {c} => r.items[g] = items[g]
         /\ \A g \in Fd : r.items[g].owner = items[g].owner \/ (g = f /\ r.items[g].owner = c)
         /\ \A g \in Fd \ {f} : r.sock[g] = sock[g]
         /\ f \in Fd => r.sock[f] \notin {"free", "listen"}
         /\ r.ret = "REQUEST_WRITE" => \A g \in Fd :
              /\ r.items[g].owner = items[g].owner
              /\ r.items[g].owner = c => r.items[g].interest = {"OP_WRITE"}
         /\ r.ret = "ORIGIN_CONNECT" => \A g \in Fd : r.items[g].owner = c =>
              \/ r.items[g].interest = {"OP_WRITE"}
              \/ items[g].owner = c /\ r.items[g].interest = t[g].interest
         /\ r.ret = "ERROR" => r.items = t
<1> DEFINE toClient == SetInterest(t, conn[c].client_fd, {"OP_WRITE"})
<1>1. {"OP_WRITE"} \in Interest /\ o \in {"inprogress", "immediate", "error"}
  BY FdFacts, CoreAssumption
<1>2. /\ Retuned(c, items, toClient) /\ toClient[conn[c].client_fd].interest = {"OP_WRITE"}
  BY <1>1, RetuneSet
<1>3. \A g \in Fd : items[g].owner = c => toClient[g].interest = {"OP_WRITE"}
  BY <1>2
<1>4. sock \in [Fd -> {"free", "listen", "client", "idle", "connecting", "up", "refused"}]
  BY DEF LinkInv, TypeOK
<1>5. f \notin Fd <=> f = NoFd
  BY FdFacts, CoreAssumption DEF Fd, NoFd
<1>6. /\ \A g \in Fd : items[g].owner \in Conn \ {c} => t[g] = items[g] /\ toClient[g] = items[g]
      /\ \A g \in Fd : t[g].owner = items[g].owner /\ toClient[g].owner = items[g].owner
  BY <1>2 DEF Retuned
<1>7. \A x \in {"idle", "up", "connecting"} :
        /\ \A g \in Fd \ {f} : [sock EXCEPT ![f] = x][g] = sock[g]
        /\ f \in Fd => [sock EXCEPT ![f] = x][f] \notin {"free", "listen"}
  BY <1>4
<1> HIDE DEF toClient
<1>8. CASE f = NoFd
  <2>1. r.ret = "REQUEST_WRITE" /\ r.items = toClient /\ r.sock = sock
    BY <1>8 DEF ConnectThroughIp, toClient
  <2> QED
    BY <1>3, <1>5, <1>6, <1>8, <2>1
<1>9. CASE f # NoFd /\ o = "error"
  <2>1. r.ret = "REQUEST_WRITE" /\ r.items = toClient /\ r.sock = [sock EXCEPT ![f] = "idle"]
    BY <1>9 DEF ConnectThroughIp, toClient
  <2> QED
    BY <1>3, <1>6, <1>7, <2>1
<1>10. CASE f # NoFd /\ o = "immediate"
  <2>1. r.ret = "ORIGIN_CONNECT" /\ r.items = t /\ r.sock = [sock EXCEPT ![f] = "up"]
    BY <1>10 DEF ConnectThroughIp
  <2> QED
    BY <1>6, <1>7, <2>1
<1>11. CASE f # NoFd /\ o = "inprogress" /\ CanRegister(t, f)
  <2> DEFINE u == Register(t, f, {"OP_WRITE"}, c)
  <2>1. r.ret = "ORIGIN_CONNECT" /\ r.items = u /\ r.sock = [sock EXCEPT ![f] = "connecting"]
    BY <1>11 DEF ConnectThroughIp
  <2>2. f \in Fd /\ items[f].owner = Nobody
    BY <1>11, NewFdFacts
  <2>3. /\ u[f].owner = c /\ u[f].interest = {"OP_WRITE"} /\ \A g \in Fd \ {f} : u[g] = t[g]
    BY <2>2 DEF Register, Table
  <2> HIDE DEF u
  <2>4. Nobody \notin Conn
    BY CoreAssumption
  <2> QED
    BY <1>6, <1>7, <2>1, <2>2, <2>3, <2>4
<1>12. CASE f # NoFd /\ o = "inprogress" /\ ~CanRegister(t, f)
  <2>1. r.ret = "ERROR" /\ r.items = t /\ r.sock = [sock EXCEPT ![f] = "connecting"]
    BY <1>12 DEF ConnectThroughIp
  <2> QED
    BY <1>6, <1>7, <2>1
<1> QED
  BY <1>1, <1>8, <1>9, <1>10, <1>11, <1>12

\* Items of the other connections stay: those that wait still do, and their
\* jobs are in their place.
LEMMA OthersWait ==
  ASSUME LinkInv, TypeOK', NEW c \in Conn, conn[c].dns = "none", conn'[c].dns = "none",
         pc = "iterate", pc' = pc, jobs' = jobs,
         \A d \in Conn \ {c} : conn'[d] = conn[d],
         \A g \in Fd : items[g].owner \in Conn \ {c} => items'[g] = items[g],
         \A g \in Fd : items'[g].owner \in Conn \ {c} => items'[g].owner = items[g].owner
  PROVE  Waiting' /\ Queued'
<1>1. Waiting'
  <2> SUFFICES ASSUME NEW d \in Conn, conn'[d].dns # "none"
               PROVE  /\ items'[conn'[d].client_fd].owner = d
                      /\ \A g \in Fd : items'[g].owner = d => g = conn'[d].client_fd
                      /\ items'[conn'[d].client_fd].interest = {}
    BY DEF Waiting
  <2>1. d # c /\ conn'[d] = conn[d]
    OBVIOUS
  <2>2. /\ items[conn[d].client_fd].owner = d
        /\ \A g \in Fd : items[g].owner = d => g = conn[d].client_fd
        /\ items[conn[d].client_fd].interest = {}
    BY <2>1 DEF LinkInv, Waiting
  <2>3. conn[d].client_fd \in Fd
    <3>1. conn[d].client_fd # NoFd
      BY <2>1 DEF LinkInv, Locals, Local, Blank, NewConn
    <3> QED
      BY <3>1 DEF LinkInv, TypeOK, ConnRecord
  <2> QED
    BY <2>1, <2>2, <2>3
<1>2. Queued'
  <2>1. \A i \in 1..Len(jobs) : items[jobs[i]].owner \in Conn \ {c} /\ jobs[i] \in Fd
    BY DEF LinkInv, Queued
  <2>2. \A i \in 1..Len(jobs) : items'[jobs[i]] = items[jobs[i]]
    BY <2>1
  <2> QED
    BY <2>1, <2>2 DEF LinkInv, Queued
<1> QED
  BY <1>1, <1>2

\* A request that names an address.
LEMMA RequestIpLinks ==
  ASSUME LinkInv, NEW fd \in Fd, NEW c \in Conn, items[fd].owner = c,
         NEW f \in NewFd, NEW o \in ConnectOutcomes, RequestReadIp(c, fd, f, o)
  PROVE  LinkInv'
<1> DEFINE t == SetInterest(items, fd, {})
           r == ConnectThroughIp(c, t, f, o)
           v1 == [conn[c] EXCEPT !.st = r.ret]
           v2 == [v1 EXCEPT !.reply = r.reply]
           v == [v2 EXCEPT !.origin_fd = f]
<1>1. ReadEvent(fd) /\ conn[c].st = "REQUEST_READ"
  BY DEF RequestReadIp, Serves
<1>2. /\ pc = "iterate" /\ c \in pool /\ fd \in Fds(c) /\ conn[c].client_fd \in Fds(c)
      /\ conn[c].dns = "none" /\ jobs' = jobs /\ ready' \in ReadyType
  BY <1>1, EventOf
<1>3. conn[c] \in ConnRecord /\ conn[c].origin_fd = NoFd
  BY <1>1 DEF LinkInv, TypeOK, Locals, Local, Early
<1>4. Fds(c) = {fd} /\ conn[c].client_fd = fd
  BY <1>2, <1>3 DEF Fds
<1>5. \A g \in Fd : items[g].owner = c => g = conn[c].client_fd
  BY <1>4 DEF LinkInv, Owned
<1>6. items \in Table /\ Retuned(c, items, items) /\ {} \in Interest
  BY FdFacts DEF LinkInv, TypeOK, Table, Retuned
<1>7. t \in Table /\ Retuned(c, items, t) /\ t[fd].interest = {}
  BY <1>2, <1>6, RetuneSet
<1>8. /\ conn' = [conn EXCEPT ![c].st = r.ret, ![c].reply = r.reply, ![c].origin_fd = f]
      /\ items' = r.items /\ sock' = r.sock /\ UNCHANGED <<pool, pc>>
  BY DEF RequestReadIp
<1> HIDE DEF t
<1>9. r.reply \in {"SUCCEDED", "failure"}
  BY <1>7, ConnectType DEF LinkInv
<1>10. /\ r.ret \in {"REQUEST_WRITE", "ORIGIN_CONNECT", "ERROR"}
       /\ \A g \in Fd : items[g].owner \in Conn \ {c} => r.items[g] = items[g]
       /\ \A g \in Fd : r.items[g].owner = items[g].owner \/ (g = f /\ r.items[g].owner = c)
       /\ \A g \in Fd \ {f} : r.sock[g] = sock[g]
       /\ f \in Fd => r.sock[f] \notin {"free", "listen"}
  BY <1>2, <1>5, <1>7, ConnectEffect
<1>11. /\ r.ret = "REQUEST_WRITE" =>
            \A g \in Fd : r.items[g].owner = c => r.items[g].interest = {"OP_WRITE"}
       /\ r.ret = "ORIGIN_CONNECT" =>
            \A g \in Fd : r.items[g].owner = c =>
              \/ r.items[g].interest = {"OP_WRITE"}
              \/ items[g].owner = c /\ r.items[g].interest = t[g].interest
       /\ r.ret = "ERROR" => r.items = t
  BY <1>2, <1>5, <1>7, ConnectEffect
<1> HIDE DEF r
<1>12. conn' = [conn EXCEPT ![c] = v]
  BY <1>8 DEF LinkInv, TypeOK, ConnRecord
<1>13. /\ v \in ConnRecord /\ v.client_fd = conn[c].client_fd /\ v.origin_fd = f
       /\ v.st = r.ret /\ v.dns = conn[c].dns
  <2>1. v1 \in ConnRecord
    BY <1>3, <1>10, Fields DEF State
  <2>2. v2 \in ConnRecord
    BY <1>9, <2>1, Fields
  <2>3. v \in ConnRecord
    BY <2>2, FdFacts, Fields
  <2>4. /\ v.client_fd = conn[c].client_fd /\ v.origin_fd = f
        /\ v.st = r.ret /\ v.dns = conn[c].dns
    BY <1>3 DEF ConnRecord
  <2> QED
    BY <2>3, <2>4
<1> HIDE DEF v
<1>14. v.client_fd # NoFd
  BY <1>2, <1>13 DEF Fds
<1>15. Local(v)
  BY <1>2, <1>10, <1>13, <1>14 DEF Local, Early
<1>16. f # Listener /\ \A d \in pool \ {c} : f \notin Fds(d)
  <2>1. CASE f = NoFd
    BY <2>1 DEF Fds, Listener, NoFd
  <2>2. CASE f # NoFd
    BY <1>2, <2>2, NewFdFacts
  <2> QED
    BY <2>1, <2>2
<1>17. ASSUME NEW g \in Fd, r.items[g].owner = c PROVE Handled(v, r.items[g].interest)
  <2>1. CASE v.st = "REQUEST_WRITE" \/ v.st = "ORIGIN_CONNECT"
    <3>1. "OP_READ" \notin r.items[g].interest
      BY <1>4, <1>5, <1>7, <1>11, <1>13, <1>17, <2>1
    <3> QED
      BY <2>1, <3>1 DEF Handled, WriteStates
  <2>2. CASE v.st = "ERROR"
    <3>1. r.items = t
      BY <1>11, <1>13, <2>2
    <3>2. g = fd
      BY <1>4, <1>5, <1>7, <1>17, <3>1 DEF Retuned
    <3> QED
      BY <1>7, <3>1, <3>2 DEF Handled
  <2> QED
    BY <1>10, <1>13, <2>1, <2>2
<1>18. Owned' /\ Locals' /\ AllHandled'
  <2>1. /\ \A g \in Fd : items[g].owner \in Conn \ {c} => items'[g] = items[g]
        /\ \A g \in Fd : items'[g].owner = items[g].owner \/ (g = v.origin_fd /\ items'[g].owner = c)
        /\ \A g \in Fd : items'[g].owner = c => Handled(v, items'[g].interest)
        /\ \A g \in Fd \ {v.origin_fd} : sock'[g] = sock[g]
        /\ v.origin_fd \in Fd => sock'[v.origin_fd] \notin {"free", "listen"}
        /\ pool' = pool
        /\ v.origin_fd # Listener /\ \A d \in pool \ {c} : v.origin_fd \notin Fds(d)
    BY <1>8, <1>10, <1>13, <1>16, <1>17
  <2> QED
    BY <1>2, <1>5, <1>12, <1>13, <1>15, <2>1, OriginLinks
<1>19. TypeOK'
  BY ConnectingType DEF LinkInv
<1>20. \A d \in Conn : conn'[d] = IF d = c THEN v ELSE conn[d]
  BY <1>12 DEF LinkInv, TypeOK
<1>21. \A g \in Fd : items'[g].owner \in Conn \ {c} => items'[g].owner = items[g].owner
  BY <1>8, <1>10
<1>22. Waiting' /\ Queued'
  <2>1. /\ conn'[c].dns = "none" /\ \A d \in Conn \ {c} : conn'[d] = conn[d]
        /\ \A g \in Fd : items[g].owner \in Conn \ {c} => items'[g] = items[g]
        /\ pc' = pc
    BY <1>2, <1>8, <1>10, <1>13, <1>20
  <2> QED
    BY <1>2, <1>19, <1>21, <2>1, OthersWait
<1> QED
  BY <1>18, <1>19, <1>22 DEF LinkInv

\* The head of the queue is the job of the connection that is served, which
\* has its client's descriptor and no other one registered.
LEMMA JobOf ==
  ASSUME LinkInv, NEW c \in Conn, Notified(c)
  PROVE  /\ pc = "notify" /\ jobs # << >> /\ c \in pool /\ conn[c].st = "ORIGIN_CONNECT"
         /\ conn[c].dns = "posted" /\ conn[c].client_fd = Head(jobs)
         /\ conn[c].client_fd \in Fds(c) /\ items[conn[c].client_fd].owner = c
         /\ \A g \in Fd : items[g].owner = c => g = conn[c].client_fd
         /\ 1 \in 1..Len(jobs) /\ Head(jobs) = jobs[1]
<1>1. /\ pc = "notify" /\ jobs # << >>
      /\ items[Head(jobs)].owner = c /\ conn[c].st = "ORIGIN_CONNECT"
  BY DEF Notified, Serves
<1>2. 1 \in 1..Len(jobs) /\ Head(jobs) = jobs[1]
  BY <1>1, HeadTailProperties DEF LinkInv, TypeOK
<1>3. /\ conn[c].dns = "posted" /\ conn[c].client_fd = Head(jobs) /\ Head(jobs) \in Fd
  BY <1>1, <1>2 DEF LinkInv, Queued
<1>4. c \in pool /\ conn[c].client_fd \in Fds(c)
  BY <1>1, <1>3 DEF LinkInv, Owned
<1>5. \A g \in Fd : items[g].owner = c => g = conn[c].client_fd
  BY <1>1, <1>3 DEF LinkInv, Waiting
<1> QED
  BY <1>1, <1>2, <1>3, <1>4, <1>5

\* When the head of the queue is served to the end the next one is muted, and
\* the rest of the queue is in its place.
LEMMA NextJob ==
  ASSUME LinkInv, TypeOK', NEW c \in Conn, Notified(c), conn'[c].dns = "none",
         jobs' = Tail(jobs), pc' = AfterJobs(Tail(jobs)),
         \A d \in Conn \ {c} : conn'[d] = conn[d],
         \A g \in Fd : items[g].owner \in Conn \ {c} => items'[g] = items[g],
         \A g \in Fd : items'[g].owner \in Conn \ {c} => items'[g].owner = items[g].owner
  PROVE  Waiting' /\ Queued'
<1>0. /\ pc = "notify" /\ jobs # << >> /\ conn[c].client_fd = Head(jobs)
      /\ items[Head(jobs)].owner = c /\ Head(jobs) = jobs[1] /\ 1 \in 1..Len(jobs)
  BY JobOf
<1>1. Waiting'
  <2> SUFFICES ASSUME NEW d \in Conn, conn'[d].dns # "none"
               PROVE  /\ items'[conn'[d].client_fd].owner = d
                      /\ \A g \in Fd : items'[g].owner = d => g = conn'[d].client_fd
                      /\ items'[conn'[d].client_fd].interest = {}
    BY DEF Waiting
  <2>1. d # c /\ conn'[d] = conn[d]
    OBVIOUS
  <2>2. /\ items[conn[d].client_fd].owner = d
        /\ \A g \in Fd : items[g].owner = d => g = conn[d].client_fd
        /\ items[conn[d].client_fd].interest = {}
    BY <1>0, <2>1 DEF LinkInv, Waiting
  <2>3. conn[d].client_fd \in Fd
    <3>1. conn[d].client_fd # NoFd
      BY <2>1 DEF LinkInv, Locals, Local, Blank, NewConn
    <3> QED
      BY <3>1 DEF LinkInv, TypeOK, ConnRecord
  <2> QED
    BY <2>1, <2>2, <2>3
<1>2. Queued'
  <2>1. jobs \in Seq(Fd \cup {NoFd})
    BY DEF LinkInv, TypeOK
  <2>2. /\ Len(jobs') = Len(jobs) - 1
        /\ \A i \in 1..Len(jobs') : jobs'[i] = jobs[i + 1]
    BY <1>0, <2>1, HeadTailProperties
  <2>3. Len(jobs) \in Nat
    BY <2>1, LenProperties
  <2>4. \A i \in 1..Len(jobs') : i + 1 \in 1..Len(jobs) /\ i + 1 # 1
    BY <2>2, <2>3
  <2>5. \A i \in 1..Len(jobs') : jobs'[i] \in Fd /\ items[jobs'[i]].owner \in Conn \ {c}
    BY <1>0, <2>2, <2>4 DEF LinkInv, Queued
  <2>6. \A i \in 1..Len(jobs') :
          /\ items'[jobs'[i]].owner \in Conn
          /\ conn'[items'[jobs'[i]].owner].dns = "posted"
          /\ conn'[items'[jobs'[i]].owner].client_fd = jobs'[i]
    <3> SUFFICES ASSUME NEW i \in 1..Len(jobs')
                 PROVE  /\ items'[jobs'[i]].owner \in Conn
                        /\ conn'[items'[jobs'[i]].owner].dns = "posted"
                        /\ conn'[items'[jobs'[i]].owner].client_fd = jobs'[i]
      OBVIOUS
    <3>1. /\ jobs'[i] \in Fd /\ items[jobs'[i]].owner \in Conn \ {c}
          /\ conn[items[jobs'[i]].owner].dns = "posted"
          /\ conn[items[jobs'[i]].owner].client_fd = jobs'[i]
      BY <2>2, <2>4, <2>5 DEF LinkInv, Queued
    <3>2. items'[jobs'[i]] = items[jobs'[i]]
      BY <3>1
    <3> QED
      BY <3>1, <3>2
  <2>7. ASSUME NEW i \in 1..Len(jobs'), NEW k \in 1..Len(jobs'), jobs'[i] = jobs'[k]
        PROVE  i = k
    <3>1. i + 1 = k + 1
      BY <2>2, <2>4, <2>7 DEF LinkInv, Queued
    <3> QED
      BY <3>1
  <2> QED
    BY <2>5, <2>6, <2>7 DEF Queued
<1> QED
  BY <1>1, <1>2

\* One turn of the loop over the addresses.
LEMMA TryAddressLinks ==
  ASSUME LinkInv, NEW c \in Conn, NEW f \in NewFd, NEW o \in ConnectOutcomes,
         TryAddress(c, f, o)
  PROVE  LinkInv'
<1> DEFINE r == ConnectThroughIp(c, items, f, o)
           v1 == [conn[c] EXCEPT !.reply = r.reply]
           v2 == [v1 EXCEPT !.origin_fd = f]
           next == [v2 EXCEPT !.addrs = @ - 1]
           last == [next EXCEPT !.dns = "none"]
<1>0. Notified(c) /\ More(c)
  BY DEF TryAddress
<1>1. /\ pc = "notify" /\ jobs # << >> /\ c \in pool /\ conn[c].st = "ORIGIN_CONNECT"
      /\ conn[c].dns = "posted" /\ conn[c].client_fd = Head(jobs)
      /\ conn[c].client_fd \in Fds(c) /\ items[conn[c].client_fd].owner = c
      /\ \A g \in Fd : items[g].owner = c => g = conn[c].client_fd
  BY <1>0, JobOf
<1>2. TypeOK'
  BY ConnectingType DEF LinkInv
<1>3. conn[c] \in ConnRecord /\ items \in Table /\ Retuned(c, items, items)
  BY DEF LinkInv, TypeOK, Table, Retuned
<1>4. r.reply \in {"SUCCEDED", "failure"}
  BY <1>3, ConnectType DEF LinkInv
<1>5. \/ /\ r.ret = "ORIGIN_CONNECT" /\ conn' = [conn EXCEPT ![c] = last]
         /\ items' = r.items /\ sock' = r.sock
         /\ jobs' = Tail(jobs) /\ pc' = AfterJobs(Tail(jobs)) /\ pool' = pool
      \/ /\ r.ret = "REQUEST_WRITE" /\ conn' = [conn EXCEPT ![c] = next]
         /\ items' = r.items /\ sock' = r.sock
         /\ jobs' = jobs /\ pc' = pc /\ pool' = pool
      \/ pc' = "aborted" /\ UNCHANGED <<conn, pool, items, sock, jobs>>
  BY DEF TryAddress
<1>6. /\ \A g \in Fd : items[g].owner \in Conn \ {c} => r.items[g] = items[g]
      /\ \A g \in Fd : r.items[g].owner = items[g].owner \/ (g = f /\ r.items[g].owner = c)
      /\ \A g \in Fd \ {f} : r.sock[g] = sock[g]
      /\ f \in Fd => r.sock[f] \notin {"free", "listen"}
  BY <1>1, <1>3, ConnectEffect
<1>7. /\ r.ret = "REQUEST_WRITE" => \A g \in Fd :
           /\ r.items[g].owner = items[g].owner
           /\ r.items[g].owner = c => r.items[g].interest = {"OP_WRITE"}
      /\ r.ret = "ORIGIN_CONNECT" => \A g \in Fd : r.items[g].owner = c =>
           \/ r.items[g].interest = {"OP_WRITE"}
           \/ items[g].owner = c /\ r.items[g].interest = items[g].interest
  BY <1>1, <1>3, ConnectEffect
<1> HIDE DEF r
<1>8. next \in ConnRecord /\ last \in ConnRecord
  <2>1. v1 \in ConnRecord
    BY <1>3, <1>4, Fields
  <2>2. v2 \in ConnRecord
    BY <2>1, FdFacts, Fields
  <2>3. v2.addrs - 1 \in 0..MaxAddrs
    <3>1. v2.addrs = conn[c].addrs
      BY <1>3 DEF ConnRecord
    <3> QED
      BY <1>0, <1>3, <3>1, CoreAssumption DEF More, ConnRecord
  <2>4. next = [v2 EXCEPT !.addrs = v2.addrs - 1]
    OBVIOUS
  <2> HIDE DEF v2
  <2>5. next \in ConnRecord
    BY <2>2, <2>3, <2>4, Fields
  <2> HIDE DEF next
  <2> QED
    BY <2>5, Fields
<1>9. /\ next.client_fd = conn[c].client_fd /\ next.origin_fd = f
      /\ next.st = "ORIGIN_CONNECT" /\ next.dns = "posted"
      /\ last.client_fd = conn[c].client_fd /\ last.origin_fd = f
      /\ last.st = "ORIGIN_CONNECT" /\ last.dns = "none"
  BY <1>1, <1>3 DEF ConnRecord
<1> HIDE DEF last, next
<1>10. Local(next) /\ Local(last)
  <2>1. conn[c].client_fd # NoFd
    BY <1>1 DEF Fds
  <2> QED
    BY <1>9, <2>1 DEF Local, Early
<1>11. f # Listener /\ \A d \in pool \ {c} : f \notin Fds(d)
  <2>1. CASE f = NoFd
    BY <2>1 DEF Fds, Listener, NoFd
  <2>2. CASE f # NoFd
    BY <1>1, <2>2, NewFdFacts
  <2> QED
    BY <2>1, <2>2
<1>12. ASSUME NEW v \in {next, last}, r.ret \in {"ORIGIN_CONNECT", "REQUEST_WRITE"},
              conn' = [conn EXCEPT ![c] = v], items' = r.items, sock' = r.sock, pool' = pool
       PROVE  Owned' /\ Locals' /\ AllHandled'
  <2>1. v \in ConnRecord /\ Local(v) /\ v.client_fd = conn[c].client_fd
        /\ v.origin_fd = f /\ v.st = "ORIGIN_CONNECT"
    BY <1>8, <1>9, <1>10
  <2>2. ASSUME NEW g \in Fd, items'[g].owner = c PROVE Handled(v, items'[g].interest)
    <3>1. items[g].owner = c => "OP_READ" \notin items[g].interest
      BY <1>1 DEF LinkInv, AllHandled, Handled, ReadStates
    <3>2. "OP_READ" \notin items'[g].interest
      BY <1>7, <1>12, <2>2, <3>1
    <3> QED
      BY <2>1, <3>2 DEF Handled, WriteStates
  <2>3. /\ \A g \in Fd : items[g].owner \in Conn \ {c} => items'[g] = items[g]
        /\ \A g \in Fd : items'[g].owner = items[g].owner \/ (g = v.origin_fd /\ items'[g].owner = c)
        /\ \A g \in Fd : items'[g].owner = c => Handled(v, items'[g].interest)
        /\ \A g \in Fd \ {v.origin_fd} : sock'[g] = sock[g]
        /\ v.origin_fd \in Fd => sock'[v.origin_fd] \notin {"free", "listen"}
        /\ pool' = pool
        /\ v.origin_fd # Listener /\ \A d \in pool \ {c} : v.origin_fd \notin Fds(d)
    BY <1>6, <1>11, <1>12, <2>1, <2>2
  <2> QED
    BY <1>1, <1>12, <2>1, <2>3, OriginLinks
<1>13. conn \in [Conn -> ConnRecord]
  BY DEF LinkInv, TypeOK
<1>14. CASE /\ r.ret = "ORIGIN_CONNECT" /\ conn' = [conn EXCEPT ![c] = last]
            /\ items' = r.items /\ sock' = r.sock
            /\ jobs' = Tail(jobs) /\ pc' = AfterJobs(Tail(jobs)) /\ pool' = pool
  <2>1. Owned' /\ Locals' /\ AllHandled'
    BY <1>12, <1>14
  <2>2. conn'[c].dns = "none" /\ \A d \in Conn \ {c} : conn'[d] = conn[d]
    BY <1>9, <1>13, <1>14
  <2>3. /\ \A g \in Fd : items[g].owner \in Conn \ {c} => items'[g] = items[g]
        /\ \A g \in Fd : items'[g].owner \in Conn \ {c} => items'[g].owner = items[g].owner
    BY <1>6, <1>14
  <2>4. Waiting' /\ Queued'
    BY <1>0, <1>2, <1>14, <2>2, <2>3, NextJob
  <2> QED
    BY <1>2, <2>1, <2>4 DEF LinkInv
<1>15. CASE /\ r.ret = "REQUEST_WRITE" /\ conn' = [conn EXCEPT ![c] = next]
            /\ items' = r.items /\ sock' = r.sock
            /\ jobs' = jobs /\ pc' = pc /\ pool' = pool
  <2>1. Owned' /\ Locals' /\ AllHandled'
    BY <1>12, <1>15
  <2>2. \A d \in Conn : /\ conn'[d].dns = conn[d].dns
                        /\ conn'[d].client_fd = conn[d].client_fd
    BY <1>1, <1>9, <1>13, <1>15
  <2>3. \A g \in Fd : items'[g].owner = items[g].owner
    BY <1>7, <1>15
  <2>4. Waiting'
    <3> SUFFICES ASSUME NEW d \in Conn, conn[d].dns # "none"
                 PROVE  /\ items'[conn[d].client_fd].owner = d
                        /\ \A g \in Fd : items'[g].owner = d => g = conn[d].client_fd
                        /\ \/ items'[conn[d].client_fd].interest = {}
                           \/ Head(jobs) = conn[d].client_fd
      BY <1>1, <1>15, <2>2 DEF Waiting
    <3>1. /\ items[conn[d].client_fd].owner = d
          /\ \A g \in Fd : items[g].owner = d => g = conn[d].client_fd
          /\ \/ items[conn[d].client_fd].interest = {}
             \/ Head(jobs) = conn[d].client_fd
      BY <1>1 DEF LinkInv, Waiting
    <3>2. conn[d].client_fd \in Fd
      <4>1. conn[d].client_fd # NoFd
        BY DEF LinkInv, Locals, Local, Blank, NewConn
      <4> QED
        BY <4>1 DEF LinkInv, TypeOK, ConnRecord
    <3>3. CASE d = c
      BY <1>1, <2>3, <3>1, <3>2, <3>3
    <3>4. CASE d # c
      BY <1>6, <1>15, <2>3, <3>1, <3>2, <3>4
    <3> QED
      BY <3>3, <3>4
  <2>5. Queued'
    BY <1>15, <2>2, <2>3 DEF LinkInv, Queued
  <2> QED
    BY <1>2, <2>1, <2>4, <2>5 DEF LinkInv
<1>16. CASE pc' = "aborted" /\ UNCHANGED <<conn, pool, items, sock, jobs>>
  <2>1. \A d \in Conn : Fds(d)' = Fds(d)
    BY <1>16 DEF Fds
  <2>2. Owned'
    <3>1. pool \subseteq Conn
      BY DEF LinkInv, TypeOK
    <3> QED
      BY <1>1, <1>16, <2>1, <3>1 DEF LinkInv, Owned
  <2>3. Locals' /\ AllHandled' /\ Waiting' /\ Queued'
    BY <1>1, <1>16 DEF LinkInv, Locals, AllHandled, Waiting, Queued
  <2> QED
    BY <1>2, <2>2, <2>3 DEF LinkInv
<1> QED
  BY <1>5, <1>14, <1>15, <1>16

\* The list of addresses is at its end: the client is answered.
LEMMA NoAddressLinks ==
  ASSUME LinkInv, NEW c \in Conn, NoAddressLeft(c)
  PROVE  LinkInv'
<1> DEFINE v == [conn[c] EXCEPT !.st = "REQUEST_WRITE", !.reply = "failure", !.dns = "none"]
           t == SetInterest(items, conn[c].client_fd, {"OP_WRITE"})
<1>0. Notified(c)
  BY DEF NoAddressLeft
<1>1. /\ pc = "notify" /\ c \in pool /\ conn[c].st = "ORIGIN_CONNECT"
      /\ conn[c].client_fd \in Fds(c)
      /\ \A g \in Fd : items[g].owner = c => g = conn[c].client_fd
  BY <1>0, JobOf
<1>2. TypeOK'
  BY ConnectingType DEF LinkInv
<1>3. conn \in [Conn -> ConnRecord] /\ conn[c] \in ConnRecord
  BY DEF LinkInv, TypeOK
<1>4. /\ conn' = [conn EXCEPT ![c] = v] /\ items' = t
      /\ jobs' = Tail(jobs) /\ pc' = AfterJobs(Tail(jobs)) /\ pool' = pool /\ sock' = sock
  BY <1>3 DEF NoAddressLeft, ConnRecord
<1>5. /\ v.client_fd = conn[c].client_fd /\ v.origin_fd = conn[c].origin_fd
      /\ v.st = "REQUEST_WRITE" /\ v.dns = "none" /\ v \in ConnRecord
  BY <1>3 DEF ConnRecord, State
<1> HIDE DEF v
<1>6. Local(v) /\ conn[c].client_fd # NoFd
  BY <1>1, <1>5 DEF Local, Early, Fds
<1>7. items \in Table /\ Retuned(c, items, items) /\ {"OP_WRITE"} \in Interest
  BY FdFacts DEF LinkInv, TypeOK, Table, Retuned
<1>8. Retuned(c, items, t) /\ t[conn[c].client_fd].interest = {"OP_WRITE"}
  BY <1>1, <1>7, RetuneSet
<1> HIDE DEF t
<1>9. \A g \in Fd : t[g].owner = c => Handled(v, t[g].interest)
  BY <1>1, <1>5, <1>8 DEF Retuned, Handled, WriteStates
<1>10. v.origin_fd # Listener /\ \A d \in pool \ {c} : v.origin_fd \notin Fds(d)
  <2>1. CASE v.origin_fd = NoFd
    BY <2>1 DEF Fds, Listener, NoFd
  <2>2. CASE v.origin_fd # NoFd
    <3>1. v.origin_fd \in Fds(c)
      BY <1>5, <2>2 DEF Fds
    <3> QED
      BY <1>1, <3>1 DEF LinkInv, Owned
  <2> QED
    BY <2>1, <2>2
<1>11. v.origin_fd \in Fd => sock[v.origin_fd] \notin {"free", "listen"}
  <2>1. v.origin_fd \in Fd => v.origin_fd \in Fds(c)
    BY <1>5, CoreAssumption DEF Fds, Fd, NoFd
  <2> QED
    BY <1>1, <2>1 DEF LinkInv, Owned
<1>12. /\ \A g \in Fd : items[g].owner \in Conn \ {c} => items'[g] = items[g]
       /\ \A g \in Fd : items'[g].owner = items[g].owner
       /\ \A g \in Fd : items'[g].owner = c => Handled(v, items'[g].interest)
       /\ \A g \in Fd \ {v.origin_fd} : sock'[g] = sock[g]
       /\ v.origin_fd \in Fd => sock'[v.origin_fd] \notin {"free", "listen"}
       /\ pool' = pool
  BY <1>4, <1>8, <1>9, <1>11 DEF Retuned
<1>13. Owned' /\ Locals' /\ AllHandled'
  <2>1. /\ \A g \in Fd : items'[g].owner = items[g].owner
                            \/ (g = v.origin_fd /\ items'[g].owner = c)
        /\ c \in pool /\ pc \in {"iterate", "notify"} /\ v \in ConnRecord
        /\ v.client_fd = conn[c].client_fd /\ Local(v)
        /\ conn' = [conn EXCEPT ![c] = v] /\ pool' = pool
    BY <1>1, <1>4, <1>5, <1>6, <1>12
  <2> QED
    BY <1>1, <1>10, <1>12, <2>1, OriginLinks
<1>14. conn'[c].dns = "none" /\ \A d \in Conn \ {c} : conn'[d] = conn[d]
  BY <1>3, <1>4, <1>5
<1>15. Waiting' /\ Queued'
  <2>1. \A g \in Fd : items'[g].owner = items[g].owner
    BY <1>12
  <2>2. jobs' = Tail(jobs) /\ pc' = AfterJobs(Tail(jobs)) /\ pool' = pool
    BY <1>4
  <2> QED
    BY <1>0, <1>2, <1>12, <1>14, <2>1, <2>2, NextJob
<1> QED
  BY <1>2, <1>13, <1>15 DEF LinkInv

\* A new client: its struct was as new_socksv5 expects it, its descriptor is
\* the lowest free one; or the struct is left in the pool with none.
LEMMA AcceptLinks ==
  ASSUME LinkInv, NEW c \in Conn, NEW f \in NewFd, Accept(c, f)
  PROVE  LinkInv'
<1>1. /\ pc = "iterate" /\ pc' = pc /\ jobs' = jobs /\ c \notin pool /\ f # NoFd
      /\ pool' = pool \cup {c}
  BY DEF Accept, ReadEvent
<1>2. TypeOK'
  BY ConnectingType DEF LinkInv
<1>3. /\ conn \in [Conn -> ConnRecord] /\ items \in Table /\ sock \in SockType
      /\ pool \subseteq Conn /\ conn[c] = Blank
  BY <1>1 DEF LinkInv, TypeOK, Table, SockType, Owned
<1>4. /\ f \in Fd /\ f # Listener /\ sock[f] = "free" /\ items[f].owner = Nobody
      /\ \A d \in pool : f \notin Fds(d)
  BY <1>1, NewFdFacts
<1>5. /\ Blank.dns = "none" /\ Blank.client_fd = NoFd /\ Blank.origin_fd = NoFd
      /\ NewConn(f).dns = "none" /\ NewConn(f).client_fd = f /\ NewConn(f).origin_fd = NoFd
      /\ NewConn(f).st = "GREETING_READ"
  BY DEF Blank, NewConn
<1>6. Fds(c) = {}
  BY <1>3, <1>5 DEF Fds
<1>7. Nobody \notin Conn /\ Passive \notin Conn /\ Passive # Nobody
  BY CoreAssumption DEF Nobody, Passive
<1>8. \A g \in Fd : items[g].owner # c
  BY <1>1 DEF LinkInv, Owned
<1>9. CASE ~CanRegister(items, f)
  <2>1. UNCHANGED <<conn, items, sock>>
    BY <1>9 DEF Accept
  <2>2. \A d \in Conn : Fds(d)' = Fds(d)
    BY <2>1 DEF Fds
  <2>3. Owned'
    BY <1>1, <1>3, <1>6, <2>1, <2>2 DEF LinkInv, Owned
  <2>4. Locals' /\ AllHandled' /\ Waiting' /\ Queued'
    BY <1>1, <2>1 DEF LinkInv, Locals, AllHandled, Waiting, Queued
  <2> QED
    BY <1>2, <2>3, <2>4 DEF LinkInv
<1>10. CASE CanRegister(items, f)
  <2>1. /\ conn' = [conn EXCEPT ![c] = NewConn(f)]
        /\ items' = Register(items, f, {"OP_READ"}, c)
        /\ sock' = [sock EXCEPT ![f] = "client"]
    BY <1>10 DEF Accept
  <2>2. \A d \in Conn : conn'[d] = IF d = c THEN NewConn(f) ELSE conn[d]
    BY <1>3, <2>1
  <2>3. /\ items'[f].owner = c /\ items'[f].interest = {"OP_READ"}
        /\ \A g \in Fd \ {f} : items'[g] = items[g] /\ sock'[g] = sock[g]
        /\ sock'[f] = "client"
    BY <1>3, <1>4, <2>1 DEF Register, Table, SockType
  <2>4. /\ Fds(c)' = {f}
        /\ \A d \in Conn \ {c} : Fds(d)' = Fds(d)
    BY <1>1, <1>5, <2>2 DEF Fds
  <2>5. Owned'
    <3>1. sock'[Listener] = "listen"
      BY <1>4, <2>3, FdFacts DEF LinkInv, Owned
    <3>2. /\ \A g \in Fd : items'[g].owner # Nobody => sock'[g] # "free"
          /\ \A g \in Fd : items'[g].owner = Passive => g = Listener
      BY <1>7, <2>3 DEF LinkInv, Owned
    <3>3. \A g \in Fd, d \in Conn : items'[g].owner = d => d \in pool' /\ g \in Fds(d)'
      BY <1>1, <1>8, <2>3, <2>4 DEF LinkInv, Owned
    <3>4. \A d, e \in pool' : d # e => Fds(d)' \cap Fds(e)' = {}
      BY <1>1, <1>3, <1>4, <2>4 DEF LinkInv, Owned
    <3>5. ASSUME NEW d \in pool', NEW g \in Fds(d)' PROVE sock'[g] \notin {"free", "listen"}
      <4>1. CASE d = c
        BY <2>3, <2>4, <4>1
      <4>2. CASE d # c
        <5>1. d \in pool /\ d \in Conn /\ g \in Fds(d) /\ g # f
          BY <1>1, <1>3, <1>4, <2>4, <4>2
        <5>2. g \in Fd
          BY <5>1, FdsFacts
        <5> QED
          BY <1>1, <2>3, <5>1, <5>2 DEF LinkInv, Owned
      <4> QED
        BY <4>1, <4>2
    <3>6. \A d \in Conn \ pool' : conn'[d] = Blank
      BY <1>1, <2>2 DEF LinkInv, Owned
    <3> QED
      BY <3>1, <3>2, <3>3, <3>4, <3>5, <3>6 DEF Owned
  <2>6. Locals'
    <3>1. Local(NewConn(f))
      BY <1>1, <1>5 DEF Local
    <3> QED
      BY <2>2, <3>1 DEF LinkInv, Locals
  <2>7. AllHandled'
    <3>1. Handled(NewConn(f), {"OP_READ"})
      BY <1>5 DEF Handled, ReadStates
    <3> QED
      BY <1>8, <2>2, <2>3, <3>1 DEF LinkInv, AllHandled
  <2>8. /\ conn[c].dns = "none" /\ conn'[c].dns = "none"
        /\ \A d \in Conn \ {c} : conn'[d] = conn[d]
        /\ \A g \in Fd : items[g].owner \in Conn \ {c} => items'[g] = items[g]
        /\ \A g \in Fd : items'[g].owner \in Conn \ {c} => items'[g].owner = items[g].owner
    BY <1>3, <1>4, <1>5, <1>7, <2>2, <2>3
  <2>9. Waiting' /\ Queued'
    BY <1>1, <1>2, <2>8, OthersWait
  <2> QED
    BY <1>2, <2>5, <2>6, <2>7, <2>9 DEF LinkInv
<1> QED
  BY <1>9, <1>10

\* A thread has its addresses: its job is put in front of the others.
LEMMA ResolveLinks ==
  ASSUME LinkInv, NEW c \in Conn, NEW n \in 0..MaxAddrs, Resolve(c, n)
  PROVE  LinkInv'
<1> DEFINE v == [conn[c] EXCEPT !.dns = "posted", !.addrs = n]
<1>1. /\ pc \in {"select", "iterate"} /\ conn[c].dns = "running"
      /\ jobs' = <<conn[c].client_fd>> \o jobs
      /\ UNCHANGED <<pool, items, sock, pc>>
  BY DEF Resolve
<1>2. TypeOK'
  BY ConnectingType DEF LinkInv
<1>3. conn \in [Conn -> ConnRecord] /\ conn[c] \in ConnRecord /\ Local(conn[c])
  BY DEF LinkInv, TypeOK, Locals
<1>4. conn' = [conn EXCEPT ![c] = v]
  BY <1>3 DEF Resolve, ConnRecord
<1>5. /\ v.client_fd = conn[c].client_fd /\ v.origin_fd = conn[c].origin_fd
      /\ v.st = conn[c].st /\ v.dns = "posted"
  BY <1>3 DEF ConnRecord
<1> HIDE DEF v
<1>6. \A d \in Conn : conn'[d] = IF d = c THEN v ELSE conn[d]
  BY <1>3, <1>4
<1>7. \A d \in Conn : Fds(d)' = Fds(d)
  BY <1>5, <1>6 DEF Fds
<1>8. /\ conn[c].st = "ORIGIN_CONNECT" /\ conn[c].client_fd \in Fd
      /\ items[conn[c].client_fd].owner = c
  <2>1. conn[c].client_fd # NoFd
    BY <1>1, <1>3 DEF Local, Blank, NewConn
  <2> QED
    BY <1>1, <1>3, <2>1 DEF Local, ConnRecord, LinkInv, Waiting
<1>9. Owned'
  <2>1. c \in pool /\ pool \subseteq Conn
    BY <1>8 DEF LinkInv, Owned, TypeOK
  <2> QED
    BY <1>1, <1>6, <1>7, <2>1 DEF LinkInv, Owned
<1>10. Locals' /\ AllHandled'
  <2>1. Local(v)
    BY <1>3, <1>5, <1>8, CoreAssumption DEF Local, Early, Fd, NoFd
  <2>2. \A i : Handled(v, i) <=> Handled(conn[c], i)
    BY <1>5 DEF Handled
  <2> QED
    BY <1>1, <1>6, <2>1, <2>2 DEF LinkInv, Locals, AllHandled
<1>11. Waiting'
  BY <1>1, <1>5, <1>6 DEF LinkInv, Waiting
<1>12. Queued'
  <2>1. jobs \in Seq(Fd \cup {NoFd}) /\ Len(jobs) \in Nat
    BY LenProperties DEF LinkInv, TypeOK
  <2>2. /\ Len(jobs') = Len(jobs) + 1 /\ jobs'[1] = conn[c].client_fd
        /\ \A i \in 1..Len(jobs') : i # 1 => i - 1 \in 1..Len(jobs) /\ jobs'[i] = jobs[i - 1]
    BY <1>1, <2>1
  <2>3. \A i \in 1..Len(jobs) : jobs[i] # conn[c].client_fd
    BY <1>1, <1>8 DEF LinkInv, Queued
  <2>4. ASSUME NEW i \in 1..Len(jobs')
        PROVE  /\ jobs'[i] \in Fd /\ items'[jobs'[i]].owner \in Conn
               /\ conn'[items'[jobs'[i]].owner].dns = "posted"
               /\ conn'[items'[jobs'[i]].owner].client_fd = jobs'[i]
    <3>1. CASE i = 1
      BY <1>1, <1>5, <1>6, <1>8, <2>2, <3>1
    <3>2. CASE i # 1
      <4>1. i - 1 \in 1..Len(jobs) /\ jobs'[i] = jobs[i - 1]
        BY <2>2, <3>2
      <4> QED
        BY <1>1, <1>5, <1>6, <4>1 DEF LinkInv, Queued
    <3> QED
      BY <3>1, <3>2
  <2>5. ASSUME NEW i \in 1..Len(jobs'), NEW k \in 1..Len(jobs'), jobs'[i] = jobs'[k]
        PROVE  i = k
    <3>1. i = 1 <=> k = 1
      BY <2>2, <2>3, <2>5
    <3>2. CASE i # 1 /\ k # 1
      <4>1. /\ i - 1 \in 1..Len(jobs) /\ k - 1 \in 1..Len(jobs)
            /\ jobs[i - 1] = jobs[k - 1]
        BY <2>2, <2>5, <3>2
      <4>2. \A m, n2 \in 1..Len(jobs) : jobs[m] = jobs[n2] => m = n2
        BY DEF LinkInv, Queued
      <4>3. i - 1 = k - 1
        BY <4>1, <4>2
      <4> QED
        BY <4>3
    <3> QED
      BY <3>1, <3>2
  <2> QED
    BY <2>4, <2>5 DEF Queued
<1> QED
  BY <1>2, <1>9, <1>10, <1>11, <1>12 DEF LinkInv

\* The loop, what it passes over, a broken pipe, the network and the end of the
\* server.
LEMMA LoopLinks ==
  ASSUME LinkInv
  PROVE  /\ Select => LinkInv'
         /\ Interrupted => LinkInv'
         /\ EndIteration => LinkInv'
         /\ \A fd \in Fd : Pass(fd) => LinkInv'
         /\ \A fd \in Fd, c \in Conn : SendKills(c, fd) => LinkInv'
         /\ \A fd \in Fd, a \in {"up", "refused"} : NetworkAnswers(fd, a) => LinkInv'
         /\ Stop => LinkInv'
         /\ UNCHANGED vars => LinkInv'
<1>1. ASSUME TypeOK', UNCHANGED <<conn, pool, items, sock, jobs>>,
             \/ pc \in {"select", "iterate"} /\ pc' \in {"select", "iterate", "notify", "killed"}
             \/ pc' = pc
      PROVE  LinkInv'
  <2>1. \A d \in Conn : Fds(d)' = Fds(d)
    BY <1>1 DEF Fds
  <2>2. pool \subseteq Conn
    BY DEF LinkInv, TypeOK
  <2>3. Owned'
    BY <1>1, <2>1, <2>2 DEF LinkInv, Owned
  <2>4. Locals' /\ AllHandled' /\ Waiting' /\ Queued'
    BY <1>1 DEF LinkInv, Locals, AllHandled, Waiting, Queued
  <2> QED
    BY <1>1, <2>3, <2>4 DEF LinkInv
<1>2. Select => LinkInv'
  BY <1>1, LoopType DEF LinkInv, Select
<1>3. Interrupted => LinkInv'
  BY <1>1, LoopType DEF LinkInv, Interrupted
<1>4. EndIteration => LinkInv'
  BY <1>1, LoopType DEF LinkInv, EndIteration, AfterJobs
<1>5. ASSUME NEW fd \in Fd, Pass(fd) PROVE LinkInv'
  <2>1. jobs' = jobs
    BY <1>5 DEF Pass, ReadEvent, WriteEvent
  <2> QED
    BY <1>1, <1>5, <2>1, LoopType DEF LinkInv, Pass
<1>6. ASSUME NEW fd \in Fd, NEW a \in {"up", "refused"}, NetworkAnswers(fd, a) PROVE LinkInv'
  <2>1. /\ sock[fd] = "connecting" /\ sock' = [sock EXCEPT ![fd] = a]
        /\ UNCHANGED <<conn, pool, items, jobs, pc>>
    BY <1>6 DEF NetworkAnswers
  <2>2. \A d \in Conn : Fds(d)' = Fds(d)
    BY <2>1 DEF Fds
  <2>3. pool \subseteq Conn /\ sock \in SockType
    BY DEF LinkInv, TypeOK, SockType
  <2>4. \A g \in Fd : /\ sock'[g] = "free" <=> sock[g] = "free"
                      /\ sock'[g] = "listen" <=> sock[g] = "listen"
    BY <2>1, <2>3 DEF SockType
  <2>5. \A d \in pool : Fds(d) \subseteq Fd
    BY <2>3, FdsFacts
  <2>6. Owned'
    BY <2>1, <2>2, <2>3, <2>4, <2>5, FdFacts DEF LinkInv, Owned
  <2>7. Locals' /\ AllHandled' /\ Waiting' /\ Queued'
    BY <2>1 DEF LinkInv, Locals, AllHandled, Waiting, Queued
  <2> QED
    BY <1>6, <2>6, <2>7, LoopType DEF LinkInv
<1>7. ASSUME Stop PROVE LinkInv'
  <2>1. /\ pc' = "stopped" /\ pool' = {} /\ jobs' = << >> /\ UNCHANGED <<conn, sock>>
        /\ \A g \in Fd : items'[g].owner = Nobody
    BY <1>7 DEF Stop, Unused
  <2>2. Nobody \notin Conn /\ Passive # Nobody
    BY CoreAssumption DEF Nobody, Passive
  <2>3. Owned'
    BY <2>1, <2>2 DEF LinkInv, Owned
  <2>4. Locals' /\ AllHandled' /\ Waiting' /\ Queued'
    BY <2>1, <2>2 DEF LinkInv, Locals, AllHandled, Waiting, Queued
  <2> QED
    BY <1>7, <2>3, <2>4, LoopType DEF LinkInv
<1>8. UNCHANGED vars => LinkInv'
  BY <1>1, TypeStep DEF LinkInv, vars
<1>9. ASSUME NEW fd \in Fd, NEW c \in Conn, SendKills(c, fd) PROVE LinkInv'
  <2>1. pc = "iterate" /\ pc' = "killed" /\ jobs' = jobs
    BY <1>9 DEF SendKills, WriteEvent
  <2> QED
    BY <1>1, <1>9, <2>1, LoopType DEF LinkInv, SendKills
<1> QED
  BY <1>2, <1>3, <1>4, <1>5, <1>6, <1>7, <1>8, <1>9

-----------------------------------------------------------------------------
(* Theorems *)

\* Every step of the server, of a resolver thread and of the network keeps
\* items, pool, descriptors and jobs tied together.
LEMMA LinkStep ==
  ASSUME WideFd, LinkInv, [Next]_vars
  PROVE  LinkInv'
<1>1. CASE Callback
  <2>1. ASSUME NEW c \in Conn, NEW fd \in NewFd, Accept(c, fd) PROVE LinkInv'
    BY <2>1, AcceptLinks
  <2>2. ASSUME NEW fd \in Current, NEW c \in {items[fd].owner} \cap Conn,
               \/ IoFails(c, fd)
               \/ \E m \in {"noauth", "userpass", "none"} : GreetingRead(c, fd, m)
               \/ GreetingWrite(c, fd)
               \/ \E ok \in BOOLEAN : AuthRead(c, fd, ok)
               \/ AuthWrite(c, fd)
               \/ RequestReadError(c, fd) \/ RequestReadFqdn(c, fd)
               \/ \E f \in NewFd, o \in ConnectOutcomes : RequestReadIp(c, fd, f, o)
               \/ VerifyConnection(c, fd)
               \/ \E left \in Leftover : RequestWrite(c, fd, left)
               \/ CopyRead(c, fd) \/ CopyEof(c, fd)
               \/ CopyWrite(c, fd) \/ CopyWritePart(c, fd)
        PROVE  LinkInv'
    <3>1. fd \in Fd /\ c \in Conn /\ items[fd].owner = c
      BY DEF Current, Due
    <3>2. IoFails(c, fd) => LinkInv'
      BY <3>1, EventDone DEF IoFails
    <3>3. \A f \in NewFd, o \in ConnectOutcomes : RequestReadIp(c, fd, f, o) => LinkInv'
      BY <3>1, RequestIpLinks
    <3> QED
      BY <2>2, <3>1, <3>2, <3>3, HandshakeLinks, ReplyLinks, CopyLinks
  <2>3. ASSUME NEW c \in Conn, NEW f \in NewFd, NEW o \in ConnectOutcomes, TryAddress(c, f, o)
        PROVE  LinkInv'
    BY <2>3, TryAddressLinks
  <2>4. ASSUME NEW c \in Conn, NoAddressLeft(c) PROVE LinkInv'
    BY <2>4, NoAddressLinks
  <2> QED
    BY <1>1, <2>1, <2>2, <2>3, <2>4 DEF Callback
<1>2. CASE Loop
  <2>1. Current \subseteq Fd
    BY DEF Current, Due
  <2> QED
    BY <1>2, <2>1, LoopLinks DEF Loop
<1>3. CASE Resolver
  BY <1>3, ResolveLinks DEF Resolver
<1>4. CASE Network \/ Stop \/ Ended \/ UNCHANGED vars
  BY <1>4, LoopLinks DEF Network, Ended
<1>5. CASE BrokenPipe
  <2>1. Current \subseteq Fd
    BY DEF Current, Due
  <2> QED
    BY <1>5, <2>1, LoopLinks DEF BrokenPipe
<1> QED
  BY <1>1, <1>2, <1>3, <1>4, <1>5 DEF Next

\* The joint invariant, of a process whose descriptors fit in their uint8_t.
LEMMA LinksHold == WideFd => (Spec => []LinkInv)
<1> SUFFICES ASSUME WideFd PROVE Spec => []LinkInv
  OBVIOUS
<1>1. LinkInv /\ [Next]_vars => LinkInv'
  BY LinkStep
<1> QED
  BY <1>1, LinkInit, PTL DEF Spec

\* A callback never gets a freed struct in key->data, pselect never a closed
\* descriptor, and no descriptor is held twice, for any number of clients,
\* descriptors, addresses and slots of the selector.
THEOREM AttachmentsLiveCorrect == WideFd => (Spec => []AttachmentsLive)
<1>1. LinkInv => AttachmentsLive
  BY DEF LinkInv, Owned, AttachmentsLive
<1> QED
  BY <1>1, LinksHold, PTL

\* The abort()s of stm_handler_read and stm_handler_write never fire: what a
\* connection is of interest for has a handler in its state.
THEOREM HandlerExistsCorrect == WideFd => (Spec => []HandlerExists)
<1>1. LinkInv => HandlerExists
  BY DEF LinkInv, AllHandled, Handled, HandlerExists
<1> QED
  BY <1>1, LinksHold, PTL

\* Nothing advances or frees a connection under its resolver thread, and
\* every queued job reaches the one connection it is of.
THEOREM ResolverOwnsConnCorrect == WideFd => (Spec => []ResolverOwnsConn)
<1>1. LinkInv => ResolverOwnsConn
  <2> SUFFICES ASSUME LinkInv, pc # "stopped" PROVE ResolverOwnsConn
    BY DEF ResolverOwnsConn
  <2>1. ASSUME NEW c \in Conn, conn[c].dns # "none"
        PROVE  /\ c \in pool /\ conn[c].st = "ORIGIN_CONNECT"
               /\ conn[c].client_fd \in Fd /\ items[conn[c].client_fd].owner = c
               /\ pc \in {"select", "iterate"} => items[conn[c].client_fd].interest = {}
    <3>1. conn[c] \in ConnRecord /\ Local(conn[c])
      BY DEF LinkInv, TypeOK, Locals
    <3>2. conn[c].st = "ORIGIN_CONNECT" /\ conn[c].client_fd # NoFd
      BY <2>1, <3>1 DEF Local, Blank, NewConn
    <3>3. conn[c].client_fd \in Fd
      BY <3>1, <3>2 DEF ConnRecord
    <3>4. /\ items[conn[c].client_fd].owner = c
          /\ pc \in {"select", "iterate"} => items[conn[c].client_fd].interest = {}
      BY <2>1 DEF LinkInv, Waiting
    <3> QED
      BY <3>2, <3>3, <3>4 DEF LinkInv, Owned
  <2>2. \A i \in 1..Len(jobs) :
          /\ conn[items[jobs[i]].owner].dns = "posted"
          /\ conn[items[jobs[i]].owner].client_fd = jobs[i]
          /\ \A k \in 1..Len(jobs) : jobs[k] = jobs[i] => k = i
    BY DEF LinkInv, Queued
  <2> QED
    BY <2>1, <2>2 DEF ResolverOwnsConn
<1> QED
  BY <1>1, LinksHold, PTL
=============================================================================
