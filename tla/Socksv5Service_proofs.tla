------------------------ MODULE Socksv5Service_proofs ------------------------
(***************************************************************************)
(* Proofs about what the proxy's core does for its clients: it counts      *)
(* them, gives back what it opened for them, goes through the steps of     *)
(* SocksProtocol, and lets none fall asleep.  They are about a selector    *)
(* with a slot for every descriptor and, but for the counter, connects     *)
(* that are under way when connect() returns.                              *)
(***************************************************************************)
EXTENDS Socksv5_proofs

-----------------------------------------------------------------------------
(* The counter of connections *)

\* The selector has a slot for every descriptor of the process.
Roomy == ItemsMax > MaxFd

\* The counter, and that there is something to count.
Counted == IsFiniteSet(pool) /\ CountsMatch

\* A step that neither takes a struct nor gives one back.
LEMMA SameCount ==
  ASSUME Counted, pool' = pool, concurrent' = concurrent, pc' = "stopped" <=> pc = "stopped"
  PROVE  Counted'
BY DEF Counted, CountsMatch

\* socksv5_done takes a live connection out of pool and counter, or neither.
LEMMA DoneCounted ==
  ASSUME LinkInv, Counted, NEW fd \in Fd, NEW c \in Conn, items[fd].owner = c,
         ReadEvent(fd) \/ WriteEvent(fd), Done(c)
  PROVE  Counted'
<1>1. c \in pool /\ pc = "iterate"
  BY EventOf
<1>2. CASE Abort(c)
  BY <1>1, <1>2, SameCount DEF Abort
<1>3. CASE Disconnect(c)
  <2>1. pool' = pool \ {c} /\ concurrent' = concurrent - 1 /\ pc' = pc
    BY <1>3 DEF Disconnect
  <2>2. IsFiniteSet(pool') /\ Cardinality(pool') = Cardinality(pool) - 1
    BY <1>1, <2>1, FS_RemoveElement DEF Counted
  <2>3. Cardinality(pool) \in Nat
    BY FS_CardinalityType DEF Counted
  <2> QED
    BY <1>1, <2>1, <2>2, <2>3, CoreAssumption DEF Counted, CountsMatch
<1> QED
  BY <1>2, <1>3 DEF Done

\* A client that is admitted is counted and gets a struct of its own; with a
\* slot for every descriptor none is left in the pool without one.
LEMMA AcceptCounted ==
  ASSUME Roomy, LinkInv, Counted, NEW c \in Conn, NEW f \in NewFd, Accept(c, f)
  PROVE  Counted'
<1>1. /\ pc = "iterate" /\ pc' = pc /\ c \notin pool /\ f # NoFd /\ concurrent < MaxConn
      /\ pool' = pool \cup {c}
  BY DEF Accept, ReadEvent
<1>2. f \in Fd /\ items[f].owner = Nobody
  BY <1>1, NewFdFacts
<1>3. CanRegister(items, f)
  BY <1>2, CoreAssumption, ItemsMaxAssumption DEF Roomy, CanRegister, ValidFd, Used, Fd
<1>4. concurrent' = concurrent + 1
  BY <1>3 DEF Accept
<1>5. IsFiniteSet(pool') /\ Cardinality(pool') = Cardinality(pool) + 1
  BY <1>1, FS_AddElement DEF Counted
<1>6. Cardinality(pool) \in Nat
  BY FS_CardinalityType DEF Counted
<1> QED
  BY <1>1, <1>4, <1>5, <1>6, CoreAssumption DEF Counted, CountsMatch

\* Every other step leaves pool and counter alone, except for Stop, after
\* which nothing is counted.
LEMMA CountStep ==
  ASSUME WideFd, Roomy, LinkInv, Counted, [Next]_vars
  PROVE  Counted'
<1>1. CASE Callback
  <2>1. ASSUME NEW c \in Conn, NEW f \in NewFd, Accept(c, f) PROVE Counted'
    BY <2>1, AcceptCounted
  <2>2. ASSUME NEW fd \in Fd, NEW c \in Conn, items[fd].owner = c,
               ReadEvent(fd) \/ WriteEvent(fd), Done(c) \/ \E v, t : Becomes(c, v, t)
        PROVE  Counted'
    <3>1. CASE Done(c)
      BY <2>2, <3>1, DoneCounted
    <3>2. CASE \E v, t : Becomes(c, v, t)
      <4>1. UNCHANGED <<pool, concurrent, pc>>
        BY <3>2 DEF Becomes
      <4> QED
        BY <4>1, SameCount
    <3> QED
      BY <2>2, <3>1, <3>2
  <2>3. ASSUME NEW fd \in Current, NEW c \in {items[fd].owner} \cap Conn,
               \/ IoFails(c, fd)
               \/ \E m \in {"noauth", "userpass", "none"} : GreetingRead(c, fd, m)
               \/ GreetingWrite(c, fd)
               \/ \E ok \in BOOLEAN : AuthRead(c, fd, ok)
               \/ AuthWrite(c, fd)
               \/ RequestReadError(c, fd) \/ RequestReadFqdn(c, fd)
               \/ VerifyConnection(c, fd)
               \/ \E left \in Leftover : RequestWrite(c, fd, left)
               \/ CopyRead(c, fd) \/ CopyEof(c, fd)
               \/ CopyWrite(c, fd) \/ CopyWritePart(c, fd)
        PROVE  Counted'
    <3>1. fd \in Fd /\ c \in Conn /\ items[fd].owner = c
      BY DEF Current, Due
    <3>2. ReadEvent(fd) \/ WriteEvent(fd)
      BY <2>3 DEF IoFails, GreetingRead, GreetingWrite, AuthRead, AuthWrite, RequestReadError,
                  RequestReadFqdn, VerifyConnection, RequestWrite, CopyRead, CopyEof,
                  CopyWrite, CopyWritePart
    <3>3. Done(c) \/ \E v, t : Becomes(c, v, t)
      <4>1. CASE \/ IoFails(c, fd)
                 \/ \E m \in {"noauth", "userpass", "none"} : GreetingRead(c, fd, m)
                 \/ GreetingWrite(c, fd)
                 \/ \E ok \in BOOLEAN : AuthRead(c, fd, ok)
                 \/ AuthWrite(c, fd)
        BY <4>1, Zenon DEF IoFails, GreetingRead, GreetingWrite, AuthRead, AuthWrite
      <4>2. CASE \/ RequestReadError(c, fd) \/ RequestReadFqdn(c, fd)
                 \/ VerifyConnection(c, fd)
                 \/ \E left \in Leftover : RequestWrite(c, fd, left)
        BY <4>2, Zenon DEF RequestReadError, RequestReadFqdn, VerifyConnection, RequestWrite
      <4>3. CASE \/ CopyRead(c, fd) \/ CopyEof(c, fd)
                 \/ CopyWrite(c, fd) \/ CopyWritePart(c, fd)
        BY <4>3, Zenon DEF CopyRead, CopyEof, CopyWrite, CopyWritePart
      <4> QED
        BY <2>3, <4>1, <4>2, <4>3
    <3> QED
      BY <2>2, <3>1, <3>2, <3>3
  <2>4. ASSUME NEW fd \in Current, NEW c \in Conn, NEW f \in NewFd, NEW o \in ConnectOutcomes,
               RequestReadIp(c, fd, f, o)
        PROVE  Counted'
    BY <2>4, SameCount DEF RequestReadIp
  <2>5. ASSUME NEW c \in Conn,
               \/ \E f \in NewFd, o \in ConnectOutcomes : TryAddress(c, f, o)
               \/ NoAddressLeft(c)
        PROVE  Counted'
    <3>1. pc = "notify"
      BY <2>5 DEF TryAddress, NoAddressLeft, Notified
    <3>2. UNCHANGED <<pool, concurrent>> /\ pc' # "stopped"
      BY <2>5, <3>1 DEF TryAddress, NoAddressLeft, AfterJobs
    <3> QED
      BY <3>1, <3>2, SameCount
  <2> QED
    BY <1>1, <2>1, <2>3, <2>4, <2>5 DEF Callback
<1>2. CASE Loop \/ BrokenPipe \/ Resolver \/ Network \/ Ended \/ UNCHANGED vars
  <2>1. UNCHANGED <<pool, concurrent>>
    BY <1>2 DEF Loop, Select, Interrupted, EndIteration, Pass, BrokenPipe, SendKills, Resolver,
                Resolve, Network, NetworkAnswers, Ended, vars
  <2>2. pc' = "stopped" <=> pc = "stopped"
    BY <1>2 DEF Loop, Select, Interrupted, EndIteration, AfterJobs, Pass, BrokenPipe, SendKills,
                WriteEvent, Resolver, Resolve, Network, NetworkAnswers, Ended, vars
  <2> QED
    BY <2>1, <2>2, SameCount
<1>3. CASE Stop
  <2>1. pool' = {} /\ pc' = "stopped"
    BY <1>3 DEF Stop
  <2> QED
    BY <2>1, FS_EmptySet DEF Counted, CountsMatch
<1> QED
  BY <1>1, <1>2, <1>3 DEF Next

\* concurrent_connections is the number of structs in the pool and never more
\* than MAX_CONCURRENT_CONNECTIONS, however connections begin and end, when
\* the selector has a slot for every descriptor.
THEOREM CountsMatchCorrect == WideFd /\ Roomy => (Spec => []CountsMatch)
<1> SUFFICES ASSUME WideFd, Roomy PROVE Spec => []CountsMatch
  OBVIOUS
<1>1. Init => Counted
  BY FS_EmptySet, CoreAssumption DEF Init, Counted, CountsMatch
<1>2. LinkInv /\ Counted /\ [Next]_vars => Counted'
  BY CountStep
<1>3. Spec => []LinkInv
  BY LinksHold
<1>4. Counted => CountsMatch
  BY DEF Counted
<1> QED
  BY <1>1, <1>2, <1>3, <1>4, PTL DEF Spec

-----------------------------------------------------------------------------
(* Descriptors are registered and closed, while no connect() ends at once *)

\* The condition that a connect() on a non-blocking socket is left under way.
NeverAtOnce == ConnectOutcomes = {"inprogress"}

\* What a connection holds is registered as its own.
Registered ==
  pc # "stopped" => \A c \in pool : \A fd \in Fds(c) : items[fd].owner = c

\* What is held is registered and what is open is held, so nothing aborts.
Tidy == NoAbort /\ NoFdLeak /\ Registered

\* A step that leaves owners, pool and descriptors as they are.
LEMMA KeepsTidy ==
  ASSUME LinkInv, Tidy, pool' = pool,
         \/ pc' = pc
         \/ /\ pc \in {"select", "iterate", "notify"}
            /\ pc' \in {"select", "iterate", "notify", "killed"},
         \A d \in Conn : /\ conn'[d].client_fd = conn[d].client_fd
                         /\ conn'[d].origin_fd = conn[d].origin_fd,
         \A g \in Fd : /\ items'[g].owner = items[g].owner
                       /\ sock[g] \in {"free", "listen"} => sock'[g] = sock[g]
  PROVE  Tidy'
<1>1. \A d \in Conn : Fds(d)' = Fds(d)
  BY DEF Fds
<1>2. pool \subseteq Conn
  BY DEF LinkInv, TypeOK
<1>3. \A d \in pool : Fds(d) \subseteq Fd
  BY <1>2, FdsFacts
<1>4. NoAbort' /\ NoFdLeak'
  BY <1>1, <1>2 DEF Tidy, NoAbort, NoFdLeak
<1>5. Registered'
  BY <1>1, <1>2, <1>3 DEF Tidy, Registered
<1> QED
  BY <1>4, <1>5 DEF Tidy

\* A callback that leaves its connection its descriptors.
LEMMA BecomesTidy ==
  ASSUME LinkInv, Tidy, NEW c \in Conn, NEW v, NEW t, Becomes(c, v, t),
         v.client_fd = conn[c].client_fd, v.origin_fd = conn[c].origin_fd,
         \A g \in Fd : t[g].owner = items[g].owner
  PROVE  Tidy'
<1>1. /\ conn' = [conn EXCEPT ![c] = v] /\ items' = t
      /\ UNCHANGED <<pool, sock, pc>>
  BY DEF Becomes
<1>2. \A d \in Conn : /\ conn'[d].client_fd = conn[d].client_fd
                      /\ conn'[d].origin_fd = conn[d].origin_fd
  BY <1>1 DEF LinkInv, TypeOK
<1> QED
  BY <1>1, <1>2, KeepsTidy

\* No change of interest changes an owner.
LEMMA OwnersKept ==
  ASSUME NEW t \in Table, NEW fd, NEW g \in Fd
  PROVE  /\ \A i \in Interest : SetInterest(t, fd, i)[g].owner = t[g].owner
         /\ \A op : /\ Additive(t, fd, op)[g].owner = t[g].owner
                    /\ Reduction(t, fd, op)[g].owner = t[g].owner
BY DEF Table, SetInterest, Additive, Reduction

\* socksv5_done finds what it closes registered, and leaves nothing open.
LEMMA DoneTidy ==
  ASSUME Roomy, LinkInv, Tidy, NEW fd \in Fd, NEW c \in Conn, items[fd].owner = c,
         ReadEvent(fd) \/ WriteEvent(fd), Done(c)
  PROVE  Tidy'
<1>1. c \in pool /\ pc = "iterate"
  BY EventOf
<1>2. pool \subseteq Conn /\ items \in Table /\ \A d \in pool : Fds(d) \subseteq Fd
  BY FdsFacts DEF LinkInv, TypeOK, Table
<1>3. \A g \in Fds(c) : Used(items, g)
  <2> SUFFICES ASSUME NEW g \in Fds(c) PROVE Used(items, g)
    OBVIOUS
  <2>1. g \in Fd /\ items[g].owner = c
    BY <1>1, <1>2 DEF Tidy, Registered
  <2>2. ValidFd(g)
    BY <2>1, CoreAssumption, ItemsMaxAssumption DEF Roomy, ValidFd, Fd
  <2> QED
    BY <1>2, <2>1, <2>2, CoreAssumption DEF Used, Table
<1>4. Disconnect(c)
  BY <1>3 DEF Done, Abort
<1>5. /\ items' = Unregister(items, Fds(c)) /\ sock' = Closed(sock, Fds(c))
      /\ pool' = pool \ {c} /\ conn' = [conn EXCEPT ![c] = Blank] /\ pc' = pc
  BY <1>4 DEF Disconnect
<1>6. \A d \in Conn \ {c} : Fds(d)' = Fds(d)
  BY <1>5 DEF LinkInv, TypeOK, Fds
<1>7. /\ \A g \in Fds(c) : sock'[g] = "free"
      /\ \A g \in Fd \ Fds(c) : items'[g] = items[g] /\ sock'[g] = sock[g]
  BY <1>1, <1>2, <1>5 DEF Unregister, Closed, Table
<1>8. NoFdLeak'
  <2> SUFFICES ASSUME NEW g \in Fd, sock'[g] \notin {"free", "listen"}
               PROVE  \E d \in pool' : g \in Fds(d)'
    BY DEF NoFdLeak
  <2>1. g \notin Fds(c) /\ sock'[g] = sock[g]
    BY <1>7
  <2>2. PICK d \in pool : g \in Fds(d)
    BY <1>1, <2>1 DEF Tidy, NoFdLeak
  <2> QED
    BY <1>2, <1>5, <1>6, <2>1, <2>2
<1>9. Registered'
  <2> SUFFICES ASSUME NEW d \in pool', NEW g \in Fds(d)' PROVE items'[g].owner = d
    BY DEF Registered
  <2>1. d \in pool /\ d \in Conn /\ d # c /\ g \in Fds(d)
    BY <1>2, <1>5, <1>6
  <2>2. g \in Fd \ Fds(c)
    BY <1>1, <1>2, <2>1 DEF LinkInv, Owned
  <2>3. items[g].owner = d
    BY <1>1, <2>1 DEF Tidy, Registered
  <2> QED
    BY <1>7, <2>2, <2>3
<1> QED
  BY <1>1, <1>5, <1>8, <1>9 DEF Tidy, NoAbort

\* The callbacks that end their connection or leave it its descriptors.
LEMMA CallbackTidy ==
  ASSUME Roomy, LinkInv, Tidy, NEW fd \in Fd, NEW c \in Conn, items[fd].owner = c
  PROVE  /\ IoFails(c, fd) => Tidy'
         /\ \A m \in {"noauth", "userpass", "none"} : GreetingRead(c, fd, m) => Tidy'
         /\ GreetingWrite(c, fd) => Tidy'
         /\ \A ok \in BOOLEAN : AuthRead(c, fd, ok) => Tidy'
         /\ AuthWrite(c, fd) => Tidy'
         /\ RequestReadError(c, fd) => Tidy'
         /\ RequestReadFqdn(c, fd) => Tidy'
         /\ VerifyConnection(c, fd) => Tidy'
         /\ \A left \in Leftover : RequestWrite(c, fd, left) => Tidy'
<1> DEFINE Kept(t) == \A g \in Fd : t[g].owner = items[g].owner
           Same(v) == v.client_fd = conn[c].client_fd /\ v.origin_fd = conn[c].origin_fd
<1>0. conn[c] \in ConnRecord /\ items \in Table
  BY DEF LinkInv, TypeOK, Table
<1>1. ASSUME ReadEvent(fd) \/ WriteEvent(fd), Done(c) PROVE Tidy'
  BY <1>1, DoneTidy
<1>2. ASSUME NEW v, NEW t, Becomes(c, v, t), Same(v), Kept(t) PROVE Tidy'
  BY <1>2, BecomesTidy
<1>3. /\ \A i \in Interest : Kept(SetInterest(items, fd, i))
      /\ \A i, k \in Interest : \A g : Kept(SetInterest(SetInterest(items, fd, i), g, k))
  <2>1. ASSUME NEW i \in Interest PROVE Kept(SetInterest(items, fd, i))
    BY <1>0, OwnersKept
  <2>2. ASSUME NEW i \in Interest, NEW k \in Interest, NEW g
        PROVE  Kept(SetInterest(SetInterest(items, fd, i), g, k))
    <3>1. SetInterest(items, fd, i) \in Table
      BY <1>0, TableOps
    <3> QED
      BY <2>1, <3>1, OwnersKept
  <2> QED
    BY <2>1, <2>2
<1>4. {} \in Interest /\ {"OP_READ"} \in Interest /\ {"OP_WRITE"} \in Interest
  BY FdFacts
<1>5. IoFails(c, fd) => Tidy'
  BY <1>1 DEF IoFails
<1>6. ASSUME NEW m \in {"noauth", "userpass", "none"}, GreetingRead(c, fd, m) PROVE Tidy'
  <2>1. Same([conn[c] EXCEPT !.st = "GREETING_WRITE", !.method = m])
    BY <1>0 DEF ConnRecord
  <2> HIDE DEF Same, Kept
  <2> QED
    BY <1>2, <1>3, <1>4, <1>6, <2>1 DEF GreetingRead
<1>7. \A q : Same([conn[c] EXCEPT !.st = q])
  BY <1>0 DEF ConnRecord
<1>8. ASSUME GreetingWrite(c, fd) PROVE Tidy'
  <2> HIDE DEF Same, Kept
  <2> QED
    BY <1>1, <1>2, <1>3, <1>4, <1>7, <1>8 DEF GreetingWrite
<1>9. ASSUME NEW ok \in BOOLEAN, AuthRead(c, fd, ok) PROVE Tidy'
  <2>1. Same([conn[c] EXCEPT !.st = "AUTH_WRITE", !.authed = ok])
    BY <1>0 DEF ConnRecord
  <2> HIDE DEF Same, Kept
  <2> QED
    BY <1>2, <1>3, <1>4, <1>9, <2>1 DEF AuthRead
<1>10. ASSUME AuthWrite(c, fd) PROVE Tidy'
  <2> HIDE DEF Same, Kept
  <2> QED
    BY <1>1, <1>2, <1>3, <1>4, <1>7, <1>10 DEF AuthWrite
<1>11. ASSUME RequestReadError(c, fd) PROVE Tidy'
  <2>1. Same([conn[c] EXCEPT !.st = "REQUEST_WRITE", !.reply = "failure"])
    BY <1>0 DEF ConnRecord
  <2> HIDE DEF Same, Kept
  <2> QED
    BY <1>2, <1>3, <1>4, <1>11, <2>1 DEF RequestReadError
<1>12. ASSUME RequestReadFqdn(c, fd) PROVE Tidy'
  <2>1. Same([conn[c] EXCEPT !.st = "ORIGIN_CONNECT", !.dns = "running"])
    BY <1>0 DEF ConnRecord
  <2> HIDE DEF Same, Kept
  <2> QED
    BY <1>2, <1>3, <1>4, <1>12, <2>1 DEF RequestReadFqdn
<1>13. ASSUME VerifyConnection(c, fd) PROVE Tidy'
  <2> DEFINE re == IF sock[conn[c].origin_fd] = "refused" THEN "failure" ELSE "SUCCEDED"
             v == [conn[c] EXCEPT !.st = "REQUEST_WRITE", !.reply = re]
             t == SetInterest(SetInterest(items, fd, {}), conn[c].client_fd, {"OP_WRITE"})
  <2>1. Same(v)
    BY <1>0 DEF ConnRecord
  <2>2. Becomes(c, v, t)
    BY <1>13 DEF VerifyConnection
  <2> HIDE DEF Same, Kept, v
  <2>3. Kept(t)
    BY <1>3, <1>4
  <2> HIDE DEF t
  <2> QED
    BY <1>2, <2>1, <2>2, <2>3
<1>14. ASSUME NEW left \in Leftover, RequestWrite(c, fd, left) PROVE Tidy'
  <2> DEFINE v == [conn[c] EXCEPT !.st = "COPY", !.flags = Flag, !.rb = left]
             t == SetInterest(SetInterest(items, fd, {"OP_READ"}), conn[c].origin_fd, {"OP_READ"})
  <2>1. Same(v)
    BY <1>0 DEF ConnRecord
  <2>2. WriteEvent(fd) /\ (Becomes(c, v, t) \/ Done(c))
    BY <1>14 DEF RequestWrite
  <2> HIDE DEF Same, Kept, v
  <2>3. Kept(t)
    BY <1>3, <1>4
  <2> HIDE DEF t
  <2> QED
    BY <1>1, <1>2, <2>1, <2>2, <2>3
<1> QED
  BY <1>5, <1>6, <1>8, <1>9, <1>10, <1>11, <1>12, <1>13, <1>14

\* The callbacks of the tunnel.
LEMMA CopyTidy ==
  ASSUME Roomy, LinkInv, Tidy, NEW fd \in Fd, NEW c \in Conn, items[fd].owner = c
  PROVE  /\ CopyRead(c, fd) => Tidy'
         /\ CopyEof(c, fd) => Tidy'
         /\ CopyWrite(c, fd) => Tidy'
         /\ CopyWritePart(c, fd) => Tidy'
<1> DEFINE e == Ends(c, fd)
           Kept(t) == \A g \in Fd : t[g].owner = items[g].owner
           Same(v) == v.client_fd = conn[c].client_fd /\ v.origin_fd = conn[c].origin_fd
<1>0. /\ conn[c] \in ConnRecord /\ items \in Table
      /\ e.reads \in {"rb", "wb"} /\ e.writes \in {"rb", "wb"}
  BY EndsType DEF LinkInv, TypeOK, Table
<1>1. ASSUME ReadEvent(fd) \/ WriteEvent(fd), Done(c) PROVE Tidy'
  BY <1>1, DoneTidy
<1>2. ASSUME NEW v, NEW t, Becomes(c, v, t), Same(v), Kept(t) PROVE Tidy'
  BY <1>2, BecomesTidy
<1>3. /\ \A op, g : Kept(Additive(items, g, op)) /\ Kept(Reduction(items, g, op))
      /\ \A op \in {"OP_READ", "OP_WRITE"} : \A q, g :
           Kept(Additive(Reduction(items, fd, op), g, q))
  <2>1. ASSUME NEW op, NEW g PROVE Kept(Additive(items, g, op)) /\ Kept(Reduction(items, g, op))
    BY <1>0, OwnersKept
  <2>2. ASSUME NEW op \in {"OP_READ", "OP_WRITE"}, NEW q, NEW g
        PROVE  Kept(Additive(Reduction(items, fd, op), g, q))
    <3> DEFINE u == Reduction(items, fd, op)
    <3>1. u \in Table /\ \A h \in Fd : u[h].owner = items[h].owner
      BY <1>0, <2>1, TableOps
    <3> HIDE DEF u
    <3>2. \A h \in Fd : Additive(u, g, q)[h].owner = u[h].owner
      BY <3>1, OwnersKept
    <3>3. \A h \in Fd : Additive(u, g, q)[h].owner = items[h].owner
      BY <3>1, <3>2
    <3> QED
      BY <3>3 DEF u
  <2> QED
    BY <2>1, <2>2
<1>4. /\ \A k \in {"rb", "wb"} : \A b : Same([conn[c] EXCEPT ![k] = b])
      /\ \A x : Same([conn[c] EXCEPT !.flags = x])
      /\ \A k \in {"rb", "wb"} : \A x : Same([conn[c] EXCEPT ![k] = FALSE, !.flags = x])
      /\ Same(conn[c])
  BY <1>0 DEF ConnRecord
<1>5. ASSUME CopyRead(c, fd) PROVE Tidy'
  <2> DEFINE v == [conn[c] EXCEPT ![e.reads] = TRUE]
             t == Additive(Reduction(items, fd, "OP_READ"), e.peer, "OP_WRITE")
  <2>1. ReadEvent(fd) /\ (Becomes(c, v, t) \/ Done(c))
    BY <1>5 DEF CopyRead
  <2>2. Same(v)
    BY <1>0, <1>4
  <2> HIDE DEF Same, Kept, v, e
  <2>3. Kept(t)
    BY <1>3
  <2> HIDE DEF t
  <2> QED
    BY <1>1, <1>2, <2>1, <2>2, <2>3
<1>6. ASSUME CopyEof(c, fd) PROVE Tidy'
  <2> DEFINE flags == conn[c].flags \ ({"reading_client", "reading_origin", e.mine}
                        \cup (IF conn[c][e.reads] THEN {} ELSE {e.theirs}))
             v == [conn[c] EXCEPT !.flags = flags]
             t == Reduction(items, fd, "OP_READ")
  <2>1. ReadEvent(fd) /\ (Becomes(c, v, t) \/ Done(c))
    BY <1>6 DEF CopyEof
  <2> HIDE DEF flags
  <2>2. Same(v)
    BY <1>4
  <2> HIDE DEF Same, Kept, v, e
  <2>3. Kept(t)
    BY <1>3
  <2> HIDE DEF t
  <2> QED
    BY <1>1, <1>2, <2>1, <2>2, <2>3
<1>7. ASSUME CopyWrite(c, fd) PROVE Tidy'
  <2> DEFINE flags == IF e.source \in conn[c].flags THEN conn[c].flags
                      ELSE conn[c].flags \ {e.mine}
             v == [conn[c] EXCEPT ![e.writes] = FALSE]
             w == [conn[c] EXCEPT ![e.writes] = FALSE, !.flags = flags]
             sent == Reduction(items, fd, "OP_WRITE")
             again == Additive(sent, e.peer, "OP_READ")
  <2>1. WriteEvent(fd) /\ (Becomes(c, v, again) \/ Becomes(c, w, sent) \/ Done(c))
    BY <1>7 DEF CopyWrite
  <2> HIDE DEF flags
  <2>2. Same(v) /\ Same(w)
    BY <1>0, <1>4
  <2> HIDE DEF Same, Kept, v, w, e
  <2>3. Kept(sent) /\ Kept(again)
    BY <1>3
  <2> HIDE DEF sent, again
  <2> QED
    BY <1>1, <1>2, <2>1, <2>2, <2>3
<1>8. ASSUME CopyWritePart(c, fd) PROVE Tidy'
  <2> DEFINE again == Additive(items, e.peer, "OP_READ")
  <2>1. Becomes(c, conn[c], again) \/ Becomes(c, conn[c], items)
    BY <1>8 DEF CopyWritePart
  <2>2. Kept(again) /\ Kept(items)
    BY <1>3
  <2> HIDE DEF Same, Kept, again
  <2> QED
    BY <1>2, <1>4, <2>1, <2>2
<1> QED
  BY <1>5, <1>6, <1>7, <1>8

\* The connection gets a descriptor more, which is registered as its own, or
\* none: neither is anything left open nor anything held unregistered.
LEMMA OriginTidy ==
  ASSUME LinkInv, Tidy, NEW c \in Conn, c \in pool,
         pc \in {"iterate", "notify"}, pc' \in {"select", "iterate", "notify"},
         Fds(c) = {conn[c].client_fd}, NEW f \in Fd \cup {NoFd},
         pool' = pool, \A d \in Conn \ {c} : conn'[d] = conn[d],
         conn'[c].client_fd = conn[c].client_fd, conn'[c].origin_fd = f,
         \A g \in Fd : g # f => items'[g].owner = items[g].owner /\ sock'[g] = sock[g],
         f # NoFd => items'[f].owner = c /\ items[f].owner = Nobody
  PROVE  Tidy'
<1>1. /\ pool \subseteq Conn /\ \A d \in pool : Fds(d) \subseteq Fd
      /\ \A d \in pool : \A g \in Fds(d) : items[g].owner = d
  BY FdsFacts DEF LinkInv, TypeOK, Tidy, Registered
<1>2. \A d \in Conn \ {c} : Fds(d)' = Fds(d)
  BY DEF Fds
<1>3. Fds(c)' = {conn[c].client_fd, f} \ {NoFd} /\ conn[c].client_fd # NoFd
  BY DEF Fds
<1>4. NoFdLeak'
  <2> SUFFICES ASSUME NEW g \in Fd, sock'[g] \notin {"free", "listen"}
               PROVE  \E d \in pool : g \in Fds(d)'
    BY DEF NoFdLeak
  <2>1. CASE g = f
    BY <1>3, <2>1, CoreAssumption DEF Fd, NoFd
  <2>2. CASE g # f
    <3>1. PICK d \in pool : g \in Fds(d)
      BY <2>2 DEF Tidy, NoFdLeak
    <3> QED
      BY <1>1, <1>2, <1>3, <3>1
  <2> QED
    BY <2>1, <2>2
<1>5. Registered'
  <2> SUFFICES ASSUME NEW d \in pool, NEW g \in Fds(d)' PROVE items'[g].owner = d
    BY DEF Registered
  <2>1. CASE d = c /\ g = f
    BY <1>3, <2>1
  <2>2. CASE d = c /\ g # f
    BY <1>1, <1>3, <2>2
  <2>3. CASE d # c
    <3>1. g \in Fds(d) /\ g \in Fd /\ items[g].owner = d
      BY <1>1, <1>2, <2>3
    <3>2. g # f
      BY <1>1, <2>3, <3>1, CoreAssumption DEF Fd, NoFd
    <3> QED
      BY <3>1, <3>2
  <2> QED
    BY <2>1, <2>2, <2>3
<1> QED
  BY <1>4, <1>5 DEF Tidy, NoAbort

\* With a slot for it, a connect() that is under way is always registered.
LEMMA ConnectPending ==
  ASSUME Roomy, NeverAtOnce, LinkInv, pc # "aborted", NEW c \in Conn, NEW t \in Table,
         \A g \in Fd : t[g].owner = items[g].owner,
         NEW f \in NewFd, NEW o \in ConnectOutcomes, NEW r, r = ConnectThroughIp(c, t, f, o)
  PROVE  /\ r.ret \in {"REQUEST_WRITE", "ORIGIN_CONNECT"} /\ f \in Fd \cup {NoFd}
         /\ \A g \in Fd : g # f => r.items[g].owner = items[g].owner /\ r.sock[g] = sock[g]
         /\ f # NoFd => r.items[f].owner = c /\ items[f].owner = Nobody
<1>1. o = "inprogress" /\ f \in Fd \cup {NoFd}
  BY FdFacts DEF NeverAtOnce
<1>2. CASE f = NoFd
  <2>1. /\ r.ret = "REQUEST_WRITE" /\ r.sock = sock
        /\ r.items = SetInterest(t, conn[c].client_fd, {"OP_WRITE"})
    BY <1>2 DEF ConnectThroughIp
  <2>2. \A g \in Fd : r.items[g].owner = t[g].owner
    BY <2>1, OwnersKept, FdFacts
  <2> QED
    BY <1>1, <1>2, <2>1, <2>2
<1>3. CASE f # NoFd
  <2>1. f \in Fd /\ items[f].owner = Nobody
    BY <1>3, NewFdFacts
  <2>2. CanRegister(t, f)
    BY <2>1, CoreAssumption, ItemsMaxAssumption DEF Roomy, CanRegister, ValidFd, Used, Fd
  <2>3. /\ r.ret = "ORIGIN_CONNECT" /\ r.items = Register(t, f, {"OP_WRITE"}, c)
        /\ r.sock = [sock EXCEPT ![f] = "connecting"]
    BY <1>1, <1>3, <2>2 DEF ConnectThroughIp
  <2>4. sock \in SockType
    BY DEF LinkInv, TypeOK, SockType
  <2>5. /\ r.items[f].owner = c
        /\ \A g \in Fd : g # f => r.items[g] = t[g] /\ r.sock[g] = sock[g]
    BY <2>1, <2>3, <2>4 DEF Register, Table, SockType
  <2> QED
    BY <1>1, <2>1, <2>3, <2>5
<1> QED
  BY <1>2, <1>3

\* The steps that open a descriptor, and the answer when none is left to try.
LEMMA OpeningTidy ==
  ASSUME Roomy, NeverAtOnce, LinkInv, Tidy, NEW c \in Conn
  PROVE  /\ \A f \in NewFd : Accept(c, f) => Tidy'
         /\ \A fd \in Fd, f \in NewFd, o \in ConnectOutcomes :
              items[fd].owner = c /\ RequestReadIp(c, fd, f, o) => Tidy'
         /\ \A f \in NewFd, o \in ConnectOutcomes : TryAddress(c, f, o) => Tidy'
         /\ NoAddressLeft(c) => Tidy'
<1>0. /\ conn \in [Conn -> ConnRecord] /\ conn[c] \in ConnRecord /\ items \in Table
      /\ sock \in SockType /\ pool \subseteq Conn
      /\ \A d \in pool : Fds(d) \subseteq Fd
  BY FdsFacts DEF LinkInv, TypeOK, Table, SockType
<1>1. ASSUME NEW f \in NewFd, Accept(c, f) PROVE Tidy'
  <2>1. /\ pc = "iterate" /\ pc' = pc /\ c \notin pool /\ f # NoFd /\ pool' = pool \cup {c}
    BY <1>1 DEF Accept, ReadEvent
  <2>2. f \in Fd /\ items[f].owner = Nobody /\ \A d \in pool : f \notin Fds(d)
    BY <2>1, NewFdFacts
  <2>3. CanRegister(items, f)
    BY <2>2, CoreAssumption, ItemsMaxAssumption DEF Roomy, CanRegister, ValidFd, Used, Fd
  <2>4. /\ conn' = [conn EXCEPT ![c] = NewConn(f)]
        /\ items' = Register(items, f, {"OP_READ"}, c)
        /\ sock' = [sock EXCEPT ![f] = "client"]
    BY <1>1, <2>3 DEF Accept
  <2>5. /\ items'[f].owner = c /\ \A g \in Fd \ {f} : items'[g] = items[g] /\ sock'[g] = sock[g]
    BY <1>0, <2>2, <2>4 DEF Register, Table, SockType
  <2>6. /\ \A d \in Conn \ {c} : Fds(d)' = Fds(d)
        /\ Fds(c)' = {f}
    BY <1>0, <2>1, <2>4 DEF Fds, NewConn
  <2>7. NoFdLeak'
    <3> SUFFICES ASSUME NEW g \in Fd, sock'[g] \notin {"free", "listen"}
                 PROVE  \E d \in pool' : g \in Fds(d)'
      BY DEF NoFdLeak
    <3>1. CASE g = f
      BY <2>1, <2>6, <3>1
    <3>2. CASE g # f
      <4>1. PICK d \in pool : g \in Fds(d)
        BY <2>1, <2>5, <3>2 DEF Tidy, NoFdLeak
      <4> QED
        BY <1>0, <2>1, <2>6, <4>1
    <3> QED
      BY <3>1, <3>2
  <2>8. Registered'
    <3> SUFFICES ASSUME NEW d \in pool', NEW g \in Fds(d)' PROVE items'[g].owner = d
      BY DEF Registered
    <3>1. CASE d = c
      BY <2>5, <2>6, <3>1
    <3>2. CASE d # c
      <4>1. d \in pool /\ g \in Fds(d) /\ g \in Fd /\ g # f
        BY <1>0, <2>1, <2>2, <2>6, <3>2
      <4> QED
        BY <2>1, <2>5, <4>1 DEF Tidy, Registered
    <3> QED
      BY <3>1, <3>2
  <2> QED
    BY <2>1, <2>7, <2>8 DEF Tidy, NoAbort
<1>2. ASSUME NEW fd \in Fd, NEW f \in NewFd, NEW o \in ConnectOutcomes,
             items[fd].owner = c, RequestReadIp(c, fd, f, o)
      PROVE  Tidy'
  <2> DEFINE t == SetInterest(items, fd, {})
             r == ConnectThroughIp(c, t, f, o)
  <2>1. /\ pc = "iterate" /\ c \in pool /\ fd \in Fds(c) /\ conn[c].client_fd \in Fds(c)
    BY <1>2, EventOf DEF RequestReadIp
  <2>2. conn[c].origin_fd = NoFd
    BY <1>2 DEF RequestReadIp, Serves, LinkInv, Locals, Local, Early
  <2>3. Fds(c) = {conn[c].client_fd}
    BY <2>1, <2>2 DEF Fds
  <2>4. t \in Table /\ \A g \in Fd : t[g].owner = items[g].owner
    <3>1. {} \in Interest
      BY FdFacts
    <3>2. t \in Table
      BY <1>0, <3>1, TableOps
    <3>3. \A g \in Fd : t[g].owner = items[g].owner
      BY <1>0, <3>1, OwnersKept
    <3> QED
      BY <3>2, <3>3
  <2>5. /\ conn' = [conn EXCEPT ![c].st = r.ret, ![c].reply = r.reply, ![c].origin_fd = f]
        /\ items' = r.items /\ sock' = r.sock /\ UNCHANGED <<pool, pc>>
    BY <1>2 DEF RequestReadIp
  <2> HIDE DEF t
  <2>6. /\ f \in Fd \cup {NoFd}
        /\ \A g \in Fd : g # f => r.items[g].owner = items[g].owner /\ r.sock[g] = sock[g]
        /\ f # NoFd => r.items[f].owner = c /\ items[f].owner = Nobody
    BY <2>1, <2>4, ConnectPending
  <2> HIDE DEF r
  <2>7. /\ \A d \in Conn \ {c} : conn'[d] = conn[d]
        /\ conn'[c].client_fd = conn[c].client_fd /\ conn'[c].origin_fd = f
    BY <1>0, <2>5 DEF ConnRecord
  <2>8. /\ pool' = pool /\ pc \in {"iterate", "notify"} /\ pc' \in {"select", "iterate", "notify"}
        /\ \A g \in Fd : g # f => items'[g].owner = items[g].owner /\ sock'[g] = sock[g]
        /\ f # NoFd => items'[f].owner = c /\ items[f].owner = Nobody
    BY <2>1, <2>5, <2>6
  <2> QED
    BY <2>1, <2>3, <2>6, <2>7, <2>8, OriginTidy
<1>3. ASSUME Notified(c)
      PROVE  /\ pc = "notify" /\ c \in pool /\ Fds(c) = {conn[c].client_fd}
             /\ AfterJobs(Tail(jobs)) \in {"select", "notify"}
  <2>1. /\ pc = "notify" /\ c \in pool /\ conn[c].client_fd \in Fds(c)
        /\ \A g \in Fd : items[g].owner = c => g = conn[c].client_fd
    BY <1>3, JobOf
  <2>2. \A g \in Fds(c) : g \in Fd /\ items[g].owner = c
    BY <1>0, <2>1 DEF Tidy, Registered
  <2> QED
    BY <2>1, <2>2 DEF AfterJobs
<1>4. ASSUME NEW f \in NewFd, NEW o \in ConnectOutcomes, TryAddress(c, f, o) PROVE Tidy'
  <2> DEFINE r == ConnectThroughIp(c, items, f, o)
             next == [conn[c] EXCEPT !.reply = r.reply, !.origin_fd = f, !.addrs = @ - 1]
             last == [next EXCEPT !.dns = "none"]
  <2>1. Notified(c)
    BY <1>4 DEF TryAddress
  <2>2. /\ pc = "notify" /\ c \in pool /\ Fds(c) = {conn[c].client_fd}
        /\ AfterJobs(Tail(jobs)) \in {"select", "notify"}
    BY <1>3, <2>1
  <2>3. /\ r.ret # "ERROR" /\ f \in Fd \cup {NoFd}
        /\ \A g \in Fd : g # f => r.items[g].owner = items[g].owner /\ r.sock[g] = sock[g]
        /\ f # NoFd => r.items[f].owner = c /\ items[f].owner = Nobody
    BY <1>0, <2>2, ConnectPending
  <2>4. /\ conn' = [conn EXCEPT ![c] = last] \/ conn' = [conn EXCEPT ![c] = next]
        /\ items' = r.items /\ sock' = r.sock /\ pool' = pool
        /\ pc' \in {pc, AfterJobs(Tail(jobs))}
    BY <1>4, <2>3 DEF TryAddress
  <2> HIDE DEF r
  <2>5. /\ next.client_fd = conn[c].client_fd /\ next.origin_fd = f
        /\ last.client_fd = conn[c].client_fd /\ last.origin_fd = f
    BY <1>0 DEF ConnRecord
  <2> HIDE DEF last, next
  <2>6. /\ \A d \in Conn \ {c} : conn'[d] = conn[d]
        /\ conn'[c].client_fd = conn[c].client_fd /\ conn'[c].origin_fd = f
    BY <1>0, <2>4, <2>5
  <2> QED
    BY <2>2, <2>3, <2>4, <2>6, OriginTidy
<1>5. ASSUME NoAddressLeft(c) PROVE Tidy'
  <2>1. /\ pc = "notify" /\ AfterJobs(Tail(jobs)) \in {"select", "notify"}
    BY <1>3, <1>5 DEF NoAddressLeft
  <2>2. /\ pool' = pool /\ sock' = sock /\ pc' = AfterJobs(Tail(jobs))
        /\ items' = SetInterest(items, conn[c].client_fd, {"OP_WRITE"})
    BY <1>5 DEF NoAddressLeft
  <2>3. \A d \in Conn : /\ conn'[d].client_fd = conn[d].client_fd
                        /\ conn'[d].origin_fd = conn[d].origin_fd
    BY <1>0, <1>5 DEF NoAddressLeft, ConnRecord
  <2>4. \A g \in Fd : items'[g].owner = items[g].owner
    BY <1>0, <2>2, OwnersKept, FdFacts
  <2> QED
    BY <2>1, <2>2, <2>3, <2>4, KeepsTidy
<1> QED
  BY <1>1, <1>2, <1>4, <1>5

\* Every step keeps what is held registered and what is open held.
LEMMA TidyStep ==
  ASSUME Roomy, NeverAtOnce, LinkInv, Tidy, [Next]_vars
  PROVE  Tidy'
<1>1. \A fd \in Current : fd \in Fd
  BY DEF Current, Due
<1>2. CASE Callback
  <2>1. ASSUME NEW fd \in Current, NEW c \in {items[fd].owner} \cap Conn
        PROVE  fd \in Fd /\ c \in Conn /\ items[fd].owner = c
    BY <1>1
  <2> QED
    BY <1>2, <2>1, CallbackTidy, CopyTidy, OpeningTidy DEF Callback
<1>3. CASE Stop
  BY <1>3 DEF Stop, Tidy, NoAbort, NoFdLeak, Registered
<1>4. CASE Resolver
  <2>1. PICK c \in Conn, n \in 0..MaxAddrs : Resolve(c, n)
    BY <1>4 DEF Resolver
  <2>2. \A d \in Conn : /\ conn'[d].client_fd = conn[d].client_fd
                        /\ conn'[d].origin_fd = conn[d].origin_fd
    BY <2>1 DEF Resolve, LinkInv, TypeOK, ConnRecord
  <2> QED
    BY <2>1, <2>2, KeepsTidy DEF Resolve
<1>5. CASE Network
  <2>1. PICK fd \in Fd, a \in {"up", "refused"} : NetworkAnswers(fd, a)
    BY <1>5 DEF Network
  <2>2. \A g \in Fd : sock[g] \in {"free", "listen"} => sock'[g] = sock[g]
    BY <2>1 DEF NetworkAnswers, LinkInv, TypeOK
  <2> QED
    BY <2>1, <2>2, KeepsTidy DEF NetworkAnswers
<1>6. CASE Loop \/ BrokenPipe \/ Ended \/ UNCHANGED vars
  <2>1. UNCHANGED <<conn, pool, items, sock>>
    BY <1>6 DEF Loop, Select, Interrupted, EndIteration, Pass, BrokenPipe, SendKills, Ended, vars
  <2>2. \/ pc' = pc
        \/ /\ pc \in {"select", "iterate", "notify"}
           /\ pc' \in {"select", "iterate", "notify", "killed"}
    BY <1>6 DEF Loop, Select, Interrupted, EndIteration, AfterJobs, Pass, BrokenPipe, SendKills,
                WriteEvent, Ended, vars
  <2> QED
    BY <2>1, <2>2, KeepsTidy
<1> QED
  BY <1>2, <1>3, <1>4, <1>5, <1>6 DEF Next

\* It is so in every behaviour that meets the three conditions.
LEMMA TidyHolds == WideFd /\ Roomy /\ NeverAtOnce => (Spec => []Tidy)
<1> SUFFICES ASSUME WideFd, Roomy, NeverAtOnce PROVE Spec => []Tidy
  OBVIOUS
<1>1. Init => Tidy
  BY DEF Init, Tidy, NoAbort, NoFdLeak, Registered
<1>2. LinkInv /\ Tidy /\ [Next]_vars => Tidy'
  BY TidyStep
<1>3. Spec => []LinkInv
  BY LinksHold
<1> QED
  BY <1>1, <1>2, <1>3, PTL DEF Spec

\* The process is never aborted by socksv5_done, if the selector has a slot for
\* every descriptor and no connect() ends at once.
THEOREM NoAbortCorrect == WideFd /\ Roomy /\ NeverAtOnce => (Spec => []NoAbort)
<1>1. Tidy => NoAbort
  BY DEF Tidy
<1> QED
  BY <1>1, TidyHolds, PTL

\* Under the same conditions every open descriptor is one of a connection of
\* the pool, however many addresses a name has and however often none is free.
THEOREM NoFdLeakCorrect == WideFd /\ Roomy /\ NeverAtOnce => (Spec => []NoFdLeak)
<1>1. Tidy => NoFdLeak
  BY DEF Tidy
<1> QED
  BY <1>1, TidyHolds, PTL

-----------------------------------------------------------------------------
(* The connection to the origin *)

\* What the theorems below assume of the constants; each of the three is
\* needed, as the runs and the README show.
Served == WideFd /\ Roomy /\ NeverAtOnce

\* A socket that connect() was called on.
Dialled == {"connecting", "up", "refused"}

\* A live connection has its client, and another descriptor for its origin,
\* on which connect() was called; it has one when the attempt is under way.
Linked(c) ==
  /\ conn[c].client_fd # NoFd /\ conn[c].origin_fd # conn[c].client_fd
  /\ conn[c].origin_fd # NoFd => sock[conn[c].origin_fd] \in Dialled
  /\ conn[c].st = "ORIGIN_CONNECT" /\ conn[c].dns = "none" => conn[c].origin_fd # NoFd

AllLinked == (pc = "stopped" => pool = {}) /\ \A c \in pool : Linked(c)

\* All that the proofs below know of a state.
ServiceInv == LinkInv /\ Tidy /\ AllLinked

\* While its name is being resolved a connection has no origin.
LEMMA ResolvesWithout ==
  ASSUME ServiceInv, NEW c \in Conn, conn[c].dns # "none"
  PROVE  c \in pool => conn[c].origin_fd = NoFd
<1> SUFFICES ASSUME c \in pool, conn[c].origin_fd # NoFd PROVE FALSE
  OBVIOUS
<1>1. conn[c].origin_fd \in Fds(c) /\ Fds(c) \subseteq Fd
  BY FdsFacts DEF Fds, ServiceInv
<1>2. pc # "stopped" => items[conn[c].origin_fd].owner = c
  BY <1>1 DEF ServiceInv, Tidy, Registered
<1>3. pc # "stopped" => conn[c].origin_fd = conn[c].client_fd
  BY <1>1, <1>2 DEF ServiceInv, LinkInv, Waiting
<1>4. pc # "stopped"
  BY DEF ServiceInv, AllLinked
<1> QED
  BY <1>3, <1>4 DEF ServiceInv, AllLinked, Linked

\* A step that leaves c its descriptors and takes no attempt of it back.
LEMMA KeepsLinked ==
  ASSUME NEW c \in Conn, Linked(c),
         conn'[c].client_fd = conn[c].client_fd, conn'[c].origin_fd = conn[c].origin_fd,
         conn'[c].st = "ORIGIN_CONNECT" /\ conn'[c].dns = "none" =>
           conn[c].st = "ORIGIN_CONNECT" /\ conn[c].dns = "none",
         conn[c].origin_fd # NoFd => sock'[conn[c].origin_fd] = sock[conn[c].origin_fd]
  PROVE  Linked(c)'
BY DEF Linked

\* A callback that leaves its connection its descriptors.
LEMMA BecomesLinked ==
  ASSUME ServiceInv, NEW c \in Conn, c \in pool, NEW v, NEW t, Becomes(c, v, t),
         v.client_fd = conn[c].client_fd, v.origin_fd = conn[c].origin_fd,
         v.st = "ORIGIN_CONNECT" => v.dns # "none"
  PROVE  AllLinked'
<1>1. /\ conn' = [conn EXCEPT ![c] = v] /\ UNCHANGED <<pool, sock, pc>>
  BY DEF Becomes
<1>2. conn \in [Conn -> ConnRecord] /\ pool \subseteq Conn
  BY DEF ServiceInv, LinkInv, TypeOK
<1>3. ASSUME NEW d \in pool PROVE Linked(d)'
  <2>1. Linked(d) /\ d \in Conn
    BY <1>2 DEF ServiceInv, AllLinked
  <2>2. conn'[d] = IF d = c THEN v ELSE conn[d]
    BY <1>1, <1>2, <2>1
  <2> QED
    BY <1>1, <2>1, <2>2, KeepsLinked
<1> QED
  BY <1>1, <1>3 DEF ServiceInv, AllLinked

\* What is not aborted is disconnected: the others keep their descriptors, and
\* the sockets of these are as they were.
LEMMA DoneEnds ==
  ASSUME ServiceInv, NEW fd \in Fd, NEW c \in Conn, items[fd].owner = c,
         ReadEvent(fd) \/ WriteEvent(fd), Done(c), Tidy'
  PROVE  /\ c \in pool /\ pool' = pool \ {c} /\ pc' = pc
         /\ \A d \in Conn \ {c} : conn'[d] = conn[d]
         /\ \A d \in pool \ {c} : \A g \in Fds(d) :
              items'[g] = items[g] /\ sock'[g] = sock[g]
<1>1. c \in pool /\ pc = "iterate"
  BY EventOf DEF ServiceInv
<1>2. Disconnect(c)
  BY DEF Done, Abort, Tidy, NoAbort
<1>3. /\ items' = Unregister(items, Fds(c)) /\ sock' = Closed(sock, Fds(c))
      /\ pool' = pool \ {c} /\ conn' = [conn EXCEPT ![c] = Blank] /\ pc' = pc
  BY <1>2 DEF Disconnect
<1>4. \A d \in Conn \ {c} : conn'[d] = conn[d]
  BY <1>3 DEF ServiceInv, LinkInv, TypeOK
<1>5. ASSUME NEW d \in pool \ {c}, NEW g \in Fds(d)
      PROVE  items'[g] = items[g] /\ sock'[g] = sock[g]
  <2>1. d \in Conn /\ g \notin Fds(c)
    BY <1>1 DEF ServiceInv, LinkInv, TypeOK, Owned
  <2>2. g \in Fd
    BY <2>1, FdsFacts DEF ServiceInv
  <2> QED
    BY <1>3, <2>1, <2>2 DEF Unregister, Closed, ServiceInv, LinkInv, TypeOK
<1> QED
  BY <1>1, <1>3, <1>4, <1>5

\* socksv5_done leaves the other connections their links.
LEMMA DoneLinked ==
  ASSUME ServiceInv, NEW fd \in Fd, NEW c \in Conn, items[fd].owner = c,
         ReadEvent(fd) \/ WriteEvent(fd), Done(c), Tidy'
  PROVE  AllLinked'
<1>1. /\ c \in pool /\ pool' = pool \ {c} /\ pc' = pc
      /\ \A d \in Conn \ {c} : conn'[d] = conn[d]
      /\ \A d \in pool \ {c} : \A g \in Fds(d) : sock'[g] = sock[g]
  BY DoneEnds
<1>2. ASSUME NEW d \in pool \ {c} PROVE Linked(d)'
  <2>1. Linked(d) /\ d \in Conn
    BY DEF ServiceInv, AllLinked, LinkInv, TypeOK
  <2>2. conn[d].origin_fd # NoFd => conn[d].origin_fd \in Fds(d)
    BY DEF Fds
  <2> QED
    BY <1>1, <2>1, <2>2, KeepsLinked
<1> QED
  BY <1>1, <1>2 DEF ServiceInv, AllLinked

-----------------------------------------------------------------------------
(* What the protocol sees of a step *)

\* The phases that a struct which holds its client's descriptor may be in.
Phases == {"greeting", "auth", "welcome", "request", "connecting", "granting",
           "relaying", "leaving"}

LEMMA PhaseRange == \A v \in ConnRecord : PhaseOf(v) \in Phases
BY DEF ConnRecord, State, PhaseOf, Phases

\* A link that is dialled is pending, up or refused, as its socket is.
LEMMA LinkRange ==
  /\ LinkOf("connecting") = "pending" /\ LinkOf("up") = "up" /\ LinkOf("refused") = "refused"
  /\ \A k \in Dialled : LinkOf(k) \in {"pending", "up", "refused"}
BY DEF LinkOf, Dialled

\* Phase and link of a connection in the pool.
LEMMA ViewOf ==
  ASSUME ServiceInv, NEW c \in Conn, c \in pool
  PROVE  /\ Phase(c) = PhaseOf(conn[c]) /\ Phase(c) \in Phases
         /\ conn[c].origin_fd = NoFd => Link(c) = "none"
         /\ conn[c].origin_fd # NoFd =>
              /\ Link(c) = LinkOf(sock[conn[c].origin_fd])
              /\ Link(c) \in {"pending", "up", "refused"}
BY PhaseRange, LinkRange DEF ServiceInv, AllLinked, Linked, LinkInv, TypeOK, Phase, Link

\* A step that touches at most one client is what happens to that client.
LEMMA OneClient ==
  ASSUME NEW c \in Conn,
         \A d \in Conn \ {c} : Phase(d)' = Phase(d) /\ Link(d)' = Link(d)
  PROVE  /\ Phase(c)' = Phase(c) /\ Link(c)' = Link(c) => UNCHANGED Protocol!vars
         /\ \A p : /\ <<Phase(c), p>> \in Protocol!Edge
                   /\ Phase(c)' = p /\ Link(c)' = Link(c)
                   /\ p = "granting" =>
                        Link(c) \in IF Phase(c) = "request" THEN {"none"} ELSE {"pending", "up"}
                   /\ p = "relaying" => Link(c) # "none"
                   => Protocol!Next
         /\ /\ Phase(c) \in {"request", "connecting"} /\ Link(c) \in {"none", "refused"}
            /\ Phase(c)' = "connecting" /\ Link(c)' = "pending"
            => Protocol!Next
         /\ /\ Link(c) = "pending" /\ Link(c)' \in {"up", "refused"} /\ Phase(c)' = Phase(c)
            => Protocol!Next
         /\ /\ Phase(c) # "idle" /\ Phase(c)' = "idle" /\ Link(c)' = "none"
            => Protocol!Next
<1> DEFINE P == [d \in Conn |-> Phase(d)]
           L == [d \in Conn |-> Link(d)]
<1>1. /\ P' = [P EXCEPT ![c] = Phase(c)'] /\ L' = [L EXCEPT ![c] = Link(c)']
      /\ P[c] = Phase(c) /\ L[c] = Link(c)
  OBVIOUS
<1>2. Phase(c)' = Phase(c) => P' = P
  BY <1>1
<1>3. Link(c)' = Link(c) => L' = L
  BY <1>1
<1>4. Phase(c)' = Phase(c) /\ Link(c)' = Link(c) => UNCHANGED Protocol!vars
  BY <1>2, <1>3 DEF Protocol!vars
<1> HIDE DEF P, L
<1>5. ASSUME NEW p, <<Phase(c), p>> \in Protocol!Edge,
             Phase(c)' = p, Link(c)' = Link(c),
             p = "granting" =>
               Link(c) \in IF Phase(c) = "request" THEN {"none"} ELSE {"pending", "up"},
             p = "relaying" => Link(c) # "none"
      PROVE  Protocol!Next
  <2>1. Protocol!Advance(c, p)
    BY <1>1, <1>3, <1>5 DEF Protocol!Advance, P, L
  <2> QED
    BY <1>5, <2>1 DEF Protocol!Next
<1>6. ASSUME Phase(c) \in {"request", "connecting"}, Link(c) \in {"none", "refused"},
             Phase(c)' = "connecting", Link(c)' = "pending"
      PROVE  Protocol!Next
  <2>1. Protocol!Dial(c, "pending")
    BY <1>1, <1>6 DEF Protocol!Dial, P, L
  <2> QED
    BY <2>1 DEF Protocol!Next
<1>7. ASSUME Link(c) = "pending", Link(c)' \in {"up", "refused"}, Phase(c)' = Phase(c)
      PROVE  Protocol!Next
  <2>1. Protocol!Answer(c, Link(c)')
    BY <1>1, <1>2, <1>7 DEF Protocol!Answer, P, L
  <2> QED
    BY <1>7, <2>1 DEF Protocol!Next
<1>8. ASSUME Phase(c) # "idle", Phase(c)' = "idle", Link(c)' = "none"
      PROVE  Protocol!Next
  <2>1. Protocol!Leave(c)
    BY <1>1, <1>8 DEF Protocol!Leave, P, L
  <2> QED
    BY <2>1 DEF Protocol!Next
<1> QED
  BY <1>4, <1>5, <1>6, <1>7, <1>8

\* What is to be shown of each step.
Serving == AllLinked' /\ [Protocol!Next]_(Protocol!vars)

\* A callback that leaves its connection its descriptors and takes it to the
\* phase of v: nothing happens, or the client advances.
LEMMA BecomesServes ==
  ASSUME ServiceInv, NEW c \in Conn, c \in pool, NEW v, NEW t, Becomes(c, v, t),
         v.client_fd = conn[c].client_fd, v.origin_fd = conn[c].origin_fd,
         v.st = "ORIGIN_CONNECT" => v.dns # "none",
         \/ PhaseOf(v) = PhaseOf(conn[c])
         \/ /\ <<PhaseOf(conn[c]), PhaseOf(v)>> \in Protocol!Edge
            /\ PhaseOf(v) = "granting" => /\ PhaseOf(conn[c]) # "request"
                                          /\ conn[c].origin_fd # NoFd
                                          /\ sock[conn[c].origin_fd] # "refused"
            /\ PhaseOf(v) = "relaying" => conn[c].origin_fd # NoFd
  PROVE  Serving
<1>1. AllLinked'
  BY BecomesLinked
<1>2. /\ conn' = [conn EXCEPT ![c] = v] /\ pool' = pool /\ sock' = sock
      /\ conn \in [Conn -> ConnRecord]
  BY DEF Becomes, ServiceInv, LinkInv, TypeOK
<1>3. \A d \in Conn : conn'[d] = IF d = c THEN v ELSE conn[d]
  BY <1>2
<1>4. \A d \in Conn \ {c} : Phase(d)' = Phase(d) /\ Link(d)' = Link(d)
  BY <1>2, <1>3 DEF Phase, Link
<1>5. /\ Phase(c) = PhaseOf(conn[c]) /\ Phase(c)' = PhaseOf(v) /\ Link(c)' = Link(c)
  BY <1>2, <1>3 DEF Phase, Link, ServiceInv, AllLinked, Linked
<1>6. ASSUME conn[c].origin_fd # NoFd
      PROVE  /\ Link(c) # "none"
             /\ sock[conn[c].origin_fd] # "refused" => Link(c) \in {"up", "pending"}
  BY <1>6, LinkRange, ViewOf DEF ServiceInv, AllLinked, Linked, Dialled
<1>7. CASE PhaseOf(v) = PhaseOf(conn[c])
  BY <1>1, <1>4, <1>5, <1>7, OneClient DEF Serving
<1>8. CASE PhaseOf(v) # PhaseOf(conn[c])
  <2>1. /\ <<Phase(c), Phase(c)'>> \in Protocol!Edge
        /\ Phase(c)' = "granting" =>
             Link(c) \in IF Phase(c) = "request" THEN {"none"} ELSE {"pending", "up"}
        /\ Phase(c)' = "relaying" => Link(c) # "none"
    BY <1>5, <1>6, <1>8
  <2>2. Protocol!Next
    BY <1>4, <1>5, <2>1, OneClient
  <2> QED
    BY <1>1, <2>2 DEF Serving
<1> QED
  BY <1>7, <1>8

\* socksv5_done: the client leaves.
LEMMA DoneServes ==
  ASSUME ServiceInv, NEW fd \in Fd, NEW c \in Conn, items[fd].owner = c,
         ReadEvent(fd) \/ WriteEvent(fd), Done(c), Tidy'
  PROVE  Serving
<1>1. AllLinked'
  BY DoneLinked
<1>2. /\ c \in pool /\ pool' = pool \ {c}
      /\ \A d \in Conn \ {c} : conn'[d] = conn[d]
      /\ \A d \in pool \ {c} : \A g \in Fds(d) : sock'[g] = sock[g]
  BY DoneEnds
<1>3. \A d \in Conn : conn[d].origin_fd # NoFd => conn[d].origin_fd \in Fds(d)
  BY DEF Fds
<1>4. \A d \in Conn \ {c} : Phase(d)' = Phase(d) /\ Link(d)' = Link(d)
  BY <1>2, <1>3 DEF Phase, Link
<1>5. Phase(c)' = "idle" /\ Link(c)' = "none"
  BY <1>2 DEF Phase, Link
<1>6. Phase(c) # "idle"
  BY <1>2, ViewOf DEF Phases
<1>7. Protocol!Next
  BY <1>4, <1>5, <1>6, OneClient
<1> QED
  BY <1>1, <1>7 DEF Serving

-----------------------------------------------------------------------------
(* The callbacks *)

\* Those that read and answer the messages of the handshake.
LEMMA HandshakeServes ==
  ASSUME ServiceInv, Tidy', NEW fd \in Fd, NEW c \in Conn, items[fd].owner = c
  PROVE  /\ IoFails(c, fd) => Serving
         /\ \A m \in {"noauth", "userpass", "none"} : GreetingRead(c, fd, m) => Serving
         /\ GreetingWrite(c, fd) => Serving
         /\ \A ok \in BOOLEAN : AuthRead(c, fd, ok) => Serving
         /\ AuthWrite(c, fd) => Serving
         /\ RequestReadError(c, fd) => Serving
         /\ RequestReadFqdn(c, fd) => Serving
<1> DEFINE Same(v) == v.client_fd = conn[c].client_fd /\ v.origin_fd = conn[c].origin_fd
           Step(v) == \/ PhaseOf(v) = PhaseOf(conn[c])
                      \/ /\ <<PhaseOf(conn[c]), PhaseOf(v)>> \in Protocol!Edge
                         /\ PhaseOf(v) \notin {"granting", "relaying"}
<1>0. conn[c] \in ConnRecord
  BY DEF ServiceInv, LinkInv, TypeOK
<1>1. ASSUME ReadEvent(fd) \/ WriteEvent(fd), Done(c) PROVE Serving
  BY <1>1, DoneServes
<1>2. ASSUME ReadEvent(fd) \/ WriteEvent(fd), NEW v, NEW t, Becomes(c, v, t), Same(v), Step(v),
             v.st = "ORIGIN_CONNECT" => v.dns # "none"
      PROVE  Serving
  <2>1. c \in pool
    BY <1>2, EventOf DEF ServiceInv
  <2> QED
    BY <1>2, <2>1, BecomesServes
<1>3. IoFails(c, fd) => Serving
  BY <1>1 DEF IoFails
<1>4. ASSUME NEW m \in {"noauth", "userpass", "none"}, GreetingRead(c, fd, m) PROVE Serving
  <2> DEFINE v == [conn[c] EXCEPT !.st = "GREETING_WRITE", !.method = m]
  <2>1. Same(v) /\ v.st = "GREETING_WRITE" /\ v.method = m /\ conn[c].st = "GREETING_READ"
    BY <1>0, <1>4 DEF ConnRecord, GreetingRead, Serves
  <2>2. Becomes(c, v, SetInterest(items, fd, {"OP_WRITE"})) /\ ReadEvent(fd)
    BY <1>4 DEF GreetingRead
  <2> HIDE DEF v
  <2>3. Step(v)
    BY <2>1 DEF PhaseOf, Protocol!Edge
  <2> HIDE DEF Same, Step
  <2> QED
    BY <1>2, <2>1, <2>2, <2>3
<1>5. ASSUME GreetingWrite(c, fd) PROVE Serving
  <2> DEFINE v == [conn[c] EXCEPT !.st = "REQUEST_READ"]
             w == [conn[c] EXCEPT !.st = "AUTH_READ"]
             t == SetInterest(items, fd, {"OP_READ"})
  <2>1. /\ Same(v) /\ v.st = "REQUEST_READ" /\ Same(w) /\ w.st = "AUTH_READ"
        /\ conn[c].st = "GREETING_WRITE"
    BY <1>0, <1>5 DEF ConnRecord, GreetingWrite, Serves
  <2>2. /\ WriteEvent(fd)
        /\ \/ Becomes(c, v, t) /\ conn[c].method = "noauth"
           \/ Becomes(c, w, t) /\ conn[c].method = "userpass"
           \/ Done(c)
    BY <1>5 DEF GreetingWrite
  <2> HIDE DEF v, w, t
  <2>3. /\ conn[c].method = "noauth" => Step(v)
        /\ conn[c].method = "userpass" => Step(w)
    BY <2>1 DEF PhaseOf, Protocol!Edge
  <2> HIDE DEF Same, Step
  <2> QED
    BY <1>1, <1>2, <2>1, <2>2, <2>3
<1>6. ASSUME NEW ok \in BOOLEAN, AuthRead(c, fd, ok) PROVE Serving
  <2> DEFINE v == [conn[c] EXCEPT !.st = "AUTH_WRITE", !.authed = ok]
  <2>1. Same(v) /\ v.st = "AUTH_WRITE" /\ v.authed = ok /\ conn[c].st = "AUTH_READ"
    BY <1>0, <1>6 DEF ConnRecord, AuthRead, Serves
  <2>2. Becomes(c, v, SetInterest(items, fd, {"OP_WRITE"})) /\ ReadEvent(fd)
    BY <1>6 DEF AuthRead
  <2> HIDE DEF v
  <2>3. Step(v)
    BY <2>1 DEF PhaseOf, Protocol!Edge
  <2> HIDE DEF Same, Step
  <2> QED
    BY <1>2, <2>1, <2>2, <2>3
<1>7. ASSUME AuthWrite(c, fd) PROVE Serving
  <2> DEFINE v == [conn[c] EXCEPT !.st = "REQUEST_READ"]
             t == SetInterest(items, fd, {"OP_READ"})
  <2>1. Same(v) /\ v.st = "REQUEST_READ" /\ conn[c].st = "AUTH_WRITE"
    BY <1>0, <1>7 DEF ConnRecord, AuthWrite, Serves
  <2>2. WriteEvent(fd) /\ ((Becomes(c, v, t) /\ conn[c].authed) \/ Done(c))
    BY <1>7 DEF AuthWrite
  <2> HIDE DEF v, t
  <2>3. conn[c].authed => Step(v)
    BY <2>1 DEF PhaseOf, Protocol!Edge
  <2> HIDE DEF Same, Step
  <2> QED
    BY <1>1, <1>2, <2>1, <2>2, <2>3
<1>8. ASSUME RequestReadError(c, fd) PROVE Serving
  <2> DEFINE v == [conn[c] EXCEPT !.st = "REQUEST_WRITE", !.reply = "failure"]
  <2>1. /\ Same(v) /\ v.st = "REQUEST_WRITE" /\ v.reply = "failure"
        /\ conn[c].st = "REQUEST_READ"
    BY <1>0, <1>8 DEF ConnRecord, RequestReadError, Serves
  <2>2. Becomes(c, v, SetInterest(items, fd, {"OP_WRITE"})) /\ ReadEvent(fd)
    BY <1>8 DEF RequestReadError
  <2> HIDE DEF v
  <2>3. Step(v)
    BY <2>1 DEF PhaseOf, Protocol!Edge
  <2> HIDE DEF Same, Step
  <2> QED
    BY <1>2, <2>1, <2>2, <2>3
<1>9. ASSUME RequestReadFqdn(c, fd) PROVE Serving
  <2> DEFINE v == [conn[c] EXCEPT !.st = "ORIGIN_CONNECT", !.dns = "running"]
  <2>1. /\ Same(v) /\ v.st = "ORIGIN_CONNECT" /\ v.dns = "running"
        /\ conn[c].st = "REQUEST_READ"
    BY <1>0, <1>9 DEF ConnRecord, RequestReadFqdn, Serves
  <2>2. Becomes(c, v, SetInterest(items, fd, {})) /\ ReadEvent(fd)
    BY <1>9 DEF RequestReadFqdn
  <2> HIDE DEF v
  <2>3. Step(v)
    BY <2>1 DEF PhaseOf, Protocol!Edge
  <2> HIDE DEF Same, Step
  <2> QED
    BY <1>2, <2>1, <2>2, <2>3
<1> QED
  BY <1>3, <1>4, <1>5, <1>6, <1>7, <1>8, <1>9

\* The reply is chosen by what SO_ERROR says of the origin's socket, which is
\* the one whose connect() is verified; it is sent before anything is copied.
LEMMA ReplyServes ==
  ASSUME ServiceInv, Tidy', NEW fd \in Fd, NEW c \in Conn, items[fd].owner = c
  PROVE  /\ VerifyConnection(c, fd) => Serving
         /\ \A left \in Leftover : RequestWrite(c, fd, left) => Serving
<1>0. conn[c] \in ConnRecord
  BY DEF ServiceInv, LinkInv, TypeOK
<1>1. ASSUME VerifyConnection(c, fd) PROVE Serving
  <2> DEFINE re == IF sock[conn[c].origin_fd] = "refused" THEN "failure" ELSE "SUCCEDED"
             v == [conn[c] EXCEPT !.st = "REQUEST_WRITE", !.reply = re]
             t == SetInterest(SetInterest(items, fd, {}), conn[c].client_fd, {"OP_WRITE"})
  <2>1. /\ v.client_fd = conn[c].client_fd /\ v.origin_fd = conn[c].origin_fd
        /\ v.st = "REQUEST_WRITE" /\ v.reply = re /\ conn[c].st = "ORIGIN_CONNECT"
    BY <1>0, <1>1 DEF ConnRecord, VerifyConnection, Serves
  <2>2. Becomes(c, v, t) /\ WriteEvent(fd)
    BY <1>1 DEF VerifyConnection
  <2> HIDE DEF v, t
  <2>3. c \in pool /\ conn[c].dns = "none"
    BY <2>2, EventOf DEF ServiceInv
  <2>4. conn[c].origin_fd # NoFd
    BY <2>1, <2>3 DEF ServiceInv, AllLinked, Linked
  <2>5. /\ PhaseOf(conn[c]) = "connecting"
        /\ PhaseOf(v) = IF sock[conn[c].origin_fd] = "refused" THEN "leaving" ELSE "granting"
    BY <2>1 DEF PhaseOf
  <2>6. <<PhaseOf(conn[c]), PhaseOf(v)>> \in Protocol!Edge
    BY <2>5 DEF Protocol!Edge
  <2>7. /\ PhaseOf(v) = "granting" => sock[conn[c].origin_fd] # "refused"
        /\ PhaseOf(v) # "relaying" /\ PhaseOf(conn[c]) # "request"
    BY <2>5
  <2> QED
    BY <2>1, <2>2, <2>3, <2>4, <2>6, <2>7, BecomesServes
<1>2. ASSUME NEW left \in Leftover, RequestWrite(c, fd, left) PROVE Serving
  <2> DEFINE v == [conn[c] EXCEPT !.st = "COPY", !.flags = Flag, !.rb = left]
             t == SetInterest(SetInterest(items, fd, {"OP_READ"}), conn[c].origin_fd, {"OP_READ"})
  <2>1. /\ v.client_fd = conn[c].client_fd /\ v.origin_fd = conn[c].origin_fd
        /\ v.st = "COPY" /\ conn[c].st = "REQUEST_WRITE"
    BY <1>0, <1>2 DEF ConnRecord, RequestWrite, Serves
  <2>2. /\ WriteEvent(fd)
        /\ \/ /\ Becomes(c, v, t) /\ conn[c].reply = "SUCCEDED"
              /\ Used(items, conn[c].origin_fd)
           \/ Done(c)
    BY <1>2 DEF RequestWrite
  <2> HIDE DEF v, t
  <2>3. c \in pool
    BY <2>2, EventOf DEF ServiceInv
  <2>4. CASE Done(c)
    BY <2>2, <2>4, DoneServes
  <2>5. CASE /\ Becomes(c, v, t) /\ conn[c].reply = "SUCCEDED"
             /\ Used(items, conn[c].origin_fd)
    <3>1. conn[c].origin_fd # NoFd
      BY <2>5 DEF Used, ValidFd, NoFd
    <3>2. PhaseOf(conn[c]) = "granting" /\ PhaseOf(v) = "relaying"
      BY <2>1, <2>5 DEF PhaseOf
    <3>3. <<PhaseOf(conn[c]), PhaseOf(v)>> \in Protocol!Edge
      BY <3>2 DEF Protocol!Edge
    <3> QED
      BY <2>1, <2>3, <2>5, <3>1, <3>2, <3>3, BecomesServes
  <2> QED
    BY <2>2, <2>4, <2>5
<1> QED
  BY <1>1, <1>2

\* A tunnel stays one, or ends.
LEMMA CopyServes ==
  ASSUME ServiceInv, Tidy', NEW fd \in Fd, NEW c \in Conn, items[fd].owner = c
  PROVE  /\ CopyRead(c, fd) => Serving
         /\ CopyEof(c, fd) => Serving
         /\ CopyWrite(c, fd) => Serving
         /\ CopyWritePart(c, fd) => Serving
<1> DEFINE e == Ends(c, fd)
           Same(v) == /\ v.client_fd = conn[c].client_fd /\ v.origin_fd = conn[c].origin_fd
                      /\ v.st = conn[c].st
<1>0. /\ conn[c] \in ConnRecord /\ e.reads \in {"rb", "wb"} /\ e.writes \in {"rb", "wb"}
  BY EndsType DEF ServiceInv, LinkInv, TypeOK
<1>1. ASSUME ReadEvent(fd) \/ WriteEvent(fd), Done(c) PROVE Serving
  BY <1>1, DoneServes
<1>2. ASSUME ReadEvent(fd) \/ WriteEvent(fd), conn[c].st = "COPY",
             NEW v, NEW t, Becomes(c, v, t), Same(v)
      PROVE  Serving
  <2>1. c \in pool
    BY <1>2, EventOf DEF ServiceInv
  <2>2. PhaseOf(v) = PhaseOf(conn[c])
    BY <1>2 DEF PhaseOf
  <2> QED
    BY <1>2, <2>1, <2>2, BecomesServes
<1>3. /\ \A k \in {"rb", "wb"} : \A b : Same([conn[c] EXCEPT ![k] = b])
      /\ \A x : Same([conn[c] EXCEPT !.flags = x])
      /\ \A k \in {"rb", "wb"} : \A x : Same([conn[c] EXCEPT ![k] = FALSE, !.flags = x])
      /\ Same(conn[c])
  BY <1>0 DEF ConnRecord
<1>4. ASSUME CopyRead(c, fd) PROVE Serving
  <2> DEFINE v == [conn[c] EXCEPT ![e.reads] = TRUE]
             t == Additive(Reduction(items, fd, "OP_READ"), e.peer, "OP_WRITE")
  <2>1. ReadEvent(fd) /\ conn[c].st = "COPY" /\ (Becomes(c, v, t) \/ Done(c))
    BY <1>4 DEF CopyRead, Serves
  <2> HIDE DEF Same, e
  <2>2. Same(v)
    BY <1>0, <1>3
  <2> HIDE DEF v, t
  <2> QED
    BY <1>1, <1>2, <2>1, <2>2
<1>5. ASSUME CopyEof(c, fd) PROVE Serving
  <2> DEFINE flags == conn[c].flags \ ({"reading_client", "reading_origin", e.mine}
                        \cup (IF conn[c][e.reads] THEN {} ELSE {e.theirs}))
             v == [conn[c] EXCEPT !.flags = flags]
             t == Reduction(items, fd, "OP_READ")
  <2>1. ReadEvent(fd) /\ conn[c].st = "COPY" /\ (Becomes(c, v, t) \/ Done(c))
    BY <1>5 DEF CopyEof, Serves
  <2> HIDE DEF flags
  <2>2. Same(v)
    BY <1>3
  <2> HIDE DEF Same, v, t
  <2> QED
    BY <1>1, <1>2, <2>1, <2>2
<1>6. ASSUME CopyWrite(c, fd) PROVE Serving
  <2> DEFINE flags == IF e.source \in conn[c].flags THEN conn[c].flags
                      ELSE conn[c].flags \ {e.mine}
             v == [conn[c] EXCEPT ![e.writes] = FALSE]
             w == [conn[c] EXCEPT ![e.writes] = FALSE, !.flags = flags]
             sent == Reduction(items, fd, "OP_WRITE")
             again == Additive(sent, e.peer, "OP_READ")
  <2>1. /\ WriteEvent(fd) /\ conn[c].st = "COPY"
        /\ Becomes(c, v, again) \/ Becomes(c, w, sent) \/ Done(c)
    BY <1>6 DEF CopyWrite, Serves
  <2> HIDE DEF Same, flags, e
  <2>2. Same(v) /\ Same(w)
    BY <1>0, <1>3
  <2> HIDE DEF v, w, sent, again
  <2> QED
    BY <1>1, <1>2, <2>1, <2>2
<1>7. ASSUME CopyWritePart(c, fd) PROVE Serving
  <2> DEFINE again == Additive(items, e.peer, "OP_READ")
  <2>1. /\ WriteEvent(fd) /\ conn[c].st = "COPY"
        /\ Becomes(c, conn[c], again) \/ Becomes(c, conn[c], items)
    BY <1>7 DEF CopyWritePart, Serves
  <2> HIDE DEF Same, again
  <2> QED
    BY <1>2, <1>3, <2>1
<1> QED
  BY <1>4, <1>5, <1>6, <1>7

\* connect_through_ip under these conditions: without a descriptor the client
\* is to be answered with the reply it had; with one the attempt is under way.
LEMMA ConnectResult ==
  ASSUME Roomy, NeverAtOnce, LinkInv, pc # "aborted", NEW c \in Conn, NEW t \in Table,
         \A g \in Fd : t[g].owner = items[g].owner,
         NEW f \in NewFd, NEW o \in ConnectOutcomes
  PROVE  LET r == ConnectThroughIp(c, t, f, o) IN
         /\ r.reply = conn[c].reply
         /\ f = NoFd => /\ r.ret = "REQUEST_WRITE" /\ r.sock = sock
                        /\ r.items = SetInterest(t, conn[c].client_fd, {"OP_WRITE"})
         /\ f # NoFd => /\ f \in Fd /\ \A d \in pool : f \notin Fds(d)
                        /\ r.ret = "ORIGIN_CONNECT" /\ r.sock = [sock EXCEPT ![f] = "connecting"]
                        /\ r.items = Register(t, f, {"OP_WRITE"}, c)
<1> DEFINE r == ConnectThroughIp(c, t, f, o)
<1>1. o = "inprogress"
  BY DEF NeverAtOnce
<1>2. CASE f = NoFd
  BY <1>2 DEF ConnectThroughIp
<1>3. CASE f # NoFd
  <2>1. f \in Fd /\ items[f].owner = Nobody /\ \A d \in pool : f \notin Fds(d)
    BY <1>3, NewFdFacts
  <2>2. CanRegister(t, f)
    BY <2>1, CoreAssumption, ItemsMaxAssumption DEF Roomy, CanRegister, ValidFd, Used, Fd
  <2> QED
    BY <1>1, <1>3, <2>1, <2>2 DEF ConnectThroughIp
<1> QED
  BY <1>2, <1>3

\* The connection gets an origin whose connect() is under way, or finds no
\* descriptor for one: what each client sees of it.
LEMMA ConnectViews ==
  ASSUME ServiceInv, TypeOK', NEW c \in Conn, c \in pool, conn[c].origin_fd = NoFd,
         NEW f \in NewFd, pool' = pool, pc' # "stopped",
         \A d \in Conn \ {c} : conn'[d] = conn[d],
         conn'[c].client_fd = conn[c].client_fd, conn'[c].origin_fd = f,
         f = NoFd => sock' = sock /\ (conn'[c].st = "ORIGIN_CONNECT" => conn'[c].dns # "none"),
         f # NoFd => /\ f \in Fd /\ \A d \in pool : f \notin Fds(d)
                     /\ sock' = [sock EXCEPT ![f] = "connecting"]
  PROVE  /\ AllLinked'
         /\ \A d \in Conn \ {c} : Phase(d)' = Phase(d) /\ Link(d)' = Link(d)
         /\ Phase(c) = PhaseOf(conn[c]) /\ Phase(c)' = PhaseOf(conn'[c])
         /\ Link(c) = "none" /\ Link(c)' = IF f = NoFd THEN "none" ELSE "pending"
<1>1. /\ pool \subseteq Conn /\ \A d \in pool : Linked(d)
      /\ sock \in SockType
  BY DEF ServiceInv, LinkInv, TypeOK, AllLinked, SockType
<1>2. \A d \in pool : /\ conn[d].client_fd \in Fds(d)
                      /\ conn[d].origin_fd # NoFd => conn[d].origin_fd \in Fds(d)
  BY <1>1 DEF Linked, Fds
<1>3. ASSUME NEW d \in pool, d # c, conn[d].origin_fd # NoFd
      PROVE  sock'[conn[d].origin_fd] = sock[conn[d].origin_fd]
  <2>1. conn[d].origin_fd \in Fds(d) /\ Fds(d) \subseteq Fd
    BY <1>1, <1>2, <1>3, FdsFacts DEF ServiceInv
  <2>2. f # NoFd => f # conn[d].origin_fd
    BY <2>1
  <2> QED
    BY <1>1, <2>1, <2>2 DEF SockType
<1>4. f # NoFd => sock'[f] = "connecting"
  BY <1>1 DEF SockType
<1>5. ASSUME NEW d \in pool PROVE Linked(d)'
  <2>1. CASE d = c
    BY <1>1, <1>2, <1>4, <2>1 DEF Linked, Dialled
  <2>2. CASE d # c
    BY <1>1, <1>3, <2>2, KeepsLinked
  <2> QED
    BY <2>1, <2>2
<1>6. AllLinked'
  BY <1>5 DEF AllLinked
<1>7. \A d \in Conn \ {c} : Phase(d)' = Phase(d) /\ Link(d)' = Link(d)
  BY <1>3 DEF Phase, Link
<1>8. Phase(c) = PhaseOf(conn[c]) /\ Phase(c)' = PhaseOf(conn'[c])
  BY <1>1 DEF Phase, Linked
<1>9. Link(c) = "none" /\ Link(c)' = IF f = NoFd THEN "none" ELSE "pending"
  BY <1>4, LinkRange DEF Link
<1> QED
  BY <1>6, <1>7, <1>8, <1>9

\* A request that names an address: the client is connecting, or is told of
\* its success without a link when there was no descriptor.
LEMMA RequestIpServes ==
  ASSUME Roomy, NeverAtOnce, ServiceInv, TypeOK', NEW fd \in Fd, NEW c \in Conn,
         items[fd].owner = c, NEW f \in NewFd, NEW o \in ConnectOutcomes,
         RequestReadIp(c, fd, f, o)
  PROVE  Serving
<1> DEFINE t == SetInterest(items, fd, {})
           r == ConnectThroughIp(c, t, f, o)
<1>1. /\ c \in pool /\ pc = "iterate" /\ conn[c].dns = "none"
      /\ conn[c].st = "REQUEST_READ" /\ conn[c].origin_fd = NoFd
  <2>1. ReadEvent(fd) /\ conn[c].st = "REQUEST_READ"
    BY DEF RequestReadIp, Serves
  <2> QED
    BY <2>1, EventOf DEF ServiceInv, LinkInv, Locals, Local, Early
<1>2. /\ conn' = [conn EXCEPT ![c].st = r.ret, ![c].reply = r.reply, ![c].origin_fd = f]
      /\ items' = r.items /\ sock' = r.sock /\ UNCHANGED <<pool, pc>>
  BY DEF RequestReadIp
<1>3. t \in Table /\ \A g \in Fd : t[g].owner = items[g].owner
  <2>1. {} \in Interest /\ items \in Table
    BY FdFacts DEF ServiceInv, LinkInv, TypeOK, Table
  <2> QED
    BY <2>1, TableOps, OwnersKept
<1> HIDE DEF t
<1>4. /\ r.reply = conn[c].reply
      /\ f = NoFd => r.ret = "REQUEST_WRITE" /\ r.sock = sock
      /\ f # NoFd => /\ f \in Fd /\ \A d \in pool : f \notin Fds(d)
                     /\ r.ret = "ORIGIN_CONNECT" /\ r.sock = [sock EXCEPT ![f] = "connecting"]
  BY <1>1, <1>3, ConnectResult DEF ServiceInv
<1> HIDE DEF r
<1>5. /\ \A d \in Conn \ {c} : conn'[d] = conn[d]
      /\ conn'[c].client_fd = conn[c].client_fd /\ conn'[c].origin_fd = f
      /\ conn'[c].st = r.ret /\ conn'[c].reply = conn[c].reply
  BY <1>2, <1>4 DEF ServiceInv, LinkInv, TypeOK, ConnRecord
<1>6. /\ AllLinked'
      /\ \A d \in Conn \ {c} : Phase(d)' = Phase(d) /\ Link(d)' = Link(d)
      /\ Phase(c) = PhaseOf(conn[c]) /\ Phase(c)' = PhaseOf(conn'[c])
      /\ Link(c) = "none" /\ Link(c)' = IF f = NoFd THEN "none" ELSE "pending"
  <2>1. pool' = pool /\ pc' # "stopped"
    BY <1>1, <1>2
  <2>2. f = NoFd => sock' = sock /\ (conn'[c].st = "ORIGIN_CONNECT" => conn'[c].dns # "none")
    BY <1>2, <1>4, <1>5
  <2>3. f # NoFd => /\ f \in Fd /\ \A d \in pool : f \notin Fds(d)
                    /\ sock' = [sock EXCEPT ![f] = "connecting"]
    BY <1>2, <1>4
  <2> QED
    BY <1>1, <1>5, <2>1, <2>2, <2>3, ConnectViews
<1>7. PhaseOf(conn[c]) = "request"
  BY <1>1 DEF PhaseOf
<1>8. CASE f = NoFd
  <2>1. PhaseOf(conn'[c]) \in {"granting", "leaving"}
    BY <1>4, <1>5, <1>8 DEF PhaseOf
  <2>2. <<Phase(c), Phase(c)'>> \in Protocol!Edge
    BY <1>6, <1>7, <2>1 DEF Protocol!Edge
  <2>3. Phase(c) = "request" /\ Phase(c)' # "relaying" /\ Link(c)' = Link(c)
    BY <1>6, <1>7, <1>8, <2>1
  <2>4. Protocol!Next
    BY <1>6, <2>2, <2>3, OneClient
  <2> QED
    BY <1>6, <2>4 DEF Serving
<1>9. CASE f # NoFd
  <2>1. PhaseOf(conn'[c]) = "connecting"
    BY <1>4, <1>5, <1>9 DEF PhaseOf
  <2>2. Protocol!Next
    BY <1>6, <1>7, <1>9, <2>1, OneClient
  <2> QED
    BY <1>6, <2>2 DEF Serving
<1> QED
  BY <1>8, <1>9

\* The address of a name that is tried becomes the client's link, or leaves no
\* trace; after the last one the client is refused.
LEMMA ResolvedServes ==
  ASSUME Roomy, NeverAtOnce, ServiceInv, TypeOK', NEW c \in Conn
  PROVE  /\ \A f \in NewFd, o \in ConnectOutcomes : TryAddress(c, f, o) => Serving
         /\ NoAddressLeft(c) => Serving
<1>0. conn \in [Conn -> ConnRecord] /\ items \in Table
  BY DEF ServiceInv, LinkInv, TypeOK, Table
<1>1. ASSUME Notified(c)
      PROVE  /\ pc = "notify" /\ c \in pool /\ conn[c].origin_fd = NoFd
             /\ conn[c].st = "ORIGIN_CONNECT" /\ conn[c].dns = "posted"
             /\ AfterJobs(Tail(jobs)) # "stopped"
  <2>1. /\ pc = "notify" /\ c \in pool /\ conn[c].dns = "posted"
        /\ conn[c].st = "ORIGIN_CONNECT"
    BY <1>1, JobOf DEF ServiceInv
  <2> QED
    BY <2>1, ResolvesWithout DEF AfterJobs
<1>2. ASSUME NEW f \in NewFd, NEW o \in ConnectOutcomes, TryAddress(c, f, o) PROVE Serving
  <2> DEFINE r == ConnectThroughIp(c, items, f, o)
             next == [conn[c] EXCEPT !.reply = r.reply, !.origin_fd = f, !.addrs = @ - 1]
             last == [next EXCEPT !.dns = "none"]
  <2>1. Notified(c)
    BY <1>2 DEF TryAddress
  <2>2. /\ r.reply = conn[c].reply
        /\ f = NoFd => r.ret = "REQUEST_WRITE" /\ r.sock = sock
        /\ f # NoFd => /\ f \in Fd /\ \A d \in pool : f \notin Fds(d)
                       /\ r.ret = "ORIGIN_CONNECT" /\ r.sock = [sock EXCEPT ![f] = "connecting"]
    BY <1>0, <1>1, <2>1, ConnectResult DEF ServiceInv
  <2>3. /\ f = NoFd => conn' = [conn EXCEPT ![c] = next]
        /\ f # NoFd => conn' = [conn EXCEPT ![c] = last]
        /\ sock' = r.sock /\ pool' = pool
        /\ pc' \in {pc, AfterJobs(Tail(jobs))}
    BY <1>2, <2>2 DEF TryAddress
  <2> HIDE DEF r
  <2>4. /\ next.client_fd = conn[c].client_fd /\ next.origin_fd = f
        /\ last.client_fd = conn[c].client_fd /\ last.origin_fd = f
        /\ next.st = conn[c].st /\ last.st = conn[c].st /\ next.dns = conn[c].dns
    BY <1>0 DEF ConnRecord
  <2> HIDE DEF next, last
  <2>5. /\ \A d \in Conn \ {c} : conn'[d] = conn[d]
        /\ conn'[c].client_fd = conn[c].client_fd /\ conn'[c].origin_fd = f
        /\ conn'[c].st = "ORIGIN_CONNECT"
        /\ f = NoFd => conn'[c].dns # "none"
    BY <1>0, <1>1, <2>1, <2>3, <2>4
  <2>6. /\ AllLinked'
        /\ \A d \in Conn \ {c} : Phase(d)' = Phase(d) /\ Link(d)' = Link(d)
        /\ Phase(c) = PhaseOf(conn[c]) /\ Phase(c)' = PhaseOf(conn'[c])
        /\ Link(c) = "none" /\ Link(c)' = IF f = NoFd THEN "none" ELSE "pending"
    <3>1. pool' = pool /\ pc' # "stopped" /\ c \in pool /\ conn[c].origin_fd = NoFd
      BY <1>1, <2>1, <2>3
    <3>2. f = NoFd => sock' = sock /\ (conn'[c].st = "ORIGIN_CONNECT" => conn'[c].dns # "none")
      BY <2>2, <2>3, <2>5
    <3>3. f # NoFd => /\ f \in Fd /\ \A d \in pool : f \notin Fds(d)
                      /\ sock' = [sock EXCEPT ![f] = "connecting"]
      BY <2>2, <2>3
    <3> QED
      BY <2>5, <3>1, <3>2, <3>3, ConnectViews
  <2>7. PhaseOf(conn[c]) = "connecting" /\ PhaseOf(conn'[c]) = "connecting"
    BY <1>1, <2>1, <2>5 DEF PhaseOf
  <2>8. CASE f = NoFd
    BY <2>6, <2>7, <2>8, OneClient DEF Serving
  <2>9. CASE f # NoFd
    <3>1. Protocol!Next
      BY <2>6, <2>7, <2>9, OneClient
    <3> QED
      BY <2>6, <3>1 DEF Serving
  <2> QED
    BY <2>8, <2>9
<1>3. ASSUME NoAddressLeft(c) PROVE Serving
  <2>1. /\ Notified(c)
        /\ conn' = [conn EXCEPT ![c].st = "REQUEST_WRITE", ![c].reply = "failure",
                                ![c].dns = "none"]
        /\ pool' = pool /\ sock' = sock /\ pc' = AfterJobs(Tail(jobs))
    BY <1>3 DEF NoAddressLeft
  <2>2. /\ \A d \in Conn \ {c} : conn'[d] = conn[d]
        /\ conn'[c].client_fd = conn[c].client_fd /\ conn'[c].origin_fd = conn[c].origin_fd
        /\ conn'[c].st = "REQUEST_WRITE" /\ conn'[c].reply = "failure"
    BY <1>0, <2>1 DEF ConnRecord
  <2>3. ASSUME NEW d \in pool PROVE Linked(d)'
    <3>1. Linked(d) /\ d \in Conn
      BY DEF ServiceInv, AllLinked, LinkInv, TypeOK
    <3> QED
      BY <2>1, <2>2, <3>1, KeepsLinked
  <2>4. AllLinked'
    BY <1>1, <2>1, <2>3 DEF AllLinked
  <2>5. /\ \A d \in Conn \ {c} : Phase(d)' = Phase(d) /\ Link(d)' = Link(d)
        /\ Link(c)' = Link(c)
    <3>1. pool' = pool /\ sock' = sock
      BY <2>1
    <3> QED
      BY <2>2, <3>1 DEF Phase, Link
  <2>6. Phase(c) = PhaseOf(conn[c]) /\ Phase(c)' = PhaseOf(conn'[c])
    BY <1>1, <2>1, <2>2 DEF Phase, ServiceInv, AllLinked, Linked
  <2>7. PhaseOf(conn[c]) = "connecting" /\ PhaseOf(conn'[c]) = "leaving"
    BY <1>1, <2>1, <2>2 DEF PhaseOf
  <2>8. <<Phase(c), Phase(c)'>> \in Protocol!Edge /\ Phase(c)' = "leaving"
    BY <2>6, <2>7 DEF Protocol!Edge
  <2>9. Protocol!Next
    BY <2>5, <2>8, OneClient
  <2> QED
    BY <2>4, <2>9 DEF Serving
<1> QED
  BY <1>2, <1>3

\* The protocol counts its clients as the server does.
LEMMA SameCardinality == \A S : Protocol!Cardinality(S) = Cardinality(S)
BY DEF Protocol!Cardinality, Cardinality

\* A new client arrives and greets.
LEMMA AcceptServes ==
  ASSUME Served, ServiceInv, Counted, TypeOK', NEW c \in Conn, NEW f \in NewFd, Accept(c, f)
  PROVE  Serving
<1> USE DEF Served
<1>1. /\ pc = "iterate" /\ pc' = pc /\ c \notin pool /\ f # NoFd /\ pool' = pool \cup {c}
      /\ concurrent < MaxConn
  BY DEF Accept, ReadEvent
<1>2. f \in Fd /\ items[f].owner = Nobody /\ \A d \in pool : f \notin Fds(d)
  BY <1>1, NewFdFacts DEF ServiceInv
<1>3. CanRegister(items, f)
  BY <1>2, CoreAssumption, ItemsMaxAssumption DEF Roomy, CanRegister, ValidFd, Used, Fd
<1>4. conn' = [conn EXCEPT ![c] = NewConn(f)] /\ sock' = [sock EXCEPT ![f] = "client"]
  BY <1>3 DEF Accept
<1>5. /\ conn \in [Conn -> ConnRecord] /\ sock \in SockType /\ pool \subseteq Conn
      /\ \A d \in pool : Linked(d) /\ Fds(d) \subseteq Fd
  BY FdsFacts DEF ServiceInv, LinkInv, TypeOK, AllLinked, SockType
<1>6. /\ \A d \in Conn \ {c} : conn'[d] = conn[d]
      /\ conn'[c].client_fd = f /\ conn'[c].origin_fd = NoFd /\ conn'[c].st = "GREETING_READ"
  BY <1>4, <1>5 DEF NewConn
<1>7. ASSUME NEW d \in pool, conn[d].origin_fd # NoFd
      PROVE  sock'[conn[d].origin_fd] = sock[conn[d].origin_fd]
  <2>1. conn[d].origin_fd \in Fds(d) /\ conn[d].origin_fd \in Fd
    BY <1>5, <1>7 DEF Fds
  <2>2. f # conn[d].origin_fd
    BY <1>2, <2>1
  <2> QED
    BY <1>4, <1>5, <2>1, <2>2 DEF SockType
<1>8. ASSUME NEW d \in pool PROVE Linked(d)'
  BY <1>1, <1>5, <1>6, <1>7, KeepsLinked
<1>9. Linked(c)'
  BY <1>1, <1>6 DEF Linked
<1>10. AllLinked'
  BY <1>1, <1>8, <1>9 DEF AllLinked
<1>11. /\ \A d \in Conn \ {c} : Phase(d)' = Phase(d) /\ Link(d)' = Link(d)
       /\ Link(c)' = Link(c)
  BY <1>1, <1>6, <1>7 DEF Phase, Link
<1>12. Phase(c) = "idle" /\ Phase(c)' = "greeting"
  BY <1>1, <1>6 DEF Phase, PhaseOf
<1> DEFINE P == [d \in Conn |-> Phase(d)]
           L == [d \in Conn |-> Link(d)]
<1>13. Cardinality({d \in Conn : P[d] # "idle"}) < MaxConn
  <2>1. \A d \in Conn : P[d] = Phase(d)
    OBVIOUS
  <2> HIDE DEF P
  <2>2. \A d \in pool : Phase(d) # "idle"
    BY <1>5, ViewOf DEF Phases
  <2>3. \A d \in Conn \ pool : Phase(d) = "idle"
    BY DEF Phase
  <2>4. {d \in Conn : P[d] # "idle"} = pool
    BY <1>5, <2>1, <2>2, <2>3
  <2> QED
    BY <1>1, <2>4 DEF Counted, CountsMatch
<1>14. Protocol!Arrive(c)
  <2>1. P' = [P EXCEPT ![c] = "greeting"] /\ L' = L /\ P[c] = "idle"
    BY <1>11, <1>12
  <2> HIDE DEF P, L
  <2>2. Protocol!Cardinality({d \in Conn : P[d] # "idle"}) < MaxConn
    BY <1>13, SameCardinality
  <2> QED
    BY <2>1, <2>2 DEF Protocol!Arrive, Protocol!Served, P, L
<1>15. Protocol!Next
  BY <1>14 DEF Protocol!Next
<1> QED
  BY <1>10, <1>15 DEF Serving

\* A step that changes nothing a client can see.
LEMMA QuietServes ==
  ASSUME ServiceInv, UNCHANGED <<pool, sock>>, pc' = "stopped" => pc = "stopped",
         \A d \in Conn : /\ conn'[d].client_fd = conn[d].client_fd
                         /\ conn'[d].origin_fd = conn[d].origin_fd
                         /\ conn'[d].st = conn[d].st
                         /\ conn'[d].dns = "none" => conn[d].dns = "none"
                         /\ PhaseOf(conn'[d]) = PhaseOf(conn[d])
  PROVE  Serving
<1>1. ASSUME NEW d \in pool PROVE Linked(d)'
  <2>1. Linked(d) /\ d \in Conn
    BY DEF ServiceInv, AllLinked, LinkInv, TypeOK
  <2> QED
    BY <2>1, KeepsLinked
<1>2. AllLinked'
  BY <1>1 DEF ServiceInv, AllLinked
<1>3. \A d \in Conn : Phase(d)' = Phase(d) /\ Link(d)' = Link(d)
  BY DEF Phase, Link
<1>4. UNCHANGED Protocol!vars
  BY <1>3 DEF Protocol!vars
<1> QED
  BY <1>2, <1>4 DEF Serving

\* The network answers the connection that holds the descriptor, if it holds
\* it for its origin.
LEMMA NetworkServes ==
  ASSUME ServiceInv, NEW g \in Fd, NEW a \in {"up", "refused"}, NetworkAnswers(g, a)
  PROVE  Serving
<1>1. /\ sock[g] = "connecting" /\ sock' = [sock EXCEPT ![g] = a]
      /\ UNCHANGED <<conn, pool, pc>> /\ sock \in SockType
  BY DEF NetworkAnswers, ServiceInv, LinkInv, TypeOK, SockType
<1>2. \A d \in pool : d \in Conn /\ Linked(d) /\ Fds(d) \subseteq Fd
  BY FdsFacts DEF ServiceInv, AllLinked, LinkInv, TypeOK
<1>3. \A d \in pool : conn[d].origin_fd # NoFd => conn[d].origin_fd \in Fds(d)
  BY DEF Fds
<1>4. sock'[g] = a /\ \A h \in Fd \ {g} : sock'[h] = sock[h]
  BY <1>1 DEF SockType
<1>5. ASSUME NEW d \in pool PROVE Linked(d)'
  BY <1>1, <1>2, <1>3, <1>4 DEF Linked, Dialled
<1>6. AllLinked'
  BY <1>1, <1>5 DEF ServiceInv, AllLinked
<1>7. \A d \in Conn : Phase(d)' = Phase(d)
  BY <1>1 DEF Phase
<1>8. \A d \in Conn : Link(d)' = Link(d) \/ (d \in pool /\ conn[d].origin_fd = g)
  BY <1>1, <1>2, <1>3, <1>4 DEF Link
<1>9. CASE \E c \in pool : conn[c].origin_fd = g
  <2>1. PICK c \in pool : conn[c].origin_fd = g
    BY <1>9
  <2>2. c \in Conn /\ g # NoFd
    BY <1>2, CoreAssumption DEF Fd, NoFd
  <2>3. \A d \in pool : conn[d].origin_fd = g => d = c
    BY <1>3, <2>1, <2>2 DEF ServiceInv, LinkInv, Owned
  <2>4. \A d \in Conn \ {c} : Phase(d)' = Phase(d) /\ Link(d)' = Link(d)
    BY <1>7, <1>8, <2>3
  <2>5. Link(c) = "pending" /\ Link(c)' \in {"up", "refused"}
    BY <1>1, <1>4, <2>1, <2>2, LinkRange DEF Link
  <2>6. Protocol!Next
    BY <1>7, <2>2, <2>4, <2>5, OneClient
  <2> QED
    BY <1>6, <2>6 DEF Serving
<1>10. CASE ~ \E c \in pool : conn[c].origin_fd = g
  <2>1. \A d \in Conn : Phase(d)' = Phase(d) /\ Link(d)' = Link(d)
    BY <1>7, <1>8, <1>10
  <2>2. UNCHANGED Protocol!vars
    BY <2>1 DEF Protocol!vars
  <2> QED
    BY <1>6, <2>2 DEF Serving
<1> QED
  BY <1>9, <1>10

\* Every step of the server, of a resolver thread and of the network is one of
\* the protocol, or nothing that a client can see.
LEMMA ServiceStep ==
  ASSUME Served, ServiceInv, Counted, [Next]_vars
  PROVE  ServiceInv' /\ Serving
<1> USE DEF Served
<1>0. LinkInv' /\ TypeOK' /\ Tidy'
  BY LinkStep, TidyStep DEF ServiceInv, LinkInv
<1> SUFFICES Serving
  BY <1>0 DEF ServiceInv, Serving
<1>1. \A fd \in Current : fd \in Fd
  BY DEF Current, Due
<1>2. ASSUME NEW fd \in Current, NEW c \in {items[fd].owner} \cap Conn,
             \/ IoFails(c, fd)
             \/ \E m \in {"noauth", "userpass", "none"} : GreetingRead(c, fd, m)
             \/ GreetingWrite(c, fd)
             \/ \E ok \in BOOLEAN : AuthRead(c, fd, ok)
             \/ AuthWrite(c, fd)
             \/ RequestReadError(c, fd) \/ RequestReadFqdn(c, fd)
             \/ \E f \in NewFd, o \in ConnectOutcomes : RequestReadIp(c, fd, f, o)
             \/ VerifyConnection(c, fd)
             \/ \E left \in Leftover : RequestWrite(c, fd, left)
             \/ CopyRead(c, fd) \/ CopyEof(c, fd)
             \/ CopyWrite(c, fd) \/ CopyWritePart(c, fd)
      PROVE  Serving
  <2>1. fd \in Fd /\ c \in Conn /\ items[fd].owner = c
    BY <1>1
  <2>2. ASSUME NEW f \in NewFd, NEW o \in ConnectOutcomes, RequestReadIp(c, fd, f, o)
        PROVE  Serving
    BY <1>0, <2>1, <2>2, RequestIpServes
  <2> QED
    BY <1>0, <1>2, <2>1, <2>2, HandshakeServes, ReplyServes, CopyServes
<1>3. CASE Callback
  <2>1. ASSUME NEW c \in Conn, NEW f \in NewFd, Accept(c, f) PROVE Serving
    BY <1>0, <2>1, AcceptServes
  <2>2. ASSUME NEW c \in Conn, NEW f \in NewFd, NEW o \in ConnectOutcomes, TryAddress(c, f, o)
        PROVE  Serving
    BY <1>0, <2>2, ResolvedServes
  <2>3. ASSUME NEW c \in Conn, NoAddressLeft(c) PROVE Serving
    BY <1>0, <2>3, ResolvedServes
  <2> QED
    BY <1>2, <1>3, <2>1, <2>2, <2>3 DEF Callback
<1>4. CASE Stop
  <2>1. pool' = {} /\ AllLinked'
    BY <1>4 DEF Stop, AllLinked
  <2>2. Protocol!Shutdown
    BY <2>1 DEF Protocol!Shutdown, Phase, Link
  <2> QED
    BY <2>1, <2>2 DEF Serving, Protocol!Next
<1>5. CASE Resolver
  <2>1. PICK c \in Conn, n \in 0..MaxAddrs : Resolve(c, n)
    BY <1>5 DEF Resolver
  <2>2. UNCHANGED <<pool, sock, pc>>
    BY <2>1 DEF Resolve
  <2>3. \A d \in Conn : /\ conn'[d].client_fd = conn[d].client_fd
                        /\ conn'[d].origin_fd = conn[d].origin_fd
                        /\ conn'[d].st = conn[d].st /\ conn'[d].method = conn[d].method
                        /\ conn'[d].authed = conn[d].authed /\ conn'[d].reply = conn[d].reply
                        /\ conn'[d].dns = "none" => conn[d].dns = "none"
    BY <2>1 DEF Resolve, ServiceInv, LinkInv, TypeOK, ConnRecord
  <2>4. \A d \in Conn : PhaseOf(conn'[d]) = PhaseOf(conn[d])
    BY <2>3 DEF PhaseOf
  <2> QED
    BY <2>2, <2>3, <2>4, QuietServes
<1>6. CASE Network
  BY <1>6, NetworkServes DEF Network
<1>7. CASE Loop \/ BrokenPipe \/ Ended \/ UNCHANGED vars
  <2>1. UNCHANGED <<conn, pool, items, sock>>
    BY <1>7 DEF Loop, Select, Interrupted, EndIteration, Pass, BrokenPipe, SendKills, Ended, vars
  <2>2. pc' = "stopped" => pc = "stopped"
    BY <1>7 DEF Loop, Select, Interrupted, EndIteration, AfterJobs, Pass, BrokenPipe, SendKills,
                Ended, vars
  <2> QED
    BY <2>1, <2>2, QuietServes
<1> QED
  BY <1>3, <1>4, <1>5, <1>6, <1>7 DEF Next

\* Nobody is served before the first client comes.
LEMMA ServiceInit == Init => ServiceInv /\ Counted /\ Protocol!Init
<1> SUFFICES ASSUME Init PROVE ServiceInv /\ Counted /\ Protocol!Init
  OBVIOUS
<1>1. LinkInv /\ AllLinked
  BY LinkInit DEF Init, AllLinked
<1>2. Tidy
  BY DEF Init, Tidy, NoAbort, NoFdLeak, Registered
<1>3. Counted
  BY FS_EmptySet, CoreAssumption DEF Init, Counted, CountsMatch
<1>4. Protocol!Init
  BY DEF Init, Protocol!Init, Phase, Link
<1> QED
  BY <1>1, <1>2, <1>3, <1>4 DEF ServiceInv

\* Both hold of every state, and every step is one of the protocol.
LEMMA ServiceHolds == Served => (Spec => []ServiceInv /\ []Counted)
<1> SUFFICES ASSUME Served PROVE Spec => []ServiceInv /\ []Counted
  OBVIOUS
<1>1. ServiceInv /\ Counted /\ [Next]_vars => ServiceInv'
  BY ServiceStep
<1>2. ServiceInv /\ Counted /\ [Next]_vars => Counted'
  BY CountStep DEF Served, ServiceInv
<1> QED
  BY <1>1, <1>2, ServiceInit, PTL DEF Spec

\* The server keeps what it promises: for any number of clients and any
\* descriptors, addresses and limits, what happens to one of them is the next
\* step of the dialogue that SocksProtocol describes, if the selector has a
\* slot for every descriptor and no connect() ends at once.
THEOREM ProtocolRefinedCorrect ==
  WideFd /\ Roomy /\ NeverAtOnce => (Spec => ProtocolRefined)
<1> SUFFICES ASSUME Served PROVE Spec => ProtocolRefined
  BY DEF Served
<1>1. ServiceInv /\ Counted /\ [Next]_vars => [Protocol!Next]_(Protocol!vars)
  BY ServiceStep DEF Serving
<1>2. Spec => []ServiceInv /\ []Counted
  BY ServiceHolds
<1> QED
  BY <1>1, <1>2, ServiceInit, PTL DEF Spec, ProtocolRefined, Protocol!Spec

-----------------------------------------------------------------------------
(* No connection falls asleep *)

\* Nobody sends more than its request before it is answered.
NothingKept == Leftover \subseteq {FALSE}

Listens(t, fd, op) == fd # NoFd /\ op \in t[fd].interest

\* What a tunnel waits for: to write what it holds; and to read where it holds
\* nothing, until one side has ended and only the other is still written to.
Tunnel(v, t) ==
  /\ v.wb => Listens(t, v.origin_fd, "OP_WRITE")
  /\ v.rb => Listens(t, v.client_fd, "OP_WRITE")
  /\ \/ /\ v.flags = Flag
        /\ v.wb \/ Listens(t, v.client_fd, "OP_READ")
        /\ v.rb \/ Listens(t, v.origin_fd, "OP_READ")
     \/ v.flags = {"writing_origin"} /\ v.wb
     \/ v.flags = {"writing_client"} /\ v.rb

\* What a struct v waits for under the table t: for the event that the handler
\* of its state is about, and while it answers or connects for no other write.
Awake(v, t) ==
  /\ v.st # "ERROR"
  /\ v.st \in {"GREETING_READ", "AUTH_READ", "REQUEST_READ"} =>
       Listens(t, v.client_fd, "OP_READ")
  /\ v.st \in {"GREETING_WRITE", "AUTH_WRITE", "REQUEST_WRITE"} =>
       Listens(t, v.client_fd, "OP_WRITE") /\ ~Listens(t, v.origin_fd, "OP_WRITE")
  /\ v.st = "ORIGIN_CONNECT" /\ v.dns = "none" =>
       Listens(t, v.origin_fd, "OP_WRITE") /\ ~Listens(t, v.client_fd, "OP_WRITE")
  /\ v.st = "COPY" => Tunnel(v, t)
  /\ v.st # "COPY" => ~v.rb /\ ~v.wb

\* While a name is being resolved its client is asked to read an answer only
\* when no descriptor was left for its origin, and none is left then.
Starved(v, t) == v.dns # "none" /\ Listens(t, v.client_fd, "OP_WRITE")

AllAwake ==
  \A c \in pool : Awake(conn[c], items) /\ (Starved(conn[c], items) => FreeFds = {})

\* A struct sees no more of the table than the items of its descriptors.
LEMMA SameListens ==
  ASSUME NEW c, NEW t, NEW u, \A g \in Fds(c) : u[g] = t[g]
  PROVE  /\ Awake(conn[c], t) => Awake(conn[c], u)
         /\ Starved(conn[c], u) => Starved(conn[c], t)
<1>1. \A op : /\ Listens(u, conn[c].client_fd, op) <=> Listens(t, conn[c].client_fd, op)
              /\ Listens(u, conn[c].origin_fd, op) <=> Listens(t, conn[c].origin_fd, op)
  BY DEF Fds, Listens
<1> QED
  BY <1>1 DEF Awake, Tunnel, Starved

\* A step that touches one connection; none is starved while the table is
\* walked, and no step of the jobs frees a descriptor.
LEMMA KeepsAwake ==
  ASSUME ServiceInv, AllAwake, NEW c \in Conn, pc # "stopped",
         \A d \in pool' \ {c} : /\ d \in pool /\ conn'[d] = conn[d]
                                /\ \A g \in Fds(d) : items'[g] = items[g],
         pc = "iterate" \/ FreeFds' \subseteq FreeFds,
         c \in pool' => /\ Awake(conn'[c], items')
                        /\ Starved(conn'[c], items') => FreeFds' = {}
  PROVE  AllAwake'
<1>1. ASSUME NEW d \in pool', d # c
      PROVE  Awake(conn'[d], items') /\ (Starved(conn'[d], items') => FreeFds' = {})
  <2>1. /\ d \in pool /\ d \in Conn /\ conn'[d] = conn[d]
        /\ Awake(conn[d], items) /\ (Starved(conn[d], items) => FreeFds = {})
    BY <1>1 DEF AllAwake, ServiceInv, LinkInv, TypeOK
  <2>2. Awake(conn[d], items') /\ (Starved(conn[d], items') => Starved(conn[d], items))
    BY <1>1, <2>1, SameListens
  <2>3. pc = "iterate" => ~Starved(conn[d], items)
    BY <2>1 DEF ServiceInv, LinkInv, Waiting, Starved, Listens
  <2> QED
    BY <2>1, <2>2, <2>3
<1> QED
  BY <1>1 DEF AllAwake

\* A callback that keeps its connection and sets the interests of its items.
LEMMA BecomesAwake ==
  ASSUME ServiceInv, AllAwake, NEW fd \in Fd, NEW c \in Conn, items[fd].owner = c,
         ReadEvent(fd) \/ WriteEvent(fd), NEW v, NEW t, Becomes(c, v, t),
         Retuned(c, items, t), Awake(v, t), ~Starved(v, t)
  PROVE  AllAwake'
<1>1. /\ pool' = pool /\ items' = t /\ conn' = [conn EXCEPT ![c] = v] /\ pc = "iterate"
      /\ pool \subseteq Conn /\ conn \in [Conn -> ConnRecord]
  BY EventOf DEF Becomes, ServiceInv, LinkInv, TypeOK
<1>2. ASSUME NEW d \in pool \ {c}, NEW g \in Fds(d) PROVE items'[g] = items[g]
  <2>1. g \in Fd /\ items[g].owner = d
    BY <1>1, FdsFacts DEF ServiceInv, Tidy, Registered
  <2> QED
    BY <1>1, <2>1 DEF Retuned
<1>3. conn'[c] = v /\ \A d \in pool \ {c} : conn'[d] = conn[d]
  BY <1>1
<1> QED
  BY <1>1, <1>2, <1>3, KeepsAwake

\* A disconnection wakes and mutes nobody else.
LEMMA DoneAwake ==
  ASSUME ServiceInv, AllAwake, NEW fd \in Fd, NEW c \in Conn, items[fd].owner = c,
         ReadEvent(fd) \/ WriteEvent(fd), Done(c), Tidy'
  PROVE  AllAwake'
<1>1. /\ c \in pool /\ pool' = pool \ {c} /\ pc = "iterate" /\ pool \subseteq Conn
      /\ \A d \in Conn \ {c} : conn'[d] = conn[d]
      /\ \A d \in pool \ {c} : \A g \in Fds(d) : items'[g] = items[g]
  BY DoneEnds, EventOf DEF ServiceInv, LinkInv, TypeOK
<1> QED
  BY <1>1, KeepsAwake

\* A callback runs for an event that its descriptor is registered for.
LEMMA EventListens ==
  ASSUME NEW fd
  PROVE  /\ ReadEvent(fd) => "OP_READ" \in items[fd].interest
         /\ WriteEvent(fd) => "OP_WRITE" \in items[fd].interest
BY DEF ReadEvent, WriteEvent, Current, Due, ReadDue, WriteDue

\* A callback that asks its client for one thing more, before the connection
\* has an origin.
LEMMA EarlyAwake ==
  ASSUME ServiceInv, AllAwake, NEW fd \in Fd, NEW c \in Conn, items[fd].owner = c,
         ReadEvent(fd) \/ WriteEvent(fd), conn[c].st \in Early,
         NEW v, NEW i \in Interest, Becomes(c, v, SetInterest(items, fd, i)),
         v.client_fd = conn[c].client_fd, v.origin_fd = conn[c].origin_fd,
         v.rb = conn[c].rb, v.wb = conn[c].wb,
         \/ v.st \in {"AUTH_READ", "REQUEST_READ"} /\ i = {"OP_READ"} /\ v.dns = "none"
         \/ /\ v.st \in {"GREETING_WRITE", "AUTH_WRITE", "REQUEST_WRITE"}
            /\ i = {"OP_WRITE"} /\ v.dns = "none"
         \/ v.st = "ORIGIN_CONNECT" /\ v.dns # "none" /\ i = {}
  PROVE  AllAwake'
<1> DEFINE t == SetInterest(items, fd, i)
<1>1. /\ c \in pool /\ fd \in Fds(c) /\ Linked(c) /\ conn[c].origin_fd = NoFd
      /\ items \in Table /\ Retuned(c, items, items)
  BY EventOf DEF ServiceInv, AllLinked, LinkInv, Locals, Local, TypeOK, Table, Retuned
<1>2. fd = conn[c].client_fd /\ fd # NoFd
  BY <1>1 DEF Fds
<1>3. t[fd].interest = i /\ Retuned(c, items, t)
  BY <1>1, RetuneSet DEF ServiceInv
<1>4. ~conn[c].rb /\ ~conn[c].wb
  BY <1>1 DEF AllAwake, Awake, Early
<1> HIDE DEF t
<1>5. Awake(v, t) /\ ~Starved(v, t)
  BY <1>1, <1>2, <1>3, <1>4 DEF Awake, Starved, Listens
<1> QED
  BY <1>3, <1>5, BecomesAwake DEF t

\* The callbacks that read and answer the messages of the handshake.
LEMMA HandshakeAwake ==
  ASSUME ServiceInv, AllAwake, Tidy', NEW fd \in Fd, NEW c \in Conn, items[fd].owner = c
  PROVE  /\ IoFails(c, fd) => AllAwake'
         /\ \A m \in {"noauth", "userpass", "none"} : GreetingRead(c, fd, m) => AllAwake'
         /\ GreetingWrite(c, fd) => AllAwake'
         /\ \A ok \in BOOLEAN : AuthRead(c, fd, ok) => AllAwake'
         /\ AuthWrite(c, fd) => AllAwake'
         /\ RequestReadError(c, fd) => AllAwake'
         /\ RequestReadFqdn(c, fd) => AllAwake'
<1> DEFINE Same(v) == /\ v.client_fd = conn[c].client_fd /\ v.origin_fd = conn[c].origin_fd
                      /\ v.rb = conn[c].rb /\ v.wb = conn[c].wb
           Sets(v, i) == Becomes(c, v, SetInterest(items, fd, i))
           Reads(v) == Same(v) /\ v.dns = conn[c].dns /\ v.st \in {"AUTH_READ", "REQUEST_READ"}
           Writes(v) == Same(v) /\ v.dns = conn[c].dns
                          /\ v.st \in {"GREETING_WRITE", "AUTH_WRITE", "REQUEST_WRITE"}
           Event == ReadEvent(fd) \/ WriteEvent(fd)
<1>0. conn[c] \in ConnRecord /\ {"OP_READ"} \in Interest /\ {"OP_WRITE"} \in Interest
      /\ {} \in Interest
  BY FdFacts DEF ServiceInv, LinkInv, TypeOK
<1>1. ASSUME Event, conn[c].st \in Early, NEW v, Reads(v), Sets(v, {"OP_READ"}) PROVE AllAwake'
  <2>1. conn[c].dns = "none"
    BY <1>1, EventOf DEF ServiceInv
  <2> QED
    BY <1>0, <1>1, <2>1, EarlyAwake
<1>2. ASSUME Event, conn[c].st \in Early, NEW v, Writes(v), Sets(v, {"OP_WRITE"}) PROVE AllAwake'
  <2>1. conn[c].dns = "none"
    BY <1>2, EventOf DEF ServiceInv
  <2> QED
    BY <1>0, <1>2, <2>1, EarlyAwake
<1>3. Event /\ Done(c) => AllAwake'
  BY DoneAwake
<1>4. IoFails(c, fd) => AllAwake'
  BY <1>3 DEF IoFails
<1>5. ASSUME NEW m \in {"noauth", "userpass", "none"}, GreetingRead(c, fd, m) PROVE AllAwake'
  <2> DEFINE v == [conn[c] EXCEPT !.st = "GREETING_WRITE", !.method = m]
  <2>1. Event /\ conn[c].st \in Early /\ Sets(v, {"OP_WRITE"})
    BY <1>5 DEF GreetingRead, Serves, Early
  <2>2. Writes(v)
    BY <1>0 DEF ConnRecord
  <2> HIDE DEF v, Writes, Sets, Event
  <2> QED
    BY <1>2, <2>1, <2>2
<1>6. ASSUME NEW ok \in BOOLEAN, AuthRead(c, fd, ok) PROVE AllAwake'
  <2> DEFINE v == [conn[c] EXCEPT !.st = "AUTH_WRITE", !.authed = ok]
  <2>1. Event /\ conn[c].st \in Early /\ Sets(v, {"OP_WRITE"})
    BY <1>6 DEF AuthRead, Serves, Early
  <2>2. Writes(v)
    BY <1>0 DEF ConnRecord
  <2> HIDE DEF v, Writes, Sets, Event
  <2> QED
    BY <1>2, <2>1, <2>2
<1>7. ASSUME RequestReadError(c, fd) PROVE AllAwake'
  <2> DEFINE v == [conn[c] EXCEPT !.st = "REQUEST_WRITE", !.reply = "failure"]
  <2>1. Event /\ conn[c].st \in Early /\ Sets(v, {"OP_WRITE"})
    BY <1>7 DEF RequestReadError, Serves, Early
  <2>2. Writes(v)
    BY <1>0 DEF ConnRecord
  <2> HIDE DEF v, Writes, Sets, Event
  <2> QED
    BY <1>2, <2>1, <2>2
<1> DEFINE request == [conn[c] EXCEPT !.st = "REQUEST_READ"]
           auth == [conn[c] EXCEPT !.st = "AUTH_READ"]
<1>8. Reads(request) /\ Reads(auth)
  BY <1>0 DEF ConnRecord
<1>9. ASSUME GreetingWrite(c, fd) \/ AuthWrite(c, fd) PROVE AllAwake'
  <2>1. /\ Event /\ conn[c].st \in Early
        /\ Sets(request, {"OP_READ"}) \/ Sets(auth, {"OP_READ"}) \/ Done(c)
    BY <1>9 DEF GreetingWrite, AuthWrite, Serves, Early
  <2> HIDE DEF request, auth, Reads, Sets, Event
  <2> QED
    BY <1>1, <1>3, <1>8, <2>1
<1>10. ASSUME RequestReadFqdn(c, fd) PROVE AllAwake'
  <2> DEFINE v == [conn[c] EXCEPT !.st = "ORIGIN_CONNECT", !.dns = "running"]
  <2>1. Event /\ conn[c].st \in Early /\ Sets(v, {})
    BY <1>10 DEF RequestReadFqdn, Serves, Early
  <2>2. Same(v) /\ v.st = "ORIGIN_CONNECT" /\ v.dns = "running"
    BY <1>0 DEF ConnRecord
  <2> HIDE DEF v
  <2> QED
    BY <1>0, <2>1, <2>2, EarlyAwake
<1> HIDE DEF Same, Sets, Reads, Writes, Event, request, auth
<1> QED
  BY <1>4, <1>5, <1>6, <1>7, <1>9, <1>10

\* The callbacks that learn what became of the origin and send the answer.
LEMMA ReplyAwake ==
  ASSUME NothingKept, ServiceInv, AllAwake, Tidy', NEW fd \in Fd, NEW c \in Conn,
         items[fd].owner = c
  PROVE  /\ VerifyConnection(c, fd) => AllAwake'
         /\ \A left \in Leftover : RequestWrite(c, fd, left) => AllAwake'
<1>0. /\ conn[c] \in ConnRecord /\ items \in Table /\ Retuned(c, items, items)
      /\ {"OP_READ"} \in Interest /\ {"OP_WRITE"} \in Interest /\ {} \in Interest
  BY FdFacts DEF ServiceInv, LinkInv, TypeOK, Table, Retuned
<1>1. ASSUME WriteEvent(fd)
      PROVE  /\ c \in pool /\ Awake(conn[c], items) /\ conn[c].dns = "none"
             /\ fd \in Fds(c) /\ conn[c].client_fd \in Fds(c) /\ fd # NoFd
             /\ conn[c].client_fd # NoFd /\ conn[c].origin_fd # conn[c].client_fd
             /\ Listens(items, fd, "OP_WRITE")
  <2>1. c \in pool /\ fd \in Fds(c) /\ conn[c].dns = "none" /\ conn[c].client_fd \in Fds(c)
    BY <1>1, EventOf DEF ServiceInv
  <2>2. fd # NoFd /\ "OP_WRITE" \in items[fd].interest
    BY <1>1, <2>1, EventListens DEF Fds
  <2> QED
    BY <2>1, <2>2 DEF AllAwake, ServiceInv, AllLinked, Linked, Listens
<1>2. ASSUME VerifyConnection(c, fd) PROVE AllAwake'
  <2> DEFINE v == [conn[c] EXCEPT !.st = "REQUEST_WRITE",
                     !.reply = IF sock[conn[c].origin_fd] = "refused" THEN "failure" ELSE "SUCCEDED"]
             t == SetInterest(items, fd, {})
             u == SetInterest(t, conn[c].client_fd, {"OP_WRITE"})
  <2>1. WriteEvent(fd) /\ conn[c].st = "ORIGIN_CONNECT" /\ Becomes(c, v, u)
    BY <1>2 DEF VerifyConnection, Serves
  <2>2. fd = conn[c].origin_fd
    BY <1>1, <2>1 DEF Awake, Fds
  <2>3. t \in Table /\ Retuned(c, items, t) /\ t[fd].interest = {}
    BY <1>0, <1>1, <2>1, RetuneSet DEF ServiceInv
  <2>4. fd \in Fd \ {conn[c].client_fd}
    BY <1>1, <2>1, <2>2
  <2> HIDE DEF t
  <2>5. /\ Retuned(c, items, u) /\ u[conn[c].client_fd].interest = {"OP_WRITE"}
        /\ u[fd] = t[fd]
    <3>1. c \in pool /\ conn[c].client_fd \in Fds(c) /\ LinkInv
      BY <1>1, <2>1 DEF ServiceInv
    <3> QED
      BY <1>0, <2>3, <2>4, <3>1, RetuneSet
  <2>6. /\ v.client_fd = conn[c].client_fd /\ v.origin_fd = fd /\ v.st = "REQUEST_WRITE"
        /\ v.rb = conn[c].rb /\ v.wb = conn[c].wb /\ v.dns = "none"
    BY <1>0, <1>1, <2>1, <2>2 DEF ConnRecord
  <2> HIDE DEF u, v
  <2>7. Awake(v, u) /\ ~Starved(v, u)
    BY <1>1, <2>1, <2>3, <2>5, <2>6 DEF Awake, Starved, Listens
  <2> QED
    BY <2>1, <2>5, <2>7, BecomesAwake
<1>3. ASSUME NEW left \in Leftover, RequestWrite(c, fd, left) PROVE AllAwake'
  <2> DEFINE v == [conn[c] EXCEPT !.st = "COPY", !.flags = Flag, !.rb = left]
             t == SetInterest(items, fd, {"OP_READ"})
             u == SetInterest(t, conn[c].origin_fd, {"OP_READ"})
  <2>1. /\ WriteEvent(fd) /\ conn[c].st = "REQUEST_WRITE"
        /\ \/ Done(c)
           \/ Used(items, conn[c].origin_fd) /\ Becomes(c, v, u)
    BY <1>3 DEF RequestWrite, Serves
  <2>2. CASE Done(c)
    BY <2>1, <2>2, DoneAwake
  <2>3. CASE Used(items, conn[c].origin_fd) /\ Becomes(c, v, u)
    <3>1. fd = conn[c].client_fd /\ ~conn[c].rb /\ ~conn[c].wb
      BY <1>1, <2>1 DEF Awake, Fds
    <3>2. conn[c].origin_fd # NoFd /\ conn[c].origin_fd \in Fds(c)
      BY <2>3 DEF Used, ValidFd, NoFd, Fds
    <3>3. t \in Table /\ Retuned(c, items, t) /\ t[fd].interest = {"OP_READ"}
      BY <1>0, <1>1, <2>1, RetuneSet DEF ServiceInv
    <3>4. fd \in Fd \ {conn[c].origin_fd}
      BY <1>1, <2>1, <3>1
    <3> HIDE DEF t
    <3>5. /\ Retuned(c, items, u) /\ u[conn[c].origin_fd].interest = {"OP_READ"}
          /\ u[fd] = t[fd]
      <4>1. c \in pool /\ LinkInv
        BY <1>1, <2>1 DEF ServiceInv
      <4> QED
        BY <1>0, <3>2, <3>3, <3>4, <4>1, RetuneSet
    <3>6. /\ v.client_fd = fd /\ v.origin_fd = conn[c].origin_fd /\ v.st = "COPY"
          /\ v.flags = Flag /\ v.rb = left /\ v.wb = conn[c].wb /\ v.dns = "none"
      BY <1>0, <1>1, <2>1, <3>1 DEF ConnRecord
    <3>7. ~left
      BY DEF NothingKept
    <3> HIDE DEF u, v
    <3>8. Awake(v, u) /\ ~Starved(v, u)
      BY <1>1, <2>1, <3>1, <3>2, <3>3, <3>5, <3>6, <3>7 DEF Awake, Starved, Listens, Tunnel
    <3> QED
      BY <2>1, <2>3, <3>5, <3>8, BecomesAwake
  <2> QED
    BY <2>1, <2>2, <2>3
<1> QED
  BY <1>2, <1>3

\* w is the struct v but for its flags x and its buffers, k and j, the first of
\* which is now b.
Kept(v, w) ==
  /\ w.client_fd = v.client_fd /\ w.origin_fd = v.origin_fd
  /\ w.st = v.st /\ w.dns = v.dns
Marked(v, w, k, j, b, x) == Kept(v, w) /\ w[k] = b /\ w[j] = v[j] /\ w.flags = x

\* What becomes of a struct whose flags or one of whose buffers are set.
LEMMA BufferSet ==
  ASSUME NEW v \in ConnRecord, NEW b \in BOOLEAN, NEW x \in SUBSET Flag,
         NEW k \in {"rb", "wb"}, NEW j \in {"rb", "wb"}, j # k
  PROVE  /\ Marked(v, [v EXCEPT ![k] = b], k, j, b, v.flags)
         /\ Marked(v, [v EXCEPT !.flags = x], k, j, v[k], x)
         /\ Marked(v, [v EXCEPT ![k] = b, !.flags = x], k, j, b, x)
<1>1. CASE k = "rb" /\ j = "wb"
  <2>1. /\ [v EXCEPT ![k] = b] = [v EXCEPT !.rb = b]
        /\ [v EXCEPT ![k] = b, !.flags = x] = [v EXCEPT !.rb = b, !.flags = x]
    BY <1>1
  <2> QED
    BY <1>1, <2>1 DEF ConnRecord, Kept, Marked
<1>2. CASE k = "wb" /\ j = "rb"
  <2>1. /\ [v EXCEPT ![k] = b] = [v EXCEPT !.wb = b]
        /\ [v EXCEPT ![k] = b, !.flags = x] = [v EXCEPT !.wb = b, !.flags = x]
    BY <1>2
  <2> QED
    BY <1>2, <2>1 DEF ConnRecord, Kept, Marked
<1>3. (k = "rb" /\ j = "wb") \/ (k = "wb" /\ j = "rb")
  OBVIOUS
<1> QED
  BY <1>1, <1>2, <1>3

\* A tunnel as it is seen from one of its ends, fd, which holds some bytes
\* for the other end or is owed some by it.
Seen(e, fd, held, owed, flags, t) ==
  /\ held => Listens(t, e.peer, "OP_WRITE")
  /\ owed => Listens(t, fd, "OP_WRITE")
  /\ \/ /\ flags = Flag
        /\ held \/ Listens(t, fd, "OP_READ")
        /\ owed \/ Listens(t, e.peer, "OP_READ")
     \/ flags = {e.theirs} /\ held
     \/ flags = {e.mine} /\ owed

LEMMA TunnelSeen ==
  ASSUME WideFd, LinkInv, NEW c \in Conn, NEW fd \in Fds(c), conn[c].st = "COPY",
         conn[c].origin_fd # conn[c].client_fd,
         NEW e, e = Ends(c, fd), NEW v, NEW t,
         v.client_fd = conn[c].client_fd, v.origin_fd = conn[c].origin_fd
  PROVE  /\ Tunnel(v, t) <=> Seen(e, fd, v[e.reads], v[e.writes], v.flags, t)
         /\ e.reads \in {"rb", "wb"} /\ e.writes \in {"rb", "wb"} /\ e.reads # e.writes
         /\ e.peer \in Fds(c) /\ e.peer # fd /\ e.mine # e.theirs
         /\ {e.mine, e.theirs, e.source, "reading_client", "reading_origin"} \subseteq Flag
         /\ e.source \in {"reading_client", "reading_origin"}
         /\ e.mine \notin {"reading_client", "reading_origin"}
         /\ e.theirs \notin {"reading_client", "reading_origin"}
         /\ Flag = {"reading_client", "reading_origin", e.mine, e.theirs}
<1>1. e.peer \in Fds(c)
  BY PeerIsOwn
<1>2. conn[c].origin_fd \in Fds(c) /\ conn[c].client_fd \in Fds(c) /\ Fds(c) \subseteq Fd
  BY FdsFacts DEF LinkInv, Locals, Local, Fds
<1>3. /\ conn[c].origin_fd % FdMod = conn[c].origin_fd
      /\ conn[c].client_fd % FdMod = conn[c].client_fd
  BY <1>2, FitsInByte
<1>4. CASE fd = conn[c].client_fd
  <2>1. /\ e.peer = conn[c].origin_fd /\ e.reads = "wb" /\ e.writes = "rb"
        /\ e.mine = "writing_client" /\ e.theirs = "writing_origin" /\ e.source = "reading_origin"
    BY <1>3, <1>4 DEF Ends
  <2> QED
    BY <1>1, <1>4, <2>1 DEF Tunnel, Seen, Flag
<1>5. CASE fd # conn[c].client_fd
  <2>1. fd = conn[c].origin_fd
    BY <1>5 DEF Fds
  <2>2. /\ e.peer = conn[c].client_fd /\ e.reads = "rb" /\ e.writes = "wb"
        /\ e.mine = "writing_origin" /\ e.theirs = "writing_client" /\ e.source = "reading_client"
    BY <1>3, <1>5 DEF Ends
  <2> QED
    BY <1>1, <1>5, <2>1, <2>2 DEF Tunnel, Seen, Flag
<1> QED
  BY <1>4, <1>5

\* A callback of a tunnel that leaves it one.
LEMMA TunnelAwake ==
  ASSUME WideFd, ServiceInv, AllAwake, NEW fd \in Fd, NEW c \in Conn, items[fd].owner = c,
         ReadEvent(fd) \/ WriteEvent(fd), conn[c].st = "COPY", NEW e, e = Ends(c, fd),
         NEW v, NEW t, Becomes(c, v, t), Retuned(c, items, t),
         Kept(conn[c], v),
         Seen(e, fd, v[e.reads], v[e.writes], v.flags, t)
  PROVE  AllAwake'
<1>1. /\ c \in pool /\ fd \in Fds(c) /\ conn[c].dns = "none"
      /\ conn[c].origin_fd # conn[c].client_fd
  BY EventOf DEF ServiceInv, AllLinked, Linked
<1>2. Tunnel(v, t)
  BY <1>1, TunnelSeen DEF ServiceInv, Kept
<1>3. Awake(v, t) /\ ~Starved(v, t)
  BY <1>1, <1>2 DEF Awake, Starved, Kept
<1> QED
  BY <1>3, BecomesAwake

\* The callbacks of the tunnel.
LEMMA CopyAwake ==
  ASSUME WideFd, ServiceInv, AllAwake, Tidy', NEW fd \in Fd, NEW c \in Conn, items[fd].owner = c
  PROVE  /\ CopyRead(c, fd) => AllAwake'
         /\ CopyEof(c, fd) => AllAwake'
         /\ CopyWrite(c, fd) => AllAwake'
         /\ CopyWritePart(c, fd) => AllAwake'
<1> DEFINE e == Ends(c, fd)
           Event == ReadEvent(fd) \/ WriteEvent(fd)
           held == conn[c][e.reads]
           owed == conn[c][e.writes]
           flags == conn[c].flags
           Drop(op) == Reduction(items, fd, op)
<1>0. conn[c] \in ConnRecord /\ items \in Table /\ Retuned(c, items, items)
  BY DEF ServiceInv, LinkInv, TypeOK, Table, Retuned
<1>1. ASSUME Event, conn[c].st = "COPY"
      PROVE  /\ c \in pool /\ fd \in Fds(c) /\ conn[c].origin_fd # conn[c].client_fd
             /\ Seen(e, fd, held, owed, flags, items)
             /\ LinkInv /\ fd # NoFd /\ e.peer # NoFd /\ e.peer \in Fd
  <2>1. /\ c \in pool /\ fd \in Fds(c) /\ conn[c].origin_fd # conn[c].client_fd
        /\ Tunnel(conn[c], items) /\ LinkInv
    BY <1>1, EventOf DEF ServiceInv, AllLinked, Linked, AllAwake, Awake
  <2>2. e.peer \in Fds(c) /\ Seen(e, fd, held, owed, flags, items)
    BY <1>1, <2>1, TunnelSeen DEF ServiceInv
  <2>3. Fds(c) \subseteq Fd
    BY <2>1, FdsFacts
  <2> HIDE DEF e
  <2> QED
    BY <2>1, <2>2, <2>3 DEF Fds
<1>2. ASSUME Event, conn[c].st = "COPY"
      PROVE  /\ e.reads \in {"rb", "wb"} /\ e.writes \in {"rb", "wb"} /\ e.reads # e.writes
             /\ e.peer \in Fds(c) /\ e.peer # fd /\ e.mine # e.theirs
             /\ e.source \in {"reading_client", "reading_origin"}
             /\ e.mine \notin {"reading_client", "reading_origin"}
             /\ e.theirs \notin {"reading_client", "reading_origin"}
             /\ Flag = {"reading_client", "reading_origin", e.mine, e.theirs}
  BY <1>1, <1>2, TunnelSeen DEF ServiceInv
<1>3. held \in BOOLEAN /\ owed \in BOOLEAN /\ flags \in SUBSET Flag
  BY <1>0, EndsType DEF ConnRecord
<1>4. ASSUME Event, conn[c].st = "COPY", NEW op \in {"OP_READ", "OP_WRITE"},
             NEW q \in {"OP_READ", "OP_WRITE"}
      PROVE  /\ Retuned(c, items, Drop(op)) /\ Retuned(c, items, Additive(items, e.peer, op))
             /\ Retuned(c, items, Additive(Drop(op), e.peer, q))
  <2>1. /\ c \in pool /\ fd \in Fds(c) /\ e.peer \in Fds(c) /\ LinkInv
    BY <1>1, <1>2, <1>4
  <2>2. /\ Drop(op) \in Table /\ Retuned(c, items, Drop(op))
        /\ Retuned(c, items, Additive(items, e.peer, op))
    BY <1>0, <2>1, RetuneStep
  <2> HIDE DEF Drop, e
  <2> QED
    BY <2>1, <2>2, RetuneStep
<1>5. ASSUME Event, conn[c].st = "COPY", NEW op, NEW q
      PROVE  /\ Drop(op)[fd].interest = items[fd].interest \ {op}
             /\ Drop(op)[e.peer].interest = items[e.peer].interest
             /\ Additive(items, e.peer, q)[fd].interest = items[fd].interest
             /\ Additive(items, e.peer, q)[e.peer].interest = items[e.peer].interest \cup {q}
             /\ Additive(Drop(op), e.peer, q)[fd].interest = items[fd].interest \ {op}
             /\ Additive(Drop(op), e.peer, q)[e.peer].interest = items[e.peer].interest \cup {q}
  <2>1. items \in Table /\ e.peer \in Fd /\ e.peer # fd
    BY <1>0, <1>1, <1>2, <1>5
  <2> HIDE DEF e
  <2> QED
    BY <2>1 DEF Table, Additive, Reduction
<1>6. ASSUME Event, conn[c].st = "COPY", NEW b \in BOOLEAN, NEW x \in SUBSET Flag,
             NEW k \in {e.reads, e.writes}, NEW j \in {e.reads, e.writes}, j # k
      PROVE  /\ Marked(conn[c], [conn[c] EXCEPT ![k] = b], k, j, b, flags)
             /\ Marked(conn[c], [conn[c] EXCEPT !.flags = x], k, j, conn[c][k], x)
             /\ Marked(conn[c], [conn[c] EXCEPT ![k] = b, !.flags = x], k, j, b, x)
  <2>1. k \in {"rb", "wb"} /\ j \in {"rb", "wb"} /\ conn[c] \in ConnRecord
    BY <1>0, <1>2, <1>6
  <2> HIDE DEF e
  <2> QED
    BY <1>6, <2>1, BufferSet
<1>7. ASSUME Event, conn[c].st = "COPY", NEW v, NEW t, Becomes(c, v, t), Retuned(c, items, t),
             Kept(conn[c], v), Seen(e, fd, v[e.reads], v[e.writes], v.flags, t)
      PROVE  AllAwake'
  BY <1>7, TunnelAwake
<1>8. Event /\ Done(c) => AllAwake'
  BY DoneAwake
<1>9. ASSUME CopyRead(c, fd) PROVE AllAwake'
  <2> DEFINE v == [conn[c] EXCEPT ![e.reads] = TRUE]
             t == Additive(Drop("OP_READ"), e.peer, "OP_WRITE")
  <2>1. Event /\ conn[c].st = "COPY" /\ (Becomes(c, v, t) \/ Done(c))
    BY <1>9 DEF CopyRead, Serves
  <2>2. Marked(conn[c], v, e.reads, e.writes, TRUE, flags)
    BY <1>2, <1>3, <1>6, <2>1
  <2>3. /\ t[fd].interest = items[fd].interest \ {"OP_READ"}
        /\ t[e.peer].interest = items[e.peer].interest \cup {"OP_WRITE"}
    BY <1>5, <2>1
  <2>4. Retuned(c, items, t)
    BY <1>4, <2>1
  <2> HIDE DEF v, t, e, owed, held, flags
  <2>5. Seen(e, fd, TRUE, owed, flags, t)
    BY <1>1, <2>1, <2>3 DEF Seen, Listens
  <2> HIDE DEF Event
  <2> QED
    BY <1>7, <1>8, <2>1, <2>2, <2>4, <2>5 DEF Marked, owed
<1>10. ASSUME CopyEof(c, fd) PROVE AllAwake'
  <2> DEFINE left == flags \ ({"reading_client", "reading_origin", e.mine}
                                \cup (IF held THEN {} ELSE {e.theirs}))
             v == [conn[c] EXCEPT !.flags = left]
             t == Drop("OP_READ")
  <2>1. /\ Event /\ conn[c].st = "COPY"
        /\ \/ left # {} /\ Becomes(c, v, t)
           \/ Done(c)
    BY <1>10 DEF CopyEof, Serves
  <2>2. left \in SUBSET Flag
    BY <1>3
  <2>3. Marked(conn[c], v, e.reads, e.writes, held, left)
    BY <1>2, <1>6, <2>1, <2>2
  <2>4. /\ t[fd].interest = items[fd].interest \ {"OP_READ"}
        /\ t[e.peer].interest = items[e.peer].interest
    BY <1>5, <2>1
  <2>5. Retuned(c, items, t)
    BY <1>4, <2>1
  <2> HIDE DEF v, t, e, owed, held, flags
  <2>6. left # {} => held /\ left = {e.theirs}
    BY <1>1, <1>2, <2>1 DEF Seen
  <2> HIDE DEF left
  <2>7. left # {} => Seen(e, fd, held, owed, left, t)
    BY <1>1, <2>1, <2>4, <2>6 DEF Seen, Listens
  <2> HIDE DEF Event
  <2> QED
    BY <1>7, <1>8, <2>1, <2>3, <2>5, <2>7 DEF Marked, owed
<1>11. ASSUME CopyWrite(c, fd) PROVE AllAwake'
  <2> DEFINE rest == flags \ {e.mine}
             more == e.source \in flags
             v == [conn[c] EXCEPT ![e.writes] = FALSE]
             w == [conn[c] EXCEPT ![e.writes] = FALSE, !.flags = rest]
             t == Drop("OP_WRITE")
             u == Additive(t, e.peer, "OP_READ")
  <2>1. /\ Event /\ conn[c].st = "COPY" /\ owed
        /\ \/ more /\ Becomes(c, v, u)
           \/ ~more /\ rest # {} /\ Becomes(c, w, t)
           \/ Done(c)
    BY <1>11 DEF CopyWrite, Serves
  <2>2. rest \in SUBSET Flag
    BY <1>3
  <2>3. /\ Marked(conn[c], v, e.writes, e.reads, FALSE, flags)
        /\ Marked(conn[c], w, e.writes, e.reads, FALSE, rest)
    BY <1>2, <1>3, <1>6, <2>1, <2>2
  <2>4. Event /\ conn[c].st = "COPY"
    BY <2>1
  <2>5. /\ t[fd].interest = items[fd].interest \ {"OP_WRITE"}
        /\ t[e.peer].interest = items[e.peer].interest
    BY <1>5, <2>4
  <2>6. /\ u[fd].interest = items[fd].interest \ {"OP_WRITE"}
        /\ u[e.peer].interest = items[e.peer].interest \cup {"OP_READ"}
    BY <1>5, <2>4
  <2>7. Retuned(c, items, t) /\ Retuned(c, items, u)
    BY <1>4, <2>1
  <2> HIDE DEF v, w, t, u, e, owed, held, flags
  <2>8. more => Seen(e, fd, held, FALSE, flags, u)
    BY <1>1, <1>2, <2>1, <2>6 DEF Seen, Listens
  <2>9. ~more /\ rest # {} => held /\ rest = {e.theirs}
    BY <1>1, <1>2, <2>1 DEF Seen
  <2> HIDE DEF rest, more
  <2>10. ~more /\ rest # {} => Seen(e, fd, held, FALSE, rest, t)
    BY <1>1, <2>1, <2>5, <2>9 DEF Seen, Listens
  <2> HIDE DEF Event
  <2> QED
    BY <1>7, <1>8, <2>1, <2>3, <2>7, <2>8, <2>10 DEF Marked, held
<1>12. ASSUME CopyWritePart(c, fd) PROVE AllAwake'
  <2> DEFINE t == Additive(items, e.peer, "OP_READ")
  <2>1. /\ Event /\ conn[c].st = "COPY"
        /\ Becomes(c, conn[c], t) \/ Becomes(c, conn[c], items)
    BY <1>12 DEF CopyWritePart, Serves
  <2>2. /\ t[fd].interest = items[fd].interest
        /\ t[e.peer].interest = items[e.peer].interest \cup {"OP_READ"}
    BY <1>5, <2>1
  <2>3. Retuned(c, items, t) /\ Kept(conn[c], conn[c])
    BY <1>4, <2>1 DEF Kept
  <2> HIDE DEF t, e, owed, held, flags
  <2>4. Seen(e, fd, held, owed, flags, t) /\ Seen(e, fd, held, owed, flags, items)
    BY <1>1, <2>1, <2>2 DEF Seen, Listens
  <2> HIDE DEF Event
  <2> QED
    BY <1>0, <1>7, <2>1, <2>3, <2>4 DEF held, owed, flags
<1> QED
  BY <1>9, <1>10, <1>11, <1>12

\* One item of the table is set.
LEMMA ItemSet ==
  ASSUME NEW t \in Table, NEW f \in Fd, NEW i \in Interest, NEW o
  PROVE  /\ SetInterest(t, f, i)[f].interest = i /\ Register(t, f, i, o)[f].interest = i
         /\ \A g \in Fd \ {f} : /\ SetInterest(t, f, i)[g] = t[g]
                               /\ Register(t, f, i, o)[g] = t[g]
BY DEF Table, SetInterest, Register

\* A connection finds an origin to connect to, or no descriptor for one.
LEMMA RequestIpAwake ==
  ASSUME Roomy, NeverAtOnce, ServiceInv, AllAwake, NEW fd \in Fd, NEW c \in Conn,
         items[fd].owner = c, NEW f \in NewFd, NEW o \in ConnectOutcomes,
         RequestReadIp(c, fd, f, o)
  PROVE  AllAwake'
<1> DEFINE t == SetInterest(items, fd, {})
           r == ConnectThroughIp(c, t, f, o)
<1>1. /\ c \in pool /\ pc = "iterate" /\ conn[c].dns = "none" /\ fd \in Fds(c)
      /\ conn[c].st = "REQUEST_READ" /\ conn[c].origin_fd = NoFd /\ fd # NoFd
  <2>1. ReadEvent(fd) /\ conn[c].st = "REQUEST_READ"
    BY DEF RequestReadIp, Serves
  <2> QED
    BY <2>1, EventOf DEF ServiceInv, LinkInv, Locals, Local, Early, Fds
<1>2. /\ conn' = [conn EXCEPT ![c].st = r.ret, ![c].reply = r.reply, ![c].origin_fd = f]
      /\ items' = r.items /\ pool' = pool
  BY DEF RequestReadIp
<1>3. /\ conn \in [Conn -> ConnRecord] /\ items \in Table /\ Retuned(c, items, items)
      /\ {} \in Interest /\ {"OP_WRITE"} \in Interest /\ LinkInv
  BY FdFacts DEF ServiceInv, LinkInv, TypeOK, Table, Retuned
<1>4. fd = conn[c].client_fd /\ ~conn[c].rb /\ ~conn[c].wb
  BY <1>1 DEF Fds, AllAwake, Awake
<1>5. t \in Table /\ Retuned(c, items, t) /\ t[fd].interest = {}
  BY <1>1, <1>3, RetuneSet
<1>6. \A g \in Fd : t[g].owner = items[g].owner
  BY <1>5 DEF Retuned
<1> HIDE DEF t
<1>7. \A d \in pool \ {c} : \A g \in Fds(d) : g \in Fd /\ g # fd /\ t[g] = items[g]
  <2> SUFFICES ASSUME NEW d \in pool \ {c}, NEW g \in Fds(d)
               PROVE  g \in Fd /\ g # fd /\ t[g] = items[g]
    OBVIOUS
  <2>1. d \in Conn /\ g \in Fd /\ items[g].owner = d
    BY <1>1, FdsFacts DEF ServiceInv, LinkInv, TypeOK, Tidy, Registered
  <2> QED
    BY <1>5, <2>1 DEF Retuned
<1>8. /\ r.reply = conn[c].reply
      /\ f = NoFd => /\ r.ret = "REQUEST_WRITE" /\ r.items = SetInterest(t, fd, {"OP_WRITE"})
      /\ f # NoFd => /\ f \in Fd /\ \A d \in pool : f \notin Fds(d)
                     /\ r.ret = "ORIGIN_CONNECT" /\ r.items = Register(t, f, {"OP_WRITE"}, c)
  <2>1. o = "inprogress"
    BY DEF NeverAtOnce
  <2>2. CASE f = NoFd
    BY <1>4, <2>2 DEF ConnectThroughIp
  <2>3. CASE f # NoFd
    <3>1. f \in Fd /\ items[f].owner = Nobody /\ \A d \in pool : f \notin Fds(d)
      BY <1>1, <1>3, <2>3, NewFdFacts
    <3>2. CanRegister(t, f)
      BY <1>6, <3>1, CoreAssumption, ItemsMaxAssumption
         DEF Roomy, CanRegister, ValidFd, Used, Fd
    <3> QED
      BY <2>1, <2>3, <3>1, <3>2 DEF ConnectThroughIp
  <2> QED
    BY <2>2, <2>3
<1> HIDE DEF r
<1>9. /\ \A d \in Conn \ {c} : conn'[d] = conn[d]
      /\ conn'[c].client_fd = fd /\ conn'[c].origin_fd = f /\ conn'[c].dns = "none"
      /\ conn'[c].st = r.ret /\ ~conn'[c].rb /\ ~conn'[c].wb
  BY <1>1, <1>2, <1>3, <1>4 DEF ConnRecord
<1>10. \A d \in pool \ {c} : d \in Conn /\ \A g \in Fds(d) : items'[g] = items[g]
  <2> SUFFICES ASSUME NEW d \in pool \ {c}
               PROVE  d \in Conn /\ \A g \in Fds(d) : items'[g] = items[g]
    OBVIOUS
  <2>1. d \in Conn
    BY <1>3 DEF LinkInv, TypeOK
  <2>2. fd \in Fd /\ \A g \in Fds(d) : g \in Fd \ {fd} /\ t[g] = items[g]
    BY <1>7
  <2>3. CASE f = NoFd
    BY <1>2, <1>3, <1>5, <1>8, <2>1, <2>2, <2>3, ItemSet
  <2>4. CASE f # NoFd
    <3>1. \A g \in Fds(d) : g \in Fd \ {f}
      BY <1>8, <2>2, <2>4
    <3> QED
      BY <1>2, <1>3, <1>5, <1>8, <2>1, <2>2, <2>4, <3>1, ItemSet
  <2> QED
    BY <2>3, <2>4
<1>11. Awake(conn'[c], items') /\ ~Starved(conn'[c], items')
  <2>1. CASE f = NoFd
    <3>1. items'[fd].interest = {"OP_WRITE"}
      <4>1. items' = SetInterest(t, fd, {"OP_WRITE"})
        BY <1>2, <1>8, <2>1
      <4> QED
        BY <1>3, <1>5, <4>1, ItemSet
    <3> QED
      BY <1>1, <1>8, <1>9, <2>1, <3>1 DEF Awake, Starved, Listens
  <2>2. CASE f # NoFd
    <3>1. items'[f].interest = {"OP_WRITE"} /\ items'[fd].interest = {}
      <4>1. f \in Fd /\ items' = Register(t, f, {"OP_WRITE"}, c)
        BY <1>2, <1>8, <2>2
      <4>2. fd \in Fd \ {f}
        BY <1>1, <1>8, <2>2
      <4> QED
        BY <1>3, <1>5, <4>1, <4>2, ItemSet
    <3> QED
      BY <1>8, <1>9, <2>2, <3>1 DEF Awake, Starved, Listens
  <2> QED
    BY <2>1, <2>2
<1> QED
  BY <1>1, <1>2, <1>9, <1>10, <1>11, KeepsAwake

\* The addresses of a name are tried until there is none.
LEMMA ResolvedAwake ==
  ASSUME Roomy, NeverAtOnce, ServiceInv, AllAwake, NEW c \in Conn
  PROVE  /\ \A f \in NewFd, o \in ConnectOutcomes : TryAddress(c, f, o) => AllAwake'
         /\ NoAddressLeft(c) => AllAwake'
<1>0. /\ conn \in [Conn -> ConnRecord] /\ items \in Table /\ Retuned(c, items, items)
      /\ {"OP_WRITE"} \in Interest /\ LinkInv /\ sock \in SockType
  BY FdFacts DEF ServiceInv, LinkInv, TypeOK, Table, Retuned, SockType
<1> DEFINE k == conn[c].client_fd
<1>1. ASSUME Notified(c)
      PROVE  /\ pc = "notify" /\ c \in pool /\ conn[c].st = "ORIGIN_CONNECT"
             /\ conn[c].dns # "none" /\ conn[c].origin_fd = NoFd /\ k \in Fds(c)
             /\ k \in Fd /\ k # NoFd /\ ~conn[c].rb /\ ~conn[c].wb
             /\ Starved(conn[c], items) => FreeFds = {}
             /\ \A d \in pool \ {c} : d \in Conn /\ \A g \in Fds(d) : g \in Fd /\ g # k
  <2>1. /\ pc = "notify" /\ c \in pool /\ conn[c].st = "ORIGIN_CONNECT"
        /\ conn[c].dns = "posted" /\ k \in Fds(c)
    BY <1>0, <1>1, JobOf
  <2>2. conn[c].origin_fd = NoFd
    BY <2>1, ResolvesWithout
  <2>3. k \in Fd /\ k # NoFd
    BY <1>0, <2>1, FdsFacts DEF Fds
  <2>4. /\ ~conn[c].rb /\ ~conn[c].wb
        /\ Starved(conn[c], items) => FreeFds = {}
    BY <2>1 DEF AllAwake, Awake
  <2>5. ASSUME NEW d \in pool \ {c}, NEW g \in Fds(d) PROVE g \in Fd /\ g # k
    <3>1. d \in Conn
      BY DEF ServiceInv, LinkInv, TypeOK
    <3> QED
      BY <1>0, <2>1, <3>1, FdsFacts DEF LinkInv, Owned
  <2> QED
    BY <2>1, <2>2, <2>3, <2>4, <2>5 DEF ServiceInv, LinkInv, TypeOK
<1>2. ASSUME NEW f \in NewFd, NEW o \in ConnectOutcomes, TryAddress(c, f, o) PROVE AllAwake'
  <2> DEFINE r == ConnectThroughIp(c, items, f, o)
             next == [conn[c] EXCEPT !.reply = r.reply, !.origin_fd = f, !.addrs = @ - 1]
             last == [next EXCEPT !.dns = "none"]
  <2>1. Notified(c)
    BY <1>2 DEF TryAddress
  <2>2. /\ f = NoFd => /\ r.ret = "REQUEST_WRITE" /\ r.sock = sock
                       /\ r.items = SetInterest(items, k, {"OP_WRITE"})
        /\ f # NoFd => /\ f \in Fd /\ \A d \in pool : f \notin Fds(d)
                       /\ r.ret = "ORIGIN_CONNECT" /\ r.sock = [sock EXCEPT ![f] = "connecting"]
                       /\ r.items = Register(items, f, {"OP_WRITE"}, c)
    BY <1>0, <1>1, <2>1, ConnectResult
  <2>3. /\ f = NoFd => conn' = [conn EXCEPT ![c] = next]
        /\ f # NoFd => conn' = [conn EXCEPT ![c] = last]
        /\ items' = r.items /\ sock' = r.sock /\ pool' = pool
    BY <1>2, <2>2 DEF TryAddress
  <2> HIDE DEF r
  <2>4. /\ next.client_fd = k /\ next.origin_fd = f /\ next.st = conn[c].st
        /\ next.dns = conn[c].dns /\ next.rb = conn[c].rb /\ next.wb = conn[c].wb
        /\ last.client_fd = k /\ last.origin_fd = f /\ last.st = conn[c].st
        /\ last.dns = "none" /\ last.rb = conn[c].rb /\ last.wb = conn[c].wb
    BY <1>0 DEF ConnRecord
  <2> HIDE DEF next, last
  <2>5. /\ \A d \in Conn \ {c} : conn'[d] = conn[d]
        /\ f = NoFd => conn'[c] = next
        /\ f # NoFd => conn'[c] = last
    BY <1>0, <2>3
  <2>6. CASE f = NoFd
    <3>1. FreeFds = {} /\ sock' = sock
      BY <2>2, <2>3, <2>6, FdFacts, CoreAssumption DEF NewFd, FreeFds, Fd, NoFd
    <3>2. \A g \in Fd \ {k} : items'[g] = items[g]
      BY <1>0, <2>2, <2>3, <2>6 DEF SetInterest, Table
    <3>3. Awake(conn'[c], items') /\ FreeFds' = {}
      BY <1>1, <2>1, <2>4, <2>5, <2>6, <3>1 DEF Awake, FreeFds
    <3> QED
      BY <1>1, <2>1, <2>3, <2>5, <3>1, <3>2, <3>3, KeepsAwake
  <2>7. CASE f # NoFd
    <3>1. f \in FreeFds /\ f \in Fd /\ k # f
      BY <1>1, <2>1, <2>2, <2>7 DEF NewFd
    <3>2. FreeFds' \subseteq FreeFds
      BY <1>0, <2>2, <2>3, <2>7 DEF FreeFds, SockType
    <3>3. /\ \A g \in Fd \ {f} : items'[g] = items[g]
          /\ items'[f].interest = {"OP_WRITE"}
      <4>1. f \in Fd /\ items' = Register(items, f, {"OP_WRITE"}, c)
        BY <2>2, <2>3, <2>7
      <4> QED
        BY <1>0, <4>1, ItemSet
    <3>4. ~Listens(items', k, "OP_WRITE")
      BY <1>1, <2>1, <3>1, <3>3 DEF Starved, Listens
    <3>5. Awake(conn'[c], items') /\ ~Starved(conn'[c], items')
      BY <1>1, <2>1, <2>4, <2>5, <2>7, <3>3, <3>4 DEF Awake, Starved, Listens
    <3>6. \A d \in pool \ {c} : \A g \in Fds(d) : items'[g] = items[g]
      BY <1>1, <2>1, <2>2, <2>7, <3>3
    <3> QED
      BY <1>1, <2>1, <2>3, <2>5, <3>2, <3>5, <3>6, KeepsAwake
  <2> QED
    BY <2>6, <2>7
<1>3. ASSUME NoAddressLeft(c) PROVE AllAwake'
  <2>1. /\ Notified(c) /\ pool' = pool /\ sock' = sock
        /\ conn' = [conn EXCEPT ![c].st = "REQUEST_WRITE", ![c].reply = "failure",
                                ![c].dns = "none"]
        /\ items' = SetInterest(items, k, {"OP_WRITE"})
    BY <1>3 DEF NoAddressLeft
  <2>2. /\ \A d \in Conn \ {c} : conn'[d] = conn[d]
        /\ conn'[c].st = "REQUEST_WRITE" /\ conn'[c].dns = "none"
        /\ conn'[c].client_fd = k /\ conn'[c].origin_fd = conn[c].origin_fd
        /\ conn'[c].rb = conn[c].rb /\ conn'[c].wb = conn[c].wb
    BY <1>0, <2>1 DEF ConnRecord
  <2>3. /\ \A g \in Fd \ {k} : items'[g] = items[g]
        /\ items'[k].interest = {"OP_WRITE"}
    BY <1>0, <1>1, <2>1 DEF SetInterest, Table
  <2>4. FreeFds' \subseteq FreeFds
    BY <2>1 DEF FreeFds
  <2>5. Awake(conn'[c], items') /\ ~Starved(conn'[c], items')
    BY <1>1, <2>1, <2>2, <2>3 DEF Awake, Starved, Listens
  <2>6. /\ pc # "stopped" /\ pool' = pool /\ c \in pool
        /\ \A d \in pool \ {c} : /\ conn'[d] = conn[d]
                                /\ \A g \in Fds(d) : items'[g] = items[g]
    BY <1>1, <2>1, <2>2, <2>3
  <2> QED
    BY <2>4, <2>5, <2>6, KeepsAwake
<1> QED
  BY <1>2, <1>3

\* A new client is asked for its greeting.
LEMMA AcceptAwake ==
  ASSUME Roomy, ServiceInv, AllAwake, NEW c \in Conn, NEW f \in NewFd, Accept(c, f)
  PROVE  AllAwake'
<1>1. /\ pc = "iterate" /\ c \notin pool /\ f # NoFd /\ pool' = pool \cup {c}
      /\ conn \in [Conn -> ConnRecord] /\ items \in Table /\ LinkInv /\ pool \subseteq Conn
      /\ {"OP_READ"} \in Interest
  BY FdFacts DEF Accept, ReadEvent, ServiceInv, LinkInv, TypeOK, Table
<1>2. f \in Fd /\ items[f].owner = Nobody /\ \A d \in pool : f \notin Fds(d) /\ Fds(d) \subseteq Fd
  BY <1>1, NewFdFacts, FdsFacts
<1>3. CanRegister(items, f)
  BY <1>2, CoreAssumption, ItemsMaxAssumption DEF Roomy, CanRegister, ValidFd, Used, Fd
<1>4. conn' = [conn EXCEPT ![c] = NewConn(f)] /\ items' = Register(items, f, {"OP_READ"}, c)
  BY <1>3 DEF Accept
<1>5. conn'[c] = NewConn(f) /\ \A d \in pool : conn'[d] = conn[d]
  BY <1>1, <1>4
<1>6. items'[f].interest = {"OP_READ"} /\ \A g \in Fd \ {f} : items'[g] = items[g]
  BY <1>1, <1>2, <1>4, ItemSet
<1>7. \A d \in pool : \A g \in Fds(d) : items'[g] = items[g]
  BY <1>2, <1>6
<1>8. Awake(conn'[c], items') /\ ~Starved(conn'[c], items')
  BY <1>1, <1>5, <1>6 DEF NewConn, Awake, Starved, Listens
<1> QED
  BY <1>1, <1>5, <1>7, <1>8, KeepsAwake

\* A step that is none of a callback: what the connections wait for stays.
LEMMA QuietAwake ==
  ASSUME AllAwake, UNCHANGED <<pool, items>>, FreeFds' = FreeFds,
         \A d \in pool : /\ conn'[d].client_fd = conn[d].client_fd
                         /\ conn'[d].origin_fd = conn[d].origin_fd
                         /\ conn'[d].st = conn[d].st /\ conn'[d].flags = conn[d].flags
                         /\ conn'[d].rb = conn[d].rb /\ conn'[d].wb = conn[d].wb
                         /\ conn'[d].dns = "none" <=> conn[d].dns = "none"
  PROVE  AllAwake'
<1> SUFFICES ASSUME NEW d \in pool
             PROVE  Awake(conn'[d], items) /\ (Starved(conn'[d], items) => FreeFds = {})
  BY DEF AllAwake
<1>1. Awake(conn[d], items) /\ (Starved(conn[d], items) => FreeFds = {})
  BY DEF AllAwake
<1> QED
  BY <1>1 DEF Awake, Starved, Tunnel

\* Every step leaves every connection something to wait for.
LEMMA AwakeStep ==
  ASSUME Served, NothingKept, ServiceInv, AllAwake, [Next]_vars
  PROVE  AllAwake'
<1> USE DEF Served
<1>0. Tidy'
  BY TidyStep DEF ServiceInv, LinkInv
<1>1. ASSUME NEW fd \in Current, NEW c \in {items[fd].owner} \cap Conn,
             \/ IoFails(c, fd)
             \/ \E m \in {"noauth", "userpass", "none"} : GreetingRead(c, fd, m)
             \/ GreetingWrite(c, fd)
             \/ \E ok \in BOOLEAN : AuthRead(c, fd, ok)
             \/ AuthWrite(c, fd)
             \/ RequestReadError(c, fd) \/ RequestReadFqdn(c, fd)
             \/ \E f \in NewFd, o \in ConnectOutcomes : RequestReadIp(c, fd, f, o)
             \/ VerifyConnection(c, fd)
             \/ \E left \in Leftover : RequestWrite(c, fd, left)
             \/ CopyRead(c, fd) \/ CopyEof(c, fd)
             \/ CopyWrite(c, fd) \/ CopyWritePart(c, fd)
      PROVE  AllAwake'
  <2>1. fd \in Fd /\ c \in Conn /\ items[fd].owner = c
    BY DEF Current, Due
  <2>2. ASSUME NEW f \in NewFd, NEW o \in ConnectOutcomes, RequestReadIp(c, fd, f, o)
        PROVE  AllAwake'
    BY <2>1, <2>2, RequestIpAwake
  <2> QED
    BY <1>0, <1>1, <2>1, <2>2, HandshakeAwake, ReplyAwake, CopyAwake
<1>2. CASE Callback
  <2>1. ASSUME NEW c \in Conn, NEW f \in NewFd, Accept(c, f) PROVE AllAwake'
    BY <2>1, AcceptAwake
  <2>2. ASSUME NEW c \in Conn, NEW f \in NewFd, NEW o \in ConnectOutcomes, TryAddress(c, f, o)
        PROVE  AllAwake'
    BY <2>2, ResolvedAwake
  <2>3. ASSUME NEW c \in Conn, NoAddressLeft(c) PROVE AllAwake'
    BY <2>3, ResolvedAwake
  <2> QED
    BY <1>1, <1>2, <2>1, <2>2, <2>3 DEF Callback
<1>3. CASE Stop
  BY <1>3 DEF Stop, AllAwake
<1>4. CASE Resolver
  <2>1. PICK c \in Conn, n \in 0..MaxAddrs : Resolve(c, n)
    BY <1>4 DEF Resolver
  <2>2. /\ conn' = [conn EXCEPT ![c].dns = "posted", ![c].addrs = n] /\ conn[c].dns = "running"
        /\ UNCHANGED <<pool, items, sock>> /\ pool \subseteq Conn /\ conn \in [Conn -> ConnRecord]
    BY <2>1 DEF Resolve, ServiceInv, LinkInv, TypeOK
  <2>3. \A d \in pool : /\ conn'[d].client_fd = conn[d].client_fd
                        /\ conn'[d].origin_fd = conn[d].origin_fd
                        /\ conn'[d].st = conn[d].st /\ conn'[d].flags = conn[d].flags
                        /\ conn'[d].rb = conn[d].rb /\ conn'[d].wb = conn[d].wb
                        /\ conn'[d].dns = "none" <=> conn[d].dns = "none"
    BY <2>2 DEF ConnRecord
  <2>4. FreeFds' = FreeFds
    BY <2>2 DEF FreeFds
  <2> QED
    BY <2>2, <2>3, <2>4, QuietAwake
<1>5. CASE Network
  <2>1. PICK g \in Fd, a \in {"up", "refused"} : NetworkAnswers(g, a)
    BY <1>5 DEF Network
  <2>2. /\ sock[g] = "connecting" /\ sock' = [sock EXCEPT ![g] = a] /\ sock \in SockType
        /\ UNCHANGED <<conn, pool, items>>
    BY <2>1 DEF NetworkAnswers, ServiceInv, LinkInv, TypeOK, SockType
  <2>3. FreeFds' = FreeFds
    BY <2>2 DEF FreeFds, SockType
  <2> QED
    BY <2>2, <2>3, QuietAwake
<1>6. CASE Loop \/ BrokenPipe \/ Ended \/ UNCHANGED vars
  <2>1. UNCHANGED <<conn, pool, items, sock>>
    BY <1>6 DEF Loop, Select, Interrupted, EndIteration, Pass, BrokenPipe, SendKills, Ended, vars
  <2>2. FreeFds' = FreeFds
    BY <2>1 DEF FreeFds
  <2> QED
    BY <2>1, <2>2, QuietAwake
<1> QED
  BY <1>2, <1>3, <1>4, <1>5, <1>6 DEF Next

\* What a connection waits for is an event of a descriptor that is its own.
LEMMA AwakeWaits ==
  ASSUME ServiceInv, AllAwake
  PROVE  NoConnStuck
<1> SUFFICES ASSUME pc # "stopped", NEW c \in pool, conn[c].dns = "none"
             PROVE  \E fd \in Fds(c) : items[fd].owner = c /\ items[fd].interest # {}
  BY DEF NoConnStuck
<1>1. c \in Conn /\ conn[c] \in ConnRecord /\ Awake(conn[c], items)
  BY DEF AllAwake, ServiceInv, LinkInv, TypeOK
<1>2. ASSUME NEW fd \in {conn[c].client_fd, conn[c].origin_fd},
             NEW op, Listens(items, fd, op)
      PROVE  \E g \in Fds(c) : items[g].owner = c /\ items[g].interest # {}
  <2>1. fd \in Fds(c) /\ fd # NoFd /\ op \in items[fd].interest
    BY <1>2 DEF Fds, Listens
  <2>2. fd \in Fd /\ items[fd].owner = c
    BY <1>1, <2>1, FdsFacts DEF ServiceInv, Tidy, Registered
  <2> QED
    BY <2>1, <2>2
<1>3. \E fd \in {conn[c].client_fd, conn[c].origin_fd}, op \in {"OP_READ", "OP_WRITE"} :
        Listens(items, fd, op)
  <2>1. conn[c].st \in State
    BY <1>1 DEF ConnRecord
  <2> QED
    BY <1>1, <2>1 DEF Awake, Tunnel, State
<1> QED
  BY <1>2, <1>3

\* No connection sleeps for ever: whatever the callbacks of the other clients,
\* the resolver and the network do, it is registered for an event, or its name
\* is being resolved, as long as clients wait for their answer before they send
\* more.  The bound on the descriptors that EMFILE stands for is arbitrary.
THEOREM NoConnStuckCorrect ==
  WideFd /\ Roomy /\ NeverAtOnce /\ NothingKept => (Spec => []NoConnStuck)
<1> SUFFICES ASSUME Served, NothingKept PROVE Spec => []NoConnStuck
  BY DEF Served
<1>1. Init => AllAwake
  BY DEF Init, AllAwake
<1>2. ServiceInv /\ AllAwake /\ [Next]_vars => AllAwake'
  BY AwakeStep
<1>3. Spec => []ServiceInv
  BY ServiceHolds
<1>4. ServiceInv /\ AllAwake => NoConnStuck
  BY AwakeWaits
<1> QED
  BY <1>1, <1>2, <1>3, <1>4, PTL DEF Spec

=============================================================================
