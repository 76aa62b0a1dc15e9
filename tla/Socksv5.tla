------------------------------- MODULE Socksv5 -------------------------------
(***************************************************************************)
(* The proxy's core: the selector loop of the main thread, the SOCKSv5     *)
(* connections it drives through their state machine, the resolver threads *)
(* and the descriptors they all share.  One step is one callback of the    *)
(* selector (whole, with every call it makes), one address of the          *)
(* connection loop, one resolver notification or one event of the network. *)
(***************************************************************************)
EXTENDS SelectorTable, Sequences, FiniteSets

CONSTANTS
  Conn,             \* struct socksv5 that can be allocated
  MaxFd,            \* descriptors 0..MaxFd can be open in the process
  FdMod,            \* values of the uint8_t that holds a descriptor: 256
  MaxConn,          \* MAX_CONCURRENT_CONNECTIONS: 500
  MaxAddrs,         \* addresses a name resolves to, at most
  ConnectOutcomes,  \* what connect() may do: "inprogress", "immediate", "error"
  Leftover          \* TRUE in it: clients may send data behind their request

Fd == 0..MaxFd
Listener == 0       \* stdin is closed: the passive socket is the lowest fd
Passive == "passive"

ASSUME CoreAssumption ==
  /\ MaxFd \in Nat /\ FdMod \in Nat \ {0} /\ MaxAddrs \in Nat /\ MaxConn \in Nat
  /\ ItemsMax > 0
  /\ ConnectOutcomes \subseteq {"inprogress", "immediate", "error"}
  /\ Leftover \subseteq BOOLEAN
  /\ Nobody \notin Conn /\ Passive \notin Conn

VARIABLES
  conn,         \* the fields of every struct socksv5
  pool,         \* the list of allocated structs (first, next, prev)
  items,        \* s->fds
  sock,         \* the kernel's view of every descriptor
  ready,        \* slave_r and slave_w, without what was already handled
  jobs,         \* s->resolution_jobs, the client_fd of each, newest first
  concurrent,   \* concurrent_connections of metrics.c
  pc            \* where the main thread is
vars == <<conn, pool, items, sock, ready, jobs, concurrent, pc>>

State == {"GREETING_READ", "GREETING_WRITE", "AUTH_READ", "AUTH_WRITE",
          "REQUEST_READ", "REQUEST_WRITE", "ORIGIN_CONNECT", "COPY", "ERROR"}
Flag == {"reading_client", "writing_client", "reading_origin", "writing_origin"}

\* global_states_definition: the states with an on_read_ready, on_write_ready
ReadStates == {"GREETING_READ", "AUTH_READ", "REQUEST_READ", "COPY"}
WriteStates == {"GREETING_WRITE", "AUTH_WRITE", "REQUEST_WRITE",
                "ORIGIN_CONNECT", "COPY"}

\* new_socksv5; a struct that is not in the pool keeps this value.
NewConn(fd) ==
  [st |-> "GREETING_READ", client_fd |-> fd, origin_fd |-> NoFd,
   method |-> "none", authed |-> FALSE, reply |-> "SUCCEDED",
   dns |-> "none", addrs |-> 0, flags |-> {}, rb |-> FALSE, wb |-> FALSE]
Blank == NewConn(NoFd)

Init ==
  /\ conn = [c \in Conn |-> Blank]
  /\ pool = {}
  /\ items = [fd \in Fd |-> IF fd = Listener
                THEN [owner |-> Passive, interest |-> {"OP_READ"}] ELSE Unused]
  /\ sock = [fd \in Fd |-> IF fd = Listener THEN "listen" ELSE "free"]
  /\ ready = [r |-> {}, w |-> {}]
  /\ jobs = << >>
  /\ concurrent = 0
  /\ pc = "select"

-----------------------------------------------------------------------------
(* selector_select *)

Readers == {fd \in Fd : "OP_READ" \in items[fd].interest}
Writers == {fd \in Fd : "OP_WRITE" \in items[fd].interest}

\* pselect reports some of the descriptors of interest.  Which ones is left
\* open until the walk over the table reaches them (Pass), with two limits:
\* a socket that was still connecting is not among them, and pselect being
\* level triggered, one whose connect has ended always is.
Select ==
  /\ pc = "select"
  /\ ready' = [r |-> {fd \in Readers : sock[fd] # "connecting"},
               w |-> {fd \in Writers : sock[fd] # "connecting"}]
  /\ pc' = "iterate"
  /\ UNCHANGED <<conn, pool, items, sock, jobs, concurrent>>

Decided(fd) == \/ sock[fd] = "refused"
               \/ sock[fd] = "up" /\ conn[items[fd].owner].st = "ORIGIN_CONNECT"

\* EINTR from the signal of selector_notify_block, or the 2 s timeout: no
\* callback of the iteration runs.  With no job either, nothing happens.
Interrupted ==
  /\ pc = "select" /\ jobs # << >>
  /\ pc' = "notify"
  /\ UNCHANGED <<conn, pool, items, sock, ready, jobs, concurrent>>

\* handle_iteration walks the table once, upwards, and looks at the current
\* interest of each item; what it passes over is not looked at again.
ReadDue(fd) == fd \in ready.r /\ "OP_READ" \in items[fd].interest
WriteDue(fd) == fd \in ready.w /\ "OP_WRITE" \in items[fd].interest
Due == {fd \in Fd : ReadDue(fd) \/ WriteDue(fd)}
Current == {fd \in Due : \A g \in Due : fd <= g}
Above(S, fd) == {g \in S : g > fd}

ReadEvent(fd) ==
  /\ pc = "iterate" /\ fd \in Current /\ ReadDue(fd)
  /\ ready' = [r |-> Above(ready.r, fd), w |-> Above(ready.w, fd - 1)]
  /\ UNCHANGED jobs

WriteEvent(fd) ==
  /\ pc = "iterate" /\ fd \in Current /\ ~ReadDue(fd)
  /\ ready' = [r |-> Above(ready.r, fd), w |-> Above(ready.w, fd)]
  /\ UNCHANGED jobs

\* handle_block_notifications follows; it holds resolution_mutex until it has
\* served every job, and returns at once when there is none.
AfterJobs(q) == IF q = << >> THEN "select" ELSE "notify"

EndIteration ==
  /\ pc = "iterate" /\ Due = {}
  /\ ready' = [r |-> {}, w |-> {}]
  /\ pc' = AfterJobs(jobs)
  /\ UNCHANGED <<conn, pool, items, sock, jobs, concurrent>>

-----------------------------------------------------------------------------
(* Helpers of the callbacks *)

\* The connection the callback on fd serves, while it is in state st.
Serves(c, fd, st) == items[fd].owner = c /\ conn[c].st = st

\* The kernel hands out the lowest free descriptor, or fails with EMFILE.
FreeFds == {fd \in Fd : sock[fd] = "free"}
NewFd == IF FreeFds = {} THEN {NoFd}
         ELSE {fd \in FreeFds : \A g \in FreeFds : fd <= g}

Fds(c) == {conn[c].client_fd, conn[c].origin_fd} \ {NoFd}
\* Mutant: the loop of socksv5_done ends after its first descriptor.
ClosedFirst(k, fds) ==
  [fd \in Fd |-> IF fd \in fds /\ \A g \in fds : fd <= g THEN "free" ELSE k[fd]]

Closed(k, fds) == [fd \in Fd |-> IF fd \in fds THEN "free" ELSE k[fd]]

\* socksv5_done: both descriptors are unregistered and closed, in order; the
\* process aborts at the first one that is not registered.
Disconnect(c) ==
  /\ \A fd \in Fds(c) : Used(items, fd)
  /\ items' = Unregister(items, Fds(c))
  /\ sock' = Closed(sock, Fds(c))
  /\ concurrent' = concurrent - 1
  /\ pool' = pool \ {c}
  /\ conn' = [conn EXCEPT ![c] = Blank]
  /\ UNCHANGED pc

Abort(c) ==
  /\ \E fd \in Fds(c) : ~Used(items, fd)
  /\ items' = Unregister(items, {conn[c].client_fd})
  /\ sock' = Closed(sock, {conn[c].client_fd})
  /\ pc' = "aborted"
  /\ UNCHANGED <<conn, pool, concurrent>>

Done(c) == Disconnect(c) \/ Abort(c)

\* The callback leaves c as v and the table as t, and the connection stays.
Becomes(c, v, t) ==
  /\ conn' = [conn EXCEPT ![c] = v]
  /\ items' = t
  /\ UNCHANGED <<pool, sock, concurrent, pc>>

\* fd was not reported ready, or its callback left everything as it was: a
\* message that is incomplete, a reply sent in part, a new client that accept
\* does not return or that is one too many.
Pass(fd) ==
  /\ ReadEvent(fd) \/ WriteEvent(fd)
  /\ ~Decided(fd)
  /\ UNCHANGED <<conn, pool, items, sock, concurrent, pc>>

-----------------------------------------------------------------------------
(* socksv5_passive_accept *)

\* Mutant: add_connection is forgotten.
AcceptUncounted(c, fd) ==
  /\ ReadEvent(Listener) /\ concurrent < MaxConn
  /\ c \notin pool /\ fd # NoFd /\ CanRegister(items, fd)
  /\ pool' = pool \cup {c}
  /\ conn' = [conn EXCEPT ![c] = NewConn(fd)]
  /\ items' = Register(items, fd, {"OP_READ"}, c)
  /\ sock' = [sock EXCEPT ![fd] = "client"]
  /\ UNCHANGED <<concurrent, pc>>

Accept(c, fd) ==
  /\ ReadEvent(Listener)
  /\ concurrent < MaxConn
  /\ c \notin pool /\ fd # NoFd
  /\ pool' = pool \cup {c}
  /\ \/ /\ CanRegister(items, fd)
        /\ conn' = [conn EXCEPT ![c] = NewConn(fd)]
        /\ items' = Register(items, fd, {"OP_READ"}, c)
        /\ sock' = [sock EXCEPT ![fd] = "client"]
        /\ concurrent' = concurrent + 1
     \/ \* the socket is closed and socksv5_destroy(key->data) frees nothing:
        \* the struct stays in the pool, where only Stop looks at it again
        /\ ~CanRegister(items, fd)
        /\ UNCHANGED <<conn, items, sock, concurrent>>
  /\ UNCHANGED pc

-----------------------------------------------------------------------------
(* The handshake *)

\* recv or send returns no data in any handler: the handler returns ERROR.
IoFails(c, fd) ==
  /\ \/ ReadEvent(fd) /\ conn[c].st \in ReadStates
     \/ WriteEvent(fd) /\ conn[c].st \in WriteStates \ {"ORIGIN_CONNECT"}
  /\ Serves(c, fd, conn[c].st)
  /\ Done(c)

\* The flags of every send are 0 and main.c handles SIGTERM and SIGINT only: a
\* send to a socket that was reset or shut down may raise SIGPIPE, which ends
\* the process and all it holds.
SendKills(c, fd) ==
  /\ WriteEvent(fd) /\ conn[c].st \in WriteStates \ {"ORIGIN_CONNECT"}
  /\ Serves(c, fd, conn[c].st)
  /\ pc' = "killed"
  /\ UNCHANGED <<conn, pool, items, sock, concurrent>>

GreetingRead(c, fd, m) ==
  /\ ReadEvent(fd) /\ Serves(c, fd, "GREETING_READ")
  /\ Becomes(c, [conn[c] EXCEPT !.st = "GREETING_WRITE", !.method = m],
             SetInterest(items, fd, {"OP_WRITE"}))

\* Mutant: the method that was chosen is not looked at.
GreetingWriteSkipsAuth(c, fd) ==
  /\ WriteEvent(fd) /\ Serves(c, fd, "GREETING_WRITE")
  /\ \/ /\ conn[c].method # "none"
        /\ Becomes(c, [conn[c] EXCEPT !.st = "REQUEST_READ"],
                   SetInterest(items, fd, {"OP_READ"}))
     \/ conn[c].method = "none" /\ Done(c)

GreetingWrite(c, fd) ==
  /\ WriteEvent(fd) /\ Serves(c, fd, "GREETING_WRITE")
  /\ \/ /\ conn[c].method = "noauth"
        /\ Becomes(c, [conn[c] EXCEPT !.st = "REQUEST_READ"],
                   SetInterest(items, fd, {"OP_READ"}))
     \/ /\ conn[c].method = "userpass"
        /\ Becomes(c, [conn[c] EXCEPT !.st = "AUTH_READ"],
                   SetInterest(items, fd, {"OP_READ"}))
     \/ conn[c].method = "none" /\ Done(c)

AuthRead(c, fd, ok) ==
  /\ ReadEvent(fd) /\ Serves(c, fd, "AUTH_READ")
  /\ Becomes(c, [conn[c] EXCEPT !.st = "AUTH_WRITE", !.authed = ok],
             SetInterest(items, fd, {"OP_WRITE"}))

\* Mutant: the status that was sent is not looked at.
AuthWriteLetsIn(c, fd) ==
  /\ WriteEvent(fd) /\ Serves(c, fd, "AUTH_WRITE")
  /\ Becomes(c, [conn[c] EXCEPT !.st = "REQUEST_READ"],
             SetInterest(items, fd, {"OP_READ"}))

AuthWrite(c, fd) ==
  /\ WriteEvent(fd) /\ Serves(c, fd, "AUTH_WRITE")
  /\ \/ /\ conn[c].authed
        /\ Becomes(c, [conn[c] EXCEPT !.st = "REQUEST_READ"],
                   SetInterest(items, fd, {"OP_READ"}))
     \/ ~conn[c].authed /\ Done(c)

RequestReadError(c, fd) ==
  /\ ReadEvent(fd) /\ Serves(c, fd, "REQUEST_READ")
  /\ Becomes(c, [conn[c] EXCEPT !.st = "REQUEST_WRITE", !.reply = "failure"],
             SetInterest(items, fd, {"OP_WRITE"}))

-----------------------------------------------------------------------------
(* Connecting to the origin *)

\* connect_through_ip with the table t, when socket() returned f and connect()
\* behaved as o: the state it returns, and what it leaves behind.
ConnectThroughIp(c, t, f, o) ==
  LET toClient == SetInterest(t, conn[c].client_fd, {"OP_WRITE"})
  IN CASE f = NoFd ->
            [ret |-> "REQUEST_WRITE", reply |-> conn[c].reply, items |-> toClient, sock |-> sock]
       [] f # NoFd /\ o = "error" ->
            [ret |-> "REQUEST_WRITE", reply |-> "failure", items |-> toClient,
             sock |-> [sock EXCEPT ![f] = "idle"]]
       [] f # NoFd /\ o = "immediate" ->
            [ret |-> "ORIGIN_CONNECT", reply |-> conn[c].reply, items |-> t,
             sock |-> [sock EXCEPT ![f] = "up"]]
       [] f # NoFd /\ o = "inprogress" ->
            [ret |-> IF CanRegister(t, f) THEN "ORIGIN_CONNECT" ELSE "ERROR",
             reply |-> conn[c].reply,
             items |-> IF CanRegister(t, f) THEN Register(t, f, {"OP_WRITE"}, c) ELSE t,
             sock |-> [sock EXCEPT ![f] = "connecting"]]

\* The request names an address: request_read returns ORIGIN_CONNECT and the
\* arrival at that state connects.  The state that connect_origin_init returns
\* is reached by a nested jump, and stm_handler_read still reports
\* ORIGIN_CONNECT to socksv5_read: an ERROR there does not end the connection.
RequestReadIp(c, fd, f, o) ==
  /\ ReadEvent(fd) /\ Serves(c, fd, "REQUEST_READ")
  /\ LET r == ConnectThroughIp(c, SetInterest(items, fd, {}), f, o)
     IN /\ conn' = [conn EXCEPT ![c].st = r.ret, ![c].reply = r.reply, ![c].origin_fd = f]
        /\ items' = r.items
        /\ sock' = r.sock
  /\ UNCHANGED <<pool, concurrent, pc>>

\* Mutant: the client keeps its interest while the thread runs.
RequestReadFqdnUnmuted(c, fd) ==
  /\ ReadEvent(fd) /\ Serves(c, fd, "REQUEST_READ")
  /\ Becomes(c, [conn[c] EXCEPT !.st = "ORIGIN_CONNECT", !.dns = "running"], items)

\* The request names a host: a detached thread resolves it.
RequestReadFqdn(c, fd) ==
  /\ ReadEvent(fd) /\ Serves(c, fd, "REQUEST_READ")
  /\ Becomes(c, [conn[c] EXCEPT !.st = "ORIGIN_CONNECT", !.dns = "running"],
             SetInterest(items, fd, {}))

\* Mutant: the thread notifies the selector only when it has an address.
ResolveQuietly(c, n) ==
  /\ pc \in {"select", "iterate"}
  /\ conn[c].dns = "running"
  /\ conn' = [conn EXCEPT ![c].dns = IF n = 0 THEN "none" ELSE "posted", ![c].addrs = n]
  /\ jobs' = IF n = 0 THEN jobs ELSE <<conn[c].client_fd>> \o jobs
  /\ UNCHANGED <<pool, items, sock, ready, concurrent, pc>>

\* connect_origin_thread has its n addresses (none if getaddrinfo failed) and
\* queues the job; while jobs are handled the main thread holds the mutex.
Resolve(c, n) ==
  /\ pc \in {"select", "iterate"}
  /\ conn[c].dns = "running"
  /\ conn' = [conn EXCEPT ![c].dns = "posted", ![c].addrs = n]
  /\ jobs' = <<conn[c].client_fd>> \o jobs
  /\ UNCHANGED <<pool, items, sock, ready, concurrent, pc>>

\* connect_origin_block serves the first job of the list.
Notified(c) ==
  /\ pc = "notify" /\ jobs # << >>
  /\ Serves(c, Head(jobs), "ORIGIN_CONNECT")
  /\ UNCHANGED ready

\* Mutant: the end of the list is not noticed.
MoreAlways(c) == TRUE
More(c) == conn[c].addrs > 0        \* origin_resolution_current != NULL

\* One turn of its loop over the addresses.
TryAddress(c, f, o) ==
  /\ Notified(c) /\ More(c)
  /\ LET r == ConnectThroughIp(c, items, f, o)
         next == [conn[c] EXCEPT !.reply = r.reply, !.origin_fd = f, !.addrs = @ - 1]
     IN \/ /\ r.ret = "ORIGIN_CONNECT"      \* under way: the list is freed
           /\ conn' = [conn EXCEPT ![c] = [next EXCEPT !.dns = "none"]]
           /\ items' = r.items /\ sock' = r.sock
           /\ jobs' = Tail(jobs) /\ pc' = AfterJobs(Tail(jobs))
           /\ UNCHANGED <<pool, concurrent>>
        \/ /\ r.ret = "REQUEST_WRITE"       \* failed at once: the next one
           /\ conn' = [conn EXCEPT ![c] = next]
           /\ items' = r.items /\ sock' = r.sock
           /\ UNCHANGED <<pool, jobs, concurrent, pc>>
        \/ /\ r.ret = "ERROR"               \* socksv5_done finds f unregistered
           /\ pc' = "aborted"
           /\ UNCHANGED <<conn, pool, items, sock, jobs, concurrent>>

NoAddressLeft(c) ==
  /\ Notified(c) /\ ~More(c)
  /\ conn' = [conn EXCEPT ![c].st = "REQUEST_WRITE", ![c].reply = "failure", ![c].dns = "none"]
  /\ items' = SetInterest(items, conn[c].client_fd, {"OP_WRITE"})
  /\ jobs' = Tail(jobs) /\ pc' = AfterJobs(Tail(jobs))
  /\ UNCHANGED <<pool, sock, concurrent>>

\* Mutant: a failed origin is unregistered at once.
VerifyConnectionUnregisters(c, fd) ==
  /\ WriteEvent(fd) /\ Serves(c, fd, "ORIGIN_CONNECT")
  /\ Becomes(c, [conn[c] EXCEPT !.st = "REQUEST_WRITE", !.reply = "failure"],
             SetInterest(Unregister(items, {fd}), conn[c].client_fd, {"OP_WRITE"}))

\* verify_connection: SO_ERROR of the origin's socket, which is 0 too while
\* the connection is still being established.
VerifyConnection(c, fd) ==
  /\ WriteEvent(fd) /\ Serves(c, fd, "ORIGIN_CONNECT")
  /\ Becomes(c, [conn[c] EXCEPT !.st = "REQUEST_WRITE",
                   !.reply = IF sock[conn[c].origin_fd] = "refused" THEN "failure" ELSE "SUCCEDED"],
             SetInterest(SetInterest(items, fd, {}), conn[c].client_fd, {"OP_WRITE"}))

\* The whole reply was sent.  rb may hold bytes the client sent behind its
\* request: copy_init keeps the buffers.
RequestWrite(c, fd, left) ==
  /\ WriteEvent(fd) /\ Serves(c, fd, "REQUEST_WRITE") /\ sock[fd] # "refused"
  /\ \/ /\ conn[c].reply = "SUCCEDED" /\ Used(items, conn[c].origin_fd)
        /\ Becomes(c, [conn[c] EXCEPT !.st = "COPY", !.flags = Flag, !.rb = left],
                   SetInterest(SetInterest(items, fd, {"OP_READ"}),
                               conn[c].origin_fd, {"OP_READ"}))
     \/ /\ conn[c].reply # "SUCCEDED" \/ ~Used(items, conn[c].origin_fd)
        /\ Done(c)

-----------------------------------------------------------------------------
(* copy_read and copy_write, with a buffer reduced to whether it holds bytes *)

Ends(c, fd) ==
  IF fd = conn[c].client_fd
  THEN [peer |-> conn[c].origin_fd % FdMod, reads |-> "wb", writes |-> "rb",
        mine |-> "writing_client", theirs |-> "writing_origin", source |-> "reading_origin"]
  ELSE [peer |-> conn[c].client_fd % FdMod, reads |-> "rb", writes |-> "wb",
        mine |-> "writing_origin", theirs |-> "writing_client", source |-> "reading_client"]

CopyRead(c, fd) ==
  /\ ReadEvent(fd) /\ Serves(c, fd, "COPY") /\ sock[fd] # "refused"
  /\ LET e == Ends(c, fd) IN
     \/ /\ Used(items, e.peer)
        /\ Becomes(c, [conn[c] EXCEPT ![e.reads] = TRUE],
                   Additive(Reduction(items, fd, "OP_READ"), e.peer, "OP_WRITE"))
     \/ ~Used(items, e.peer) /\ Done(c)

\* Mutant: the other side is shut down by copy_write only.
CopyEofKeepsOpen(c, fd) ==
  /\ ReadEvent(fd) /\ Serves(c, fd, "COPY")
  /\ Becomes(c, [conn[c] EXCEPT !.flags = @ \ {"reading_client", "reading_origin", Ends(c, fd).mine}],
             Reduction(items, fd, "OP_READ"))

\* End of stream, or ECONNRESET: three flags fall, and the fourth one when
\* nothing is left for the other side, whose socket is then shut down.
CopyEof(c, fd) ==
  /\ ReadEvent(fd) /\ Serves(c, fd, "COPY")
  /\ LET e == Ends(c, fd)
         flags == conn[c].flags \ ({"reading_client", "reading_origin", e.mine}
                    \cup (IF conn[c][e.reads] THEN {} ELSE {e.theirs}))
     IN \/ /\ flags # {}
           /\ Becomes(c, [conn[c] EXCEPT !.flags = flags], Reduction(items, fd, "OP_READ"))
        \/ flags = {} /\ Done(c)

\* All of the buffer was sent.
CopyWrite(c, fd) ==
  /\ WriteEvent(fd) /\ Serves(c, fd, "COPY") /\ sock[fd] # "refused"
  /\ LET e == Ends(c, fd)
         more == e.source \in conn[c].flags
         flags == IF more THEN conn[c].flags ELSE conn[c].flags \ {e.mine}
         sent == Reduction(items, fd, "OP_WRITE")
     IN /\ conn[c][e.writes]
        /\ \/ /\ more /\ Used(items, e.peer)
              /\ Becomes(c, [conn[c] EXCEPT ![e.writes] = FALSE],
                         Additive(sent, e.peer, "OP_READ"))
           \/ /\ ~more /\ flags # {}
              /\ Becomes(c, [conn[c] EXCEPT ![e.writes] = FALSE, !.flags = flags], sent)
           \/ /\ IF more THEN ~Used(items, e.peer) ELSE flags = {}
              /\ Done(c)

\* A part of it was sent: the other side is read again all the same.
CopyWritePart(c, fd) ==
  /\ WriteEvent(fd) /\ Serves(c, fd, "COPY") /\ sock[fd] # "refused"
  /\ LET e == Ends(c, fd)
     IN /\ conn[c][e.writes]
        /\ e.source \in conn[c].flags => Used(items, e.peer)
        /\ Becomes(c, conn[c], IF e.source \in conn[c].flags
                               THEN Additive(items, e.peer, "OP_READ") ELSE items)

-----------------------------------------------------------------------------
(* The rest of the world *)

\* The three-way handshake of a non-blocking connect ends.
NetworkAnswers(fd, answer) ==
  /\ pc \notin {"aborted", "stopped", "killed"} /\ sock[fd] = "connecting"
  /\ sock' = [sock EXCEPT ![fd] = answer]
  /\ UNCHANGED <<conn, pool, items, ready, jobs, concurrent, pc>>

\* SIGTERM or SIGINT: main leaves its loop, destroy_socksv5_pool frees every
\* connection and selector_destroy the table and the queued jobs.
Stop ==
  /\ pc = "select"
  /\ pc' = "stopped"
  /\ pool' = {}
  /\ items' = [fd \in Fd |-> Unused]
  /\ jobs' = << >>
  /\ UNCHANGED <<conn, sock, ready, concurrent>>

Ended == pc \in {"aborted", "stopped", "killed"} /\ UNCHANGED vars

-----------------------------------------------------------------------------
Loop ==
  \/ Select \/ Interrupted \/ EndIteration
  \/ \E fd \in Current : Pass(fd)

Callback ==
  \/ \E c \in Conn, fd \in NewFd : Accept(c, fd)
  \/ \E fd \in Current : \E c \in {items[fd].owner} \cap Conn :
       \/ IoFails(c, fd)
       \/ \E m \in {"noauth", "userpass", "none"} : GreetingRead(c, fd, m)
       \/ GreetingWrite(c, fd)
       \/ \E ok \in BOOLEAN : AuthRead(c, fd, ok)
       \/ AuthWrite(c, fd)
       \/ RequestReadError(c, fd) \/ RequestReadFqdn(c, fd)
       \/ \E f \in NewFd, o \in ConnectOutcomes : RequestReadIp(c, fd, f, o)
       \/ VerifyConnection(c, fd)
       \/ \E left \in Leftover : RequestWrite(c, fd, left)
       \/ CopyRead(c, fd) \/ CopyEof(c, fd)
       \/ CopyWrite(c, fd) \/ CopyWritePart(c, fd)
  \/ \E c \in Conn :
       \/ \E f \in NewFd, o \in ConnectOutcomes : TryAddress(c, f, o)
       \/ NoAddressLeft(c)

Resolver == \E c \in Conn, n \in 0..MaxAddrs : Resolve(c, n)
Network == \E fd \in Fd, answer \in {"up", "refused"} : NetworkAnswers(fd, answer)

BrokenPipe == \E fd \in Current : \E c \in {items[fd].owner} \cap Conn : SendKills(c, fd)

Next == Loop \/ Callback \/ BrokenPipe \/ Resolver \/ Network \/ Stop \/ Ended

Spec == Init /\ [][Next]_vars

\* selector_select is called again and again, with a 2 s timeout; getaddrinfo
\* and connect() end; a thread that waits for resolution_mutex gets it.
Fairness ==
  /\ WF_vars(Loop \/ Callback)
  /\ \A c \in Conn : SF_vars(\E n \in 0..MaxAddrs : Resolve(c, n))
  /\ \A fd \in Fd : WF_vars(\E answer \in {"up", "refused"} : NetworkAnswers(fd, answer))

FairSpec == Spec /\ Fairness

-----------------------------------------------------------------------------
(* Properties *)

ConnRecord ==
  [st : State, client_fd : Fd \cup {NoFd}, origin_fd : Fd \cup {NoFd},
   method : {"noauth", "userpass", "none"}, authed : BOOLEAN,
   reply : {"SUCCEDED", "failure"}, dns : {"none", "running", "posted"},
   addrs : 0..MaxAddrs, flags : SUBSET Flag, rb : BOOLEAN, wb : BOOLEAN]

\* The ranges of the variables.
TypeOK ==
  /\ conn \in [Conn -> ConnRecord]
  /\ pool \subseteq Conn
  /\ items \in [Fd -> [owner : Conn \cup {Passive, Nobody}, interest : Interest]]
  /\ sock \in [Fd -> {"free", "listen", "client", "idle", "connecting", "up", "refused"}]
  /\ ready \in [r : SUBSET Fd, w : SUBSET Fd]
  /\ jobs \in Seq(Fd \cup {NoFd})
  /\ concurrent \in Int
  /\ pc \in {"select", "iterate", "notify", "aborted", "stopped", "killed"}

\* A registered descriptor is open and its attachment is a connection of the
\* pool that holds this very descriptor; two connections never hold the same
\* one.  A callback therefore never gets a freed struct in key->data, and
\* pselect never a closed descriptor (the EBADF of selector.c:617).
AttachmentsLive ==
  /\ \A fd \in Fd : items[fd].owner # Nobody => sock[fd] # "free"
  /\ \A fd \in Fd, c \in Conn :
       items[fd].owner = c => c \in pool /\ fd \in Fds(c)
  /\ \A c, d \in pool : c # d => Fds(c) \cap Fds(d) = {}

\* A connection is registered for an operation only in a state that has a
\* handler for it: the abort()s of stm_handler_read and stm_handler_write
\* (stm.c:67, 84) never fire.
HandlerExists ==
  \A fd \in Fd : items[fd].owner \in Conn =>
    /\ "OP_READ" \in items[fd].interest => conn[items[fd].owner].st \in ReadStates
    /\ "OP_WRITE" \in items[fd].interest => conn[items[fd].owner].st \in WriteStates

\* While a resolver thread works for a connection, or its job is queued, the
\* connection waits in ORIGIN_CONNECT with its client muted, so that nothing
\* can advance or free it under the thread, and the job reaches it: every
\* queued job is of exactly one such connection, on a descriptor it owns.
ResolverOwnsConn ==
  pc # "stopped" =>
    /\ \A c \in Conn : conn[c].dns # "none" =>
         /\ c \in pool /\ conn[c].st = "ORIGIN_CONNECT"
         /\ conn[c].client_fd \in Fd /\ items[conn[c].client_fd].owner = c
         /\ pc \in {"select", "iterate"} => items[conn[c].client_fd].interest = {}
    /\ \A i \in 1..Len(jobs) :
         /\ conn[items[jobs[i]].owner].dns = "posted"
         /\ conn[items[jobs[i]].owner].client_fd = jobs[i]
         /\ \A k \in 1..Len(jobs) : jobs[k] = jobs[i] => k = i

\* The counter that admits new clients is the number of live connections, and
\* stays within the limit: add_connection and remove_connection are paired on
\* every path a connection may take to its end.
CountsMatch ==
  pc # "stopped" => concurrent = Cardinality(pool) /\ concurrent <= MaxConn

\* No connection has its request read before it negotiated no authentication
\* or its user and password were accepted.
OnlyAuthorised ==
  \A c \in pool :
    conn[c].st \in {"REQUEST_READ", "ORIGIN_CONNECT", "REQUEST_WRITE", "COPY"} =>
      \/ conn[c].method = "noauth"
      \/ conn[c].method = "userpass" /\ conn[c].authed

\* A client is told its request SUCCEDED only when the connection to the
\* origin is established.
SuccessMeansConnected ==
  \A c \in pool :
    conn[c].st = "REQUEST_WRITE" /\ conn[c].reply = "SUCCEDED" =>
      conn[c].origin_fd # NoFd /\ sock[conn[c].origin_fd] = "up"

\* Every open descriptor is one of a connection: what a connection opens is
\* closed with it.
NoFdLeak ==
  pc \in {"select", "iterate", "notify"} =>
    \A fd \in Fd : sock[fd] \in {"free", "listen"} \/ \E c \in pool : fd \in Fds(c)

\* socksv5_done always finds both descriptors registered.
NoAbort == pc # "aborted"

\* Something can still happen to every connection: one of its descriptors is
\* of interest, or a resolver thread or a job is on its way.  Otherwise it
\* would hold its slot, its memory and its sockets until the server stops.
NoConnStuck ==
  pc \in {"select", "iterate", "notify"} =>
    \A c \in pool :
      \/ conn[c].dns # "none"
      \/ \E fd \in Fds(c) : items[fd].owner = c /\ items[fd].interest # {}

\* A host name stands for all its addresses: a client is refused only when
\* none of them is left to try (req. 4 of the assignment's functional list).
AllAddressesTried ==
  [][\A c \in Conn :
       conn[c].st = "ORIGIN_CONNECT" /\ conn'[c].st = "REQUEST_WRITE"
         /\ conn'[c].reply = "failure" => conn'[c].addrs = 0]_vars

\* A client that asked for a connection gets an answer: ORIGIN_CONNECT is
\* left, whatever the resolver, the network and the other connections do.
ConnectEnds ==
  \A c \in Conn : conn[c].st = "ORIGIN_CONNECT" ~>
    conn[c].st # "ORIGIN_CONNECT" \/ pc \in {"aborted", "stopped", "killed"}

-----------------------------------------------------------------------------
(* The protocol it implements *)

PhaseOf(v) ==
  CASE v.st = "GREETING_READ" -> "greeting"
    [] v.st = "GREETING_WRITE" ->
         [noauth |-> "welcome", userpass |-> "auth", none |-> "leaving"][v.method]
    [] v.st = "AUTH_READ" -> "auth"
    [] v.st = "AUTH_WRITE" -> IF v.authed THEN "welcome" ELSE "leaving"
    [] v.st = "REQUEST_READ" -> "request"
    [] v.st = "ORIGIN_CONNECT" -> "connecting"
    [] v.st = "REQUEST_WRITE" -> IF v.reply = "SUCCEDED" THEN "granting" ELSE "leaving"
    [] v.st = "COPY" -> "relaying"
    [] v.st = "ERROR" -> "leaving"

Phase(c) ==
  IF c \in pool /\ conn[c].client_fd # NoFd THEN PhaseOf(conn[c]) ELSE "idle"

LinkOf(k) == CASE k = "connecting" -> "pending"
               [] k = "up" -> "up"
               [] k \in {"idle", "refused"} -> "refused"

Link(c) ==
  IF c \in pool /\ conn[c].origin_fd # NoFd THEN LinkOf(sock[conn[c].origin_fd]) ELSE "none"

Protocol == INSTANCE SocksProtocol WITH
  phase <- [c \in Conn |-> Phase(c)],
  link <- [c \in Conn |-> Link(c)]

\* Every callback of the server is a step of the protocol of its client or no
\* step at all: phases come in order, nobody is granted a link that has failed
\* or relayed without one, no callback touches two clients, never are more than
\* MaxConn served.
ProtocolRefined == Protocol!Spec
=============================================================================
