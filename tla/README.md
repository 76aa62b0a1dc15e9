# Verification of the SOCKSv5 proxy

TLA+ models of the proxy server of this repository (`src/`, `headers/`), the
TLC configurations that check them on small instances, and TLAPS proofs of
their central properties for every size. Paths below are relative to the
repository root.

## The system

One thread serves everything. `main.c` opens the passive sockets, registers
them in a selector and calls `selector_select` until a signal sets `done`.
Every iteration waits in `pselect` (2 s at most), walks once over the table of
registered descriptors and calls the read or write handler of those that are
ready, then serves the jobs that resolver threads queued. The only other
threads are the detached ones that run `getaddrinfo`.

| component | state it keeps | operations | interacts with |
|---|---|---|---|
| byte buffer (`buffer.c`) | memory, `read`, `write` pointers | write pointer/advance, read pointer/advance, compact, reset | every handler |
| selector (`selector.c`) | item per descriptor (handler, interest, attachment), `max_fd`, fd_sets, job list with a mutex | register, unregister, set/add/remove interest, select, notify_block, destroy | calls the handlers, is called by them and by resolver threads |
| state machine engine (`stm.c`, `socksv5_stm.c`) | current state of a connection | dispatch of read, write and block events; jump, with a nested jump when an arrival returns another state | selector above, handlers below |
| connections (`socksv5_server.c`, `metrics.c`) | `struct socksv5` in a doubly linked list, the counter of concurrent connections | accept, done, destroy, destroy pool | selector, counter |
| handshake handlers (`greeting_stm.c`, `auth_stm.c`, `request_stm.c`) | method, verdict, reply, interest of the client | read and write handler of each message | parsers, users, engine |
| connecting (`origin_connect_stm.c`) | `origin_fd`, list of addresses, the resolver thread | connect through address or name, block handler, verify | kernel, resolver thread, selector |
| tunnel (`copy_stm.c`) | two buffers, four flags, interest of both sides | read and write handler of each side | both sockets, sniffer |
| handshake parsers (`greeting_parser.c`, `auth_parser.c`, `request_parser.c`) | parser state, bytes collected | feed, consume, fill reply | handlers |
| POP3 sniffer (`pop3_sniffer.c`) | parser state, two indexes, user, password | consume | tunnel (both handlers feed it), log |
| monitoring server (`admin_*.c`) | list of administrators with their places, parser state, buffers | accept, authenticate, carry out a command, destroy | selector, users, metrics, buffer size |
| parameters and users (`parameters.c`) | users, administrators, flags | parse options, add and look up users | handshake, monitoring server |
| log, client, load test | none that matters | output; a terminal program; a script | |

### What is hard here

* **Interleaving.** Callbacks of one connection run on two descriptors, in the
  order of their numbers, between callbacks of other connections; readiness is
  collected before they run and used after earlier ones have closed, opened
  and renumbered descriptors. A resolver thread shares its `struct socksv5`
  with the main thread without a lock.
* **Failure part of the way.** `socket`, `connect` and registrations fail half
  way through a request; descriptors, the counter and the list must still
  match at the end, where `socksv5_done` aborts the process if they do not.
* **Signals and waits.** A job must reach the loop although the signal
  interrupts `pselect`, and a muted client has nothing else that wakes it.
* **Half-closed tunnels.** Four flags, two buffers and two interests decide
  when a side is shut down and when the connection ends; `recv` and `send` may
  return any part.
* **Limits.** `FD_SETSIZE`, 500 connections, descriptors kept in 8 bits,
  buffers without room, `EMFILE`, tables and fields that are full.
* **State kept twice.** The selector has each interest in its array and in two
  fd_sets, and a maximum besides; callbacks change them while it walks.
* **State that survives.** Parsers are started anew inside of the functions that
  format replies; the sniffer goes on after a refused login; administrators
  have a place in a list from which others go.

* **Broken pipes.** Every `send` has flags 0 and `main.c` installs handlers for
  SIGTERM and SIGINT only: a send to a socket that was reset, or that the proxy
  itself has shut down, may end the process with all its connections.

`PROJECT.json` lists these hazards one by one at their lines, with the
properties that would catch them, or why none does.

### What makes each part correct

* buffer: the bytes come out in order, each once, and a drained buffer offers
  all of its room;
* selector and connections: a registered descriptor is open and belongs to a
  live connection; the counter equals the number of connections; nothing that
  was opened is left behind; no event reaches a state without a handler for it;
* handshake: nobody is served before being authorised; phases follow RFC 1928;
* connecting: a connection stays put while a thread works for it; SUCCEEDED is
  never said of a link that is known to have failed (the code means to say it
  only of an established one; the run `Granted` shows that it does not); every
  attempt ends; all addresses of a name are tried; no client sleeps for good;
* tunnel: streams arrive complete and in order; interest and pending bytes
  agree; the connection ends, and in order only after delivering a whole stream;
* parsers: the verdict does not depend on how the stream was cut; replies
  go out whole and in order; a client that waits for them gets through;
* selector inside: what `pselect` is given is what the array says, through any
  sequence of calls, and the walk passes over no event that is still of interest;
* sniffer: what is logged are the credentials of the accepted login, and no
  comparison leaves its word;
* monitoring server: a command acts once, as a whole, only for an
  administrator, on the users and the size it finds, and is answered; the list
  holds whoever is registered.

## Modules

| module | models | how |
|---|---|---|
| `Fifo` | what `buffer.h` promises | a record of unread bytes and of positions not yet reclaimed, as operators |
| `FifoSpec` | the same, as a machine | abstract specification of the buffer |
| `ByteBuffer` | `buffer.c` | memory as a function, pointers as offsets; refines `FifoSpec` |
| `SelectorTable` | the item table of `selector.c` | operators from table to table |
| `SelectorSpec` | the table and its operations, as a machine | abstract specification of the selector |
| `SelectorArray` | `selector.c` inside: array, fd_sets, `max_fd`, growth, the walk of `handle_iteration` | one action per call, one per item and handler of the walk; refines `SelectorSpec` |
| `Socksv5` | selector loop, `stm.c`, `socksv5_server.c`, the handshake handlers, `origin_connect_stm.c`, the control of `copy_stm.c`, shutdown | one action per callback |
| `SocksProtocol` | what a client may rely on | abstract specification; `Socksv5` refines it |
| `Relay` | `copy_stm.c` for one connection, byte by byte | uses `Fifo` for both buffers |
| `HandshakeParsers` | the three parsers, the bytes of the handshake handlers and their replies | one client's stream, cut anywhere; compared with a reading of the whole stream |
| `Pop3Sniffer` | `pop3_sniffer.c` and `sniff_pop3`, character by character | with a client and a server that log in |
| `AdminParsers` | the two parsers of the monitoring protocol | operators from parser and byte to parser |
| `MonitorService` | what an administrator may rely on | abstract specification: messages are whole, there are no parsers, buffers or pointers |
| `Monitor` | `admin_*.c`, the users of `parameters.c`, the size of `buffer.c` | extends `AdminParsers`; refines `MonitorService` |
| `MCHandshake`, `MCPop3Sniffer`, `MCMonitor` | the streams, dialogues and commands of the small instances; `MCMonitor` also has TLC check that `Value` reads digits as decimal modulo `SizeMod` (`Positional`) and that its clients satisfy `PlainClients` (`Typed`), and `MCPop3Sniffer` that its dialogue is a `PlainDialogue` (`Plain`) | |
| `MCSocksv5` | the symmetry set of the small instances | |
| `*_proofs` | theorems about the module of that name | those about `Socksv5` are in `Socksv5_proofs` and in `Socksv5Service_proofs`, which rests on it |

### Socksv5

`conn` holds the fields of each `struct socksv5` the control depends on,
`pool` the linked list, `items` the selector's table, `sock` what the kernel
knows of each descriptor, `ready` what is left of `slave_r`/`slave_w`, `jobs`
the list of `selector_notify_block`, `concurrent` the counter, `pc` the place
of the main thread: about to call `pselect`, walking over the table, serving
jobs, aborted, killed by a broken pipe or stopped.

One step is one whole callback: the event that dispatches it (`ReadEvent`,
`WriteEvent`: the lowest descriptor that is still due, looking at its *current*
interest as `handle_iteration` does), the handler, the jump, and `socksv5_done`
where the handler returns `ERROR` or `DONE`. The loop of
`connect_origin_block` over the addresses takes one step per address; the
mutex makes these steps invisible to the resolver threads (`Resolve` needs
`pc` outside of `"notify"`).

What is left open is left to nondeterminism: which descriptors `pselect`
reports (`Select` takes all of interest that can be ready, and `Pass` drops one
without effect, which also stands for an incomplete message), the verdict on a
message, whether `recv`/`send` fail, what `socket` and `connect` return, the
number of addresses of a name, when the network answers. `Pass` may not drop a
socket whose connect has ended, because `pselect` is level triggered.

A buffer of the tunnel is reduced here to "holds bytes" (`rb`, `wb`); `Relay`
has the bytes. The peer's descriptor goes through `uint8_t fd_target`, here
`% FdMod`.

A write handler whose `send` fails ends its connection (`IoFails`), or SIGPIPE
ends the process (`SendKills`, in `BrokenPipe`): which of the two depends on the
error and on the kernel, so both are possible wherever a `send` may fail. The
other modules have the same pair: `CopyWriteFails` and `CopyWriteKills` in `Relay`,
`Fails` and `SendKills` in `HandshakeParsers`, `WriteFails` and `WriteKills` in
`Monitor`.

A failed registration of a new client leaves its struct in the list
(`socksv5_destroy(key->data)` gets NULL); the model keeps it in `pool`, with
no descriptor, since nothing but the shutdown looks at it again.

### Relay

`buf["client"]` is `write_buffer` (from the client to the origin) and
`buf["origin"]` is `read_buffer`. The bytes of a side are numbered, so that a
lost, repeated or displaced one shows. `send` may take any part of what it is
given; the history variable `whole` says that it has not done so yet. `Room(q)` is what `buffer_write_ptr` reports, and
shrinks by what was read and not reclaimed, so that the buffer's laziness is
part of the model. `down` records `shutdown(fd, SHUT_WR)`. A write to a side
that is `down` always ends the process (`CopyWriteKills`), one to a side that
was reset ends it or the tunnel.

### HandshakeParsers

`stream` is all that one client sends, `input` what was not received yet; a
read handler receives any part of it that `read_buffer` has room for, feeds the
parser (`Consume`, which stops behind the message) and formats the reply; a
write handler sends some of it. `pars` is the parser of the current message,
with the enumeration values of its header as strings without their prefix; the
memory a parser fills is a sequence, whose length is its index. An `eager`
client sends ahead, another one waits for each reply. The name a client
authenticates with is compared as `strcmp` does (`CString`). The state machine
around the handlers is `Socksv5`'s: there a message is only a verdict, here a
verdict is computed, and `ORIGIN_CONNECT` is the end.

The reference is the layout of RFC 1928 and RFC 1929 (`src/documentacion/RFCS`):
`Destination`, `Admitted` and `RepliesDue` index the whole stream by its length
fields, where the parsers see one byte at a time. Codes for what the RFCs leave
open (which error a wrong version is) are the code's.

### SelectorArray

`fds`, `fd_size`, `max_fd` and the four sets are those of `struct fdselector`.
A callback may call any operation on any descriptor, so the calls are actions
of their own that interleave with the steps of the walk (`VisitRead`,
`VisitWrite`: item `i`, then its write handler, as the loop body does, without
looking at `ITEM_USED` again between the two); `n` is the bound that
`handle_iteration` takes once. Calls between two walks are those of the
resolver's notifications and of `main`. `due` is history: what `pselect` has
reported, minus what was handled and what a call has made uninteresting.
`EnsureCapacity` and `NextCapacity` are the growth of the array, which main.c
avoids by asking for all elements (`InitialElements = ItemsMax`).

`SelectorSpec` is the machine of `SelectorTable`, whose operators `Socksv5`
uses: `TableRefined` is what justifies that `Socksv5` knows only the table.

### Pop3Sniffer

`sniffer` is `struct pop3_sniffer`: `read`, `remaining` and `check_read` with
their width, `user` and `pass` the characters stored so far. `copy_read` hands
over what `recv` returned from the origin and `copy_write` what `send` took for
it (`Sniff`); the sniffer consumes its buffer before anything else happens, here
one character per step (`Consume`). The environment is a client that logs in,
is refused, tries again and asks other things, and a server that greets, or
speaks another protocol, and answers. `tries` remembers each login, the verdict
and whether the sniffer had its two commands when the answer came.

The words stand for either case, as `tolower` is applied on both sides. `check_read` is 0
before it is first used (the connection's struct is zeroed). Streams hold no
NUL. `disectors_enabled` only decides whether `Sniff` is called.

What the sniffer logs is right only of a `PlainDialogue`, and each part of that
condition is needed, as TLC shows of all but the last:

* the client waits for its answers and the server accepts every USER, as POP3
  servers do (with `Pipelined = TRUE` or `FALSE` among `UserAnswers` the next
  `+OK` is taken for the verdict on the password: `LoggedWereAccepted` fails);
* a command fits in the sniffer's buffer (with `Pop3Buff = 9` the end of a line
  is lost: `NeverMissesTwo` fails);
* no answer contains "pass " (behind `+OK send pass b` "b" is taken for the password:
  `LoggedWereAccepted` fails), and no answer, name or password contains "user "
  (where a login was missed, or behind a refusal, it is read for the command: with
  a password `user b` `NeverMissesTwo` fails, with a name `auser b`
  `LoggedWereAccepted`);
* names and passwords are without line ends, as lines are;
* an answer that is longer than the buffer, whose line end is lost, does not stop at
  a letter of these words, which might be the beginning of one (`Quiet`; this part
  is stronger than needed).

### Monitor

`adm` holds the fields of each `struct admin`, `first` and `next` the list,
`Hop[k]` what following it k times finds. An administrator's read handler
receives any part of what was sent, feeds the parser and takes what is left
over along (`Rest`); the write handler carries out the command, formats the
answer, starts the parser anew and sends (`RequestWrite`), sends a part
(`RequestWritePart`) or finds the client gone (`WriteFails`). A parameter that was not received yet
is memory that nobody has written: `Written` enumerates what may be read there.
`Destroy` keeps the loop that does not advance (`server = "hung"`), `Accept` the
`destroy_admin` on the listening socket's key (`server = "crashed"`). A size is
read into a `uint64_t`, which wraps: `Value` is the number of the digits modulo
`SizeMod`, 2^64 in the code, so that "4 18446744073709556616" sets 5000.

`MonitorService` reads a message as a whole, as the menu of `client.c` describes
it, where the code has two state machines, and has no list. `ServiceRefined`
maps the list to the order of arrival. Clients behave like `client.c`:
credentials first (with the newline behind them that it does not count), then
one command after each answer; they may leave at any moment. When a message
was answered before all of it came, or an answer was sent in part, `torn` is
set and no client sends any more: what follows is the business of `TypeOK`,
`ListExact` and `Answered` only. Commands are shorter than the memory of a
parameter (255), as the client sees to (`RequestLen`).

## Checks

All bounds are constants of the configurations.

| run | instance | shows |
|---|---|---|
| `Core` | 2 clients, 4 descriptors (so that `EMFILE` happens), names of 1 address, connects under way, fairness | types; exact counter; authorisation; no leaked descriptor; no abort; no stuck connection; implements `SocksProtocol`; every attempt to connect ends |
| `Limits` | 2 clients, 6 descriptors of which the selector takes 0 to 3, names of 2 addresses, every outcome, pipelined data | attachments, handlers and threads stay consistent, also in the histories where the server leaks, aborts or cannot register |
| `ByteBuffer` | 4 bytes of memory, 3 values | order, nothing lost; refines `FifoSpec` |
| `Relay` | buffers of 2, streams of 4 bytes, partial sends, fairness | order, interest; until a send is partial room and an orderly end; bytes leave, tunnels end |
| `Handshake` | 230 streams, buffers of 12 bytes, clients that wait and clients that send ahead, partial greeting and authentication replies | memory bounds; verdict and destination independent of the cuts; replies whole and in order; a waiting client gets through |
| `Sniffer` | fields of 4 characters, a buffer of 12, 4 logins, names of 1 to 5 characters, answers of 0 to 12 | ranges; no comparison leaves its word; what is logged was accepted; an accepted login is logged if it was looked at; no two logins in a row are missed |
| `Monitor` | 3 administrators, 11 commands, 4 logins, room for one more user, sizes modulo 64 (one command wraps to a valid size), fairness | limits of the users and the size; the list is exact; implements `MonitorService`; messages are answered |
| `Selector` | 3 descriptors, any calls, any readiness | no index leaves the array; sets and maximum agree with the array; no event is passed over; implements `SelectorSpec` |

Connections meet only through descriptor numbers, the counter and the job list.
Two clients show every meeting of a pair; that one descriptor is closed and
reused, and what was reported of it is delivered to its new owner, takes three
within one walk (`Granted`, `Selector`). For what does hold, the theorems about
`Socksv5` speak of any number of clients and descriptors. Five
descriptors are the listening socket and two per client; with four, `EMFILE`
happens too (`Core`), with six leaked sockets have room (`Limits`). A name of two addresses
is the shortest that has a next one. A buffer of two bytes is the smallest
that can be partly drained, and streams of twice that fill it again. Twelve bytes
hold each reply and most messages, but neither an IPv6 request nor all that an
eager client sends, so `read_buffer` is filled, left with a remainder and without
room; names and addresses are as short as their boundaries allow. Three
descriptors are the least with one below, one at and one above the index of the
walk, or the maximum. Fields of four characters are filled
to their end, and overfilled, by the names tried, and a buffer of twelve holds all lines but the
longest. The visits of `Monitor` are one administrator with everything, two that
change the same users, and three in a list with room for two or for all: the
middle of a list is the shortest place with somebody before and behind.

`stm_handler_read` and `stm_handler_write` abort the process on an event for
which the state has no handler. No action of `Socksv5` does that: an event
without a handler would only be passed over. That there is none is what
`HandlerExists` says, asked by `Limits` in the histories with most freedom and
proved for every size (`HandlerExistsCorrect`).

`Core` takes `connect` to be under way when it returns, what a non-blocking
socket does unless it fails at once; the other outcomes are explored by
`Limits`, and by the runs below.

### Where the code does not do what it says

Each of these runs asks for one property and finds it violated.

| run | history |
|---|---|
| `Refused` | `connect()` fails at once: the origin was never registered and `socksv5_done` aborts the server |
| `Failover` | an address that refuses asynchronously ends the request; the list was already freed |
| `Granted` | three clients; the tunnel of one (descriptors 1 and 4) ends during a walk, in the callback on its client, and the origins of the other two, opened later in the same walk, get 1 and 4; 4 lies ahead, and `pselect` had reported it writable for the old origin: `verify_connection` runs before there is a connection, finds no error and says SUCCEDED |
| `Hang` | an administrator that is not the last of the list disconnects: the loop that should renumber those behind it never advances, and the whole process hangs |

Not made into runs of their own, with what shows them:

* a name's first address fails at once: the client gets `OP_WRITE` while the
  second is under way, so its own writability runs `verify_connection`, which
  finds no error yet and says SUCCEEDED (`origin_connect_stm.c:179`:
  `SuccessMeansConnected` with two clients, `MaxAddrs = 2` and `"error"` among
  the outcomes);
* a descriptor above 8 bits is truncated to one of another client, whose state
  has no write handler: abort (`copy_stm.c:39`: `HandlerExists` with
  `FdMod = 3`, 3 for 256, so that few descriptors reach it);
* after a partial send the tunnel reads into a buffer that was not compacted and
  may have no room: `recv` of 0 bytes returns 0 and is taken for the end of the
  stream (`copy_stm.c:163`: `NeverReadsIntoFull` and `OrderlyEnd` without their
  condition `whole`), although `buffer.h:68` promises compaction on demand;
* after `-ERR` the sniffer's `remaining` is 0 and wraps, so that the next USER is
  read past its last character and that login is missed (`pop3_sniffer.c:147`:
  `NeverMissesTwo` with `FALSE` in place of its second disjunct), where `pop3_sniffer.h:40` says
  that the new credentials are sniffed;
* a broken pipe ends the process. In `Relay` this needs no reset: after a partial
  send a side that has ended its stream is shut down while the other side is still
  read from, and the next bytes for the first go to a socket that the proxy itself
  has shut down (`copy_stm.c:137`, `main.c:100`: the state `"killed"` with no
  side `"reset"`); while all sends are whole, some side was reset. Nothing in the
  repository says that the process survives this, so no property does;
* an incomplete command of an administrator is carried out, because
  `else if(req_done)` tests a constant (`admin_request_parser.c:185`); with a
  parameter that is still NULL the server crashes (`RequestWriteCrashes`), and
  so it does when an administrator's registration fails (`Accept`).

Others: when `socket()` fails the reply is still the
SUCCEDED of the zeroed struct (`origin_connect_stm.c:49`:
`SuccessMeansConnected` with `MaxFd = 1`); the socket of an address that failed
at once is overwritten by the next one and never closed
(`origin_connect_stm.c:179`: `NoFdLeak` with `"error"` among the outcomes); with data pipelined behind the request
(`Leftover`) or a selector that is full, `NoConnStuck` and `CountsMatch` fail
(`copy_stm.c:23`, `stm.c:52`, `socksv5_server.c:49`); with a `connect()` that
succeeds at once `ConnectEnds` fails, since the origin is not registered
(`origin_connect_stm.c:68`); with `REQUEST_WRITE` in `PartialReplies` (and room
for two replies, `Limit = 24`) `RepliesInOrder` fails, since `request_write`
formats the reply at every call (`request_stm.c:65`); without `~eager`,
`Answered` fails: a message sent ahead is parsed only after one more `recv`
(`auth_stm.c:32`); an empty host name ends `HandshakeParsers` in `crashed`
(`request_parser.c:94` stores through NULL, where the comment beside it expects
the connect to fail). An array smaller than the descriptors there are, which
main.c never asks for, would not be grown for a descriptor equal to its size
(`InBounds` with `InitialElements < ItemsMax`).

### Fairness

Every liveness property is about a process that goes on: its claim ends where the
process is killed, aborts, hangs or is stopped.

`Handshake`: weak fairness of the read and of the write handler, for the loop
that serves a ready descriptor and for a client that goes on sending its stream
and takes its replies; without the latter nothing can be promised.

`Core`: weak fairness of the main thread's steps, because `main` calls
`selector_select` in a loop and `pselect` has a timeout; strong fairness of
each resolver thread, because it must take a mutex that the main thread takes
again and again, and `getaddrinfo` returns; weak fairness of each connecting
socket, because TCP gives up. Nothing is assumed of clients: one that stays
silent keeps its connection.

`Relay`: weak fairness of the read and of the write handler of each side,
which stands for the loop serving a ready descriptor of interest and for peers
that read what they are sent; it is what is needed for "delivered or ended",
and no fairness of the peers' sending or closing is assumed.

`Monitor`: weak fairness of the read and of the write handlers of each
administrator, for the loop that serves a ready descriptor and a client that
takes its answers. Nothing is assumed of what a client sends.

## Proofs

TLAPS checks these for every value of the constants that meets the named
assumptions (`BufferAssumption`, `RelayAssumption`, `CoreAssumption`,
`ItemsMaxAssumption`, `ArrayAssumption`, `SnifferAssumption`,
`HandshakeAssumption`, `MonitorAssumption`), which TLC evaluates in every run.

* `ByteBuffer_proofs`: `TypeCorrect` (`R <= W <= limit`, inductive by itself);
  `DrainedOffersAllCorrect`, strengthened by "a drained buffer has both
  pointers at the start"; `FifoRefinedCorrect`: each pointer operation maps to
  the queue operation of the same name.
* `Relay_proofs`: `TypeCorrect`; `InOrderCorrect`, which rests on the
  associativity of what was sent, what is buffered and what arrives;
  `WriteInterestExactCorrect`; `NeverReadsIntoFullCorrect` and
  `OrderlyEndCorrect`, both of a tunnel whose sends were whole so far. The last
  two share an inductive invariant under that condition: a side of interest for
  reading has an empty buffer, no buffer holds read positions, and the flags that
  fell determine which stream has ended and was passed on.
* `SelectorArray_proofs`, each theorem under `FullArray` (`InitialElements =
  ItemsMax`, what main.c asks for; without it `InBounds` is false): `TypeCorrect` (the
  one that no run repeats), `InBoundsCorrect`,
  `MasterExactCorrect`, `MaxFdExactCorrect`, `NonePassedOverCorrect` and
  `TableRefinedCorrect`. `TypeOK` alone is not inductive: that an item's
  descriptor is its index (`Slots`) is what keeps the sets and the maximum
  exact; what is due lies ahead of the index and below the bound (`DueAhead`),
  because a bit can be reported only of a descriptor up to `max_fd`; between
  walks nothing of a walk is left (`Rested`). The refinement has one lemma per
  call: each maps to the operation of the table, each step of the walk to a
  stutter.
* `Pop3Sniffer_proofs`: `TypeCorrect` and `IndexWithinWordCorrect`. The index
  is bounded although `remaining` wraps: the invariant (`Sound`) says that it
  is at most the length of the word of the state it is used in, where the only
  thing that can match is the terminator, which no character is; in the states
  that fill a field the index is the number of characters stored.
  `LoggedWereAcceptedCorrect`, `LoggedIffLookedAtCorrect` and
  `NeverMissesTwoCorrect` hold of every `PlainDialogue`, whatever the names,
  passwords, answers, sizes and number of logins. Three arguments carry them:
  * one word, character by character: where a word is looked for, what has
    matched and what is left to read are quiet together, so that nothing is found
    (`Searches`, `SearchesOn`); where a command is read it is found at its
    end if the counter started from 5, and read past, unnoticed, if it started
    from the 0 that `-ERR` leaves (`FindsWord`, `FindsOn`);
  * one field: it holds the beginning of what was read, and at the end of the line
    that is the text cut to its size (`Fills`, `FillsOn`, `KeptIsCut`);
  * the dialogue (`DialogueInv`): for each phase of the client which of these the
    sniffer is at, and with which counter. A login can be missed only if the one
    before was read (`MayMiss`), because only the end of a refusal that was read
    leaves a 0, and a miss puts the counter back to 5: two in a row cannot be.
    One lemma per action, and one per phase for the character that is consumed
    (`Hears`).
* `Socksv5_proofs`: `TypeCorrect`, one lemma per group of callbacks;
  `OnlyAuthorisedCorrect`. `OnlyAuthorised` is not inductive: a client in
  `AUTH_WRITE` might have come from any method. `AuthInv` adds that the two
  authentication states are reached only with the user-and-password method,
  and speaks of every struct, not only of those in the pool.
  Then what ties the items of the selector, the pool, the descriptors and the
  resolver's jobs together: `AttachmentsLiveCorrect`, `HandlerExistsCorrect` and
  `ResolverOwnsConnCorrect`, under `WideFd` (`FdMod > MaxFd`: the `uint8_t` in
  which `ops_copy` keeps the peer's descriptor can hold every descriptor of the
  process; with more than 256 it names another connection's). The three are not
  inductive, alone or together: that a callback finds a live struct rests on
  which descriptors the struct holds, this on its state, and the state on no
  event being delivered while its thread runs. `LinkInv` states it all at once:
  an item's owner is in the pool and holds the item's descriptor, descriptors of
  two connections are disjoint and open (`Owned`); a struct has no origin before
  its request and one while it copies (`Locals`); interests are of kinds the
  state handles (`AllHandled`); a connection that waits for its resolution has
  one item, which is muted (`Waiting`), and at most one job (`Queued`). There is
  one lemma per group of steps and one for each helper (`Done`, a change of
  interest, `connect()`).
* `Socksv5Service_proofs`: what the core does for its clients: it counts them,
  gives back what it opened, speaks their protocol and does not forget them.
  All of it is under `WideFd` and `Roomy` (`ItemsMax > MaxFd`: the selector has a
  slot for every descriptor; otherwise an arrival it has no slot for leaves a
  struct in the pool that the counter does not count), and, but for
  `CountsMatchCorrect`, under `NeverAtOnce` (every `connect()` ends in
  `EINPROGRESS`; the run `Refused` shows the abort without it).
  * `CountsMatchCorrect`; `NoAbortCorrect` and `NoFdLeakCorrect`, whose invariant
    adds that whatever a connection of the pool holds is registered as its own
    (`Registered`), which is what keeps `socksv5_done` off its `abort`.
  * `ProtocolRefinedCorrect`: every step of the core is a step of one client in
    `SocksProtocol`, or changes nothing there. `Linked` joins the invariant: a
    live connection has its client's descriptor and another one for its origin,
    on which `connect()` was called, so that the link of the protocol is the
    state of that socket. The protocol has one edge that the RFC has not, from
    the request to "granting" without a link, for `socket()` that fails.
  * `NoConnStuckCorrect`, for clients that send nothing behind their request
    before the answer (`NothingKept`). The invariant (`AllAwake`) says of every
    struct what its next handler needs: to be listened to in the states that
    read, to be written to in those that answer, the origin alone while it
    connects (`Awake`); in the tunnel each side that holds bytes for it is
    written to, and each that holds none is read from, until one side has ended
    (`Tunnel`). The hard case is a callback that leaves its connection without
    the event it wakes by: a resolution whose client is asked to read an answer
    (`Starved`) happens only when the process has no descriptor left, and the
    loop over the addresses then finds none either. Without the conditions
    clients are left asleep: a `connect()` that succeeds at once leaves the
    origin unregistered, a full selector leaves a connection in `ERROR` muted,
    and bytes kept behind the request go on without the interest they need.
* `HandshakeParsers_proofs`: the handshake of every byte stream, however `recv`
  and `send` cut it. `TypeCorrect` (no field and no buffer outgrows its memory)
  and `OriginOfStreamCorrect` (the proxy connects only for a client its stream
  admits, and to the origin the stream names) need no condition;
  `VerdictOfStreamCorrect` and `RepliesInOrderCorrect` hold under `WholeReplies`
  (`send` takes the refusal of a request whole; otherwise `request_write` formats
  it again and sends some of it twice). The streams need not be complete or well
  formed.
  * What each parser knows of its message after `j` bytes is a relation (`Reads`):
    its fields are copies of the bytes the length fields delimit, and its state
    says how far `j` is. One lemma per parser shows that a byte more keeps it
    (`GreetingFeeds`, `AuthFeeds`, `RequestFeeds`), and one per parser that a
    verdict is the one of the stream read as a whole (`GreetingVerdict`...).
  * The loop over a buffer is a recursive function. The library states induction
    for an operator, which the provers here cannot instantiate, so `UpTo` derives
    it for a set, from the fact that a set of numbers has a least element
    (`Least`); `FedReads` applies it to the bytes of one buffer.
  * What links one call of a handler to the next is `Flows`: the buffer, and
    behind it what was not received yet, are what the stream has behind a known
    position, so that nothing is lost, repeated or moved between messages.
    `HandshakeInv` says this for each state, with what was sent and what waits
    to be sent as the replies due so far.
* `Monitor_proofs`, for any number of administrators and whatever they send, in
  whatever parts: `TypeCorrect` (the table of users and the size keep their
  limits), `ListExactCorrect` and `ServiceRefinedCorrect`. The list is made of pointers, so the
  invariant (`Chain`) says what they lead through: the indexes of the open
  structs are the numbers below their count, each once, and each struct leads to
  the one with the next index. `HopIs` derives from it where any number of hops
  leads, by the uniqueness of a function that is defined by recursion; an arrival
  goes behind the last struct (`NewAdminAppends`), and `destroy_admin` either cuts
  the last one or hangs (`DestroyCuts`), so that no struct is ever left at a wrong
  place while the server runs. That an incomplete command cannot bring a size out
  of range rests on what each state of its parser holds (`RequestSound`).
  * `ServiceRefinedCorrect` is under `PlainClients`: the messages are what
    `client.c` sends of typed text without a terminator in it (of credentials
    only a length may be 0; a command is at most 255 characters and ends with its
    only newline). For other messages
    it is false: behind a first newline, or a 0 in a name, the parsers and the
    reading of the message as a whole part ways. TLC evaluates `PlainClients` for
    the run's messages. The service reads a size as the code stores it, modulo
    `SizeMod`, whatever that is; and where the process ends, the service stops
    (`Refuse`).
  * The parser of the credentials is proved against the message by what it knows
    after `j` bytes (`AuthKnows`, kept by each byte and by the loop), that of a
    command in the same way (`RequestKnows`), with the two shapes a command may
    have (`AddAt`, `ResizeOf`) or neither (`Senseless`). `AuthVerdict` and
    `CommandVerdict` then say that what the server answers and does is what the
    service does with the whole message; that the memory behind an argument does
    not matter (`Outcomes` is one outcome) is part of it.
  * `ServeInv` says where each client stands (`Stands`): nothing sent, or a message
    of which a beginning was fed to the parser and the rest is on its way, or all of
    it was and the answer is due. The list is the order of arrival because of the
    indexes (`Ordered`): an arrival appends (`ListAppend`), a departure cuts the
    last one (`ListCut`), and one that is not the last stops the service
    (`DestroyDeparts`).

Only model-checked: all liveness (`ConnectEnds`, `Delivered`, `EndsAfterEof` and
both `Answered`: temporal proofs under fairness are out of the prover's reach
here), with `ENABLED`. Every safety and action property of the passing runs is a
theorem. What the runs above refute is not provable: `SuccessMeansConnected` is
false (`Granted`), and what the sniffer logs of dialogues that are not plain.

## Not modelled

The log and the load test script, which change no state of the server; of
the command line the options (read before the model starts; `-U`, which
`README.md` names for administrators, is `-a` in `parse_args`) and of the client
its terminal. Of the selector the timeouts and the `EBADF` path (which
`AttachmentsLive` makes unreachable). Allocation failures. In the sniffer the
terminator of a full field, which `read_user` stores one behind the memory. In
the monitoring server parameters of 255 characters and more, the text of the
answers, whose length is not bounded by the buffer they are copied into, and
the shutdown, which frees the list. In `Socksv5` a reply of the handshake is
sent whole; `HandshakeParsers` sends it in parts. `pthread_create` succeeds.
One passive socket stands for the IPv4 and the IPv6 one.

## Plan

Done: buffer, selector, core, protocol, handshake parsers, tunnel, sniffer,
monitoring server, with their runs; the proofs of the buffer, the tunnel, the
selector's array, the sniffer's indexes and what it logs of a plain dialogue, and
of the core: types, authorisation, the joint invariant with the six properties that
follow from it, the refinement of `SocksProtocol`, and that no connection falls
asleep; of the handshake's parsers for every stream; and of the monitoring server:
types, list and the refinement of `MonitorService`.

Left: compositions, of the tunnel with the sniffer, and of users added by an
administrator with a handshake under way.
