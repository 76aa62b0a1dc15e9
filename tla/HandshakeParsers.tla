--------------------------- MODULE HandshakeParsers ---------------------------
(***************************************************************************)
(* The handshake of one client, byte by byte: the parsers of its three     *)
(* messages (greeting, authentication, request), the handlers that feed    *)
(* them what recv returned and the replies they send.  The stream of the   *)
(* client is cut anywhere by recv.  pars is the parser of the message that *)
(* is being read; its index is the length of the field it is filling.      *)
(***************************************************************************)
EXTENDS Fifo

SX == INSTANCE SequencesExt

CONSTANTS
  Streams,         \* what a client may send, each a whole handshake or more
  Users,           \* pairs <<name, password>>, without terminators
  PartialReplies   \* the states in which send() may take a part of the reply

\* A message is a sequence of bytes, and the buffers (300 bytes at least, see
\* set_buff_size) hold the short replies.
Byte == 0..255

ASSUME HandshakeAssumption ==
  /\ Limit \in Nat /\ Limit >= 2
  /\ Streams \subseteq Seq(Byte)

VARIABLES
  stream,    \* all that the client sends; it never changes
  eager,     \* the client does not wait for a reply before its next message
  input,     \* the part of the stream that was not received yet
  state,     \* the state of the connection
  pars,      \* greeting_parser, auth_parser or request_parser
  answer,    \* method_selected, auth_stm->reply or request_parser.reply
  rb, wb,    \* read_buffer, write_buffer
  out        \* what the client was sent
vars == <<stream, eager, input, state, pars, answer, rb, wb, out>>

-----------------------------------------------------------------------------
(* greeting_parser.c *)

Version == 5
NoAuth == 0
UserPass == 2
NoAcceptable == 255

GreetingInit == [of |-> "greeting", state |-> "version", remaining |-> 0, methods |-> << >>]

\* Mutant: the count is looked at before the byte is stored.
FeedGreetingLate(c, p) ==
  CASE p.state = "version" ->
         [p EXCEPT !.state = IF c = Version THEN "nmethods" ELSE "unsupported"]
    [] p.state = "nmethods" ->
         IF c = 0 THEN [p EXCEPT !.state = "bad_syntax"]
         ELSE [p EXCEPT !.state = "methods", !.remaining = c]
    [] p.state = "methods" ->
         [p EXCEPT !.methods = Append(@, c),
                   !.state = IF Len(p.methods) = p.remaining THEN "done" ELSE @]

FeedGreeting(c, p) ==
  CASE p.state = "version" ->
         [p EXCEPT !.state = IF c = Version THEN "nmethods" ELSE "unsupported"]
    [] p.state = "nmethods" ->
         IF c = 0 THEN [p EXCEPT !.state = "bad_syntax"]
         ELSE [p EXCEPT !.state = "methods", !.remaining = c]
    [] p.state = "methods" ->
         [p EXCEPT !.methods = Append(@, c),
                   !.state = IF Len(p.methods) + 1 = p.remaining THEN "done" ELSE @]

\* select_method: user and password wins over no authentication
SelectMethod(methods) ==
  LET offered == SX!ToSet(methods)
  IN IF UserPass \in offered THEN UserPass
     ELSE IF NoAuth \in offered THEN NoAuth ELSE NoAcceptable

-----------------------------------------------------------------------------
(* auth_parser.c *)

AuthVersion == 1
AuthSuccess == 0
AuthFail == 1

AuthInit == [of |-> "auth", state |-> "version", remaining |-> 0, index |-> 0,
             user |-> << >>, password |-> << >>]

\* Mutant: the index of the name goes on in the password.
FeedAuthKeepsIndex(c, p) ==
  CASE p.state = "version" ->
         [p EXCEPT !.state = IF c = AuthVersion THEN "user_len" ELSE "unsupported"]
    [] p.state \in {"user_len", "pass_len"} /\ c = 0 -> [p EXCEPT !.state = "bad_length"]
    [] p.state = "user_len" /\ c # 0 -> [p EXCEPT !.state = "user", !.remaining = c]
    [] p.state = "pass_len" /\ c # 0 -> [p EXCEPT !.state = "pass", !.remaining = c]
    [] p.state = "user" ->
         [p EXCEPT !.user = Append(@, c), !.index = @ + 1,
                   !.state = IF p.index + 1 = p.remaining THEN "pass_len" ELSE @]
    [] p.state = "pass" ->
         [p EXCEPT !.password = Append(@, c), !.index = @ + 1,
                   !.state = IF p.index + 1 = p.remaining THEN "done" ELSE @]

FeedAuth(c, p) ==
  CASE p.state = "version" ->
         [p EXCEPT !.state = IF c = AuthVersion THEN "user_len" ELSE "unsupported"]
    [] p.state \in {"user_len", "pass_len"} /\ c = 0 -> [p EXCEPT !.state = "bad_length"]
    [] p.state = "user_len" /\ c # 0 -> [p EXCEPT !.state = "user", !.remaining = c]
    [] p.state = "pass_len" /\ c # 0 ->
         [p EXCEPT !.state = "pass", !.remaining = c, !.index = 0]
    [] p.state = "user" ->
         [p EXCEPT !.user = Append(@, c), !.index = @ + 1,
                   !.state = IF p.index + 1 = p.remaining THEN "pass_len" ELSE @]
    [] p.state = "pass" ->
         [p EXCEPT !.password = Append(@, c), !.index = @ + 1,
                   !.state = IF p.index + 1 = p.remaining THEN "done" ELSE @]

\* strcmp sees a string up to its first terminator
CString(s) ==
  LET ends == {i \in DOMAIN s : s[i] = 0}
  IN IF ends = {} THEN s
     ELSE SubSeq(s, 1, (CHOOSE i \in ends : \A j \in ends : i <= j) - 1)

\* authenticate_user
Authenticated(name, password) == <<CString(name), CString(password)>> \in Users

-----------------------------------------------------------------------------
(* request_parser.c *)

Connect == 1
Ipv4 == 1
Fqdn == 3
Ipv6 == 4
Succeeded == 0
NotAllowed == 2
CommandNotSupported == 7
AddressTypeNotSupported == 8

RequestInit == [of |-> "request", state |-> "version", atyp |-> -1, addr_len |-> -1,
                addr |-> << >>, port |-> -1, reply |-> Succeeded]

Refuse(p, code) == [p EXCEPT !.state = "error", !.reply = code]

\* The terminator of an empty name is stored through the NULL that addr still
\* is: "fault" stands for the end of the process.
FeedRequest(c, p) ==
  CASE p.state = "version" ->
         IF c = Version THEN [p EXCEPT !.state = "command"] ELSE Refuse(p, NotAllowed)
    [] p.state = "command" ->
         IF c = Connect THEN [p EXCEPT !.state = "rsv"]
         ELSE Refuse(p, CommandNotSupported)
    [] p.state = "rsv" ->
         IF c = 0 THEN [p EXCEPT !.state = "atyp"] ELSE Refuse(p, NotAllowed)
    [] p.state = "atyp" ->
         IF c \notin {Ipv4, Fqdn, Ipv6} THEN Refuse(p, AddressTypeNotSupported)
         ELSE [p EXCEPT !.state = "addr", !.atyp = c,
                        !.addr_len = CASE c = Ipv4 -> 4 [] c = Ipv6 -> 16 [] c = Fqdn -> 0]
    [] p.state = "addr" /\ p.addr_len = 0 ->
         IF c = 0 THEN [p EXCEPT !.state = "fault"] ELSE [p EXCEPT !.addr_len = c]
    [] p.state = "addr" /\ p.addr_len # 0 ->
         [p EXCEPT !.addr = Append(@, c),
                   !.state = IF Len(p.addr) + 1 = p.addr_len THEN "port" ELSE @]
    [] p.state = "port" ->
         IF p.port = -1 THEN [p EXCEPT !.port = c * 256]
         ELSE [p EXCEPT !.port = @ + c, !.state = "done"]

-----------------------------------------------------------------------------
(* consume_greeting_buffer, consume_auth_buffer, consume_request_buffer *)

\* the parser of the message at hand
Feed(c, p) == CASE p.of = "greeting" -> FeedGreeting(c, p)
                [] p.of = "auth" -> FeedAuth(c, p)
                [] p.of = "request" -> FeedRequest(c, p)

Verdicts == {"done", "unsupported", "bad_syntax", "bad_length", "error", "fault"}

\* p once it was fed the bytes s, up to the one that gives a verdict, and how
\* many that took.  (The sets of one element make TLC evaluate a parser once.)
Fed(s, p) ==
  LET run[i \in 0..Len(s)] ==
        IF i = 0 THEN [pars |-> p, taken |-> 0]
        ELSE CHOOSE r \in {IF before.pars.state \in Verdicts THEN before
                           ELSE [pars |-> Feed(s[i], before.pars), taken |-> i] :
                             before \in {run[i - 1]}} : TRUE
  IN run[Len(s)]

\* Mutant: the loop does not stop at the end of the message.
ConsumeAll(q, p) == [pars |-> Fed(q.bytes, p).pars, rb |-> Empty]

\* The loop over the buffer: what is behind the message stays there.
Consume(q, p) ==
  LET fed == Fed(q.bytes, p)
  IN [pars |-> fed.pars, rb |-> Take(q, fed.taken)]

-----------------------------------------------------------------------------
(* What a stream means, read as a whole from the length fields of its        *)
(* messages (RFC 1928 and 1929, src/documentacion/RFCS).                     *)

Behind(s, n) == SubSeq(s, n + 1, Len(s))

GreetingFits(s) == s[1] = Version /\ s[2] # 0
GreetingLen(s) == IF s[1] # Version THEN 1 ELSE 2 + s[2]
MethodOf(s) ==
  IF GreetingFits(s) THEN SelectMethod(SubSeq(s, 3, GreetingLen(s))) ELSE NoAcceptable

AuthFits(s) == s[1] = AuthVersion /\ s[2] # 0 /\ s[3 + s[2]] # 0
AuthLen(s) == IF s[1] # AuthVersion THEN 1
              ELSE IF s[2] = 0 THEN 2 ELSE 3 + s[2] + s[3 + s[2]]
Granted(s) ==
  AuthFits(s) /\ Authenticated(SubSeq(s, 3, 2 + s[2]), SubSeq(s, 4 + s[2], AuthLen(s)))

RequestCode(s) ==
  IF s[1] # Version THEN NotAllowed
  ELSE IF s[2] # Connect THEN CommandNotSupported
  ELSE IF s[3] # 0 THEN NotAllowed
  ELSE IF s[4] \notin {Ipv4, Fqdn, Ipv6} THEN AddressTypeNotSupported
  ELSE Succeeded
AddrFrom(s) == IF s[4] = Fqdn THEN 6 ELSE 5
AddrTo(s) == CASE s[4] = Ipv4 -> 8 [] s[4] = Ipv6 -> 20 [] s[4] = Fqdn -> 5 + s[5]
Destination(s) ==
  [atyp |-> s[4], addr |-> SubSeq(s, AddrFrom(s), AddrTo(s)),
   port |-> 256 * s[AddrTo(s) + 1] + s[AddrTo(s) + 2]]

RequestReply(code) == <<Version, code, 0, Ipv4, 0, 0, 0, 0, 0, 0>>

\* Where the request starts, for a client that gets that far.
RequestAt(s) ==
  IF MethodOf(s) = NoAuth THEN GreetingLen(s)
  ELSE GreetingLen(s) + AuthLen(Behind(s, GreetingLen(s)))

Admitted(s) == \/ MethodOf(s) = NoAuth
               \/ MethodOf(s) = UserPass /\ Granted(Behind(s, GreetingLen(s)))

\* The replies due to the stream before the proxy connects, or gives up.
RepliesDue(s) ==
  <<Version, MethodOf(s)>>
  \o (IF MethodOf(s) # UserPass THEN << >>
      ELSE <<AuthVersion, IF Admitted(s) THEN AuthSuccess ELSE AuthFail>>)
  \o (IF ~Admitted(s) \/ RequestCode(Behind(s, RequestAt(s))) = Succeeded THEN << >>
      ELSE RequestReply(RequestCode(Behind(s, RequestAt(s)))))

-----------------------------------------------------------------------------
(* The handlers *)

Init ==
  /\ stream \in Streams
  /\ eager \in BOOLEAN
  /\ input = stream
  /\ state = "GREETING_READ"
  /\ pars = GreetingInit
  /\ answer = -1
  /\ rb = Empty /\ wb = Empty
  /\ out = << >>

\* Where the messages of the stream end.
MessageEnds ==
  {GreetingLen(stream)} \cup
  (IF MethodOf(stream) = NoAcceptable THEN {} ELSE {RequestAt(stream)})

\* recv returns n bytes, at most what there is room for; of a client that
\* waits for its replies, not more than one message.
Received(n) ==
  LET before == Len(stream) - Len(input)
  IN /\ n \in 1..Len(input) /\ n <= Room(rb)
     /\ eager \/ \A m \in MessageEnds : ~(before < m /\ m < before + n)
     /\ input' = Behind(input, n)
     /\ UNCHANGED <<stream, eager, out>>
Filled(n) == Put(rb, SubSeq(input, 1, n))

\* A message is incomplete: the handler returns the state it is in.
Waits(r) ==
  /\ r.pars.state \notin Verdicts
  /\ rb' = r.rb /\ pars' = r.pars
  /\ UNCHANGED <<state, answer, wb>>

Replies(r, code, message, next) ==
  /\ rb' = r.rb /\ pars' = r.pars
  /\ answer' = code
  /\ wb' = Put(wb, message)
  /\ state' = next

GreetingRead(n) ==
  /\ state = "GREETING_READ" /\ Received(n)
  /\ LET r == Consume(Filled(n), pars)
         m == SelectMethod(r.pars.methods)
     IN \/ Waits(r)
        \/ /\ r.pars.state \in Verdicts
           /\ Replies(r, m, <<Version, m>>, "GREETING_WRITE")

AuthRead(n) ==
  /\ state = "AUTH_READ" /\ Received(n)
  /\ LET r == Consume(Filled(n), pars)
         ok == r.pars.state = "done" /\ Authenticated(r.pars.user, r.pars.password)
         code == IF ok THEN AuthSuccess ELSE AuthFail
     IN \/ Waits(r)
        \/ /\ r.pars.state \in Verdicts
           /\ Replies(r, code, <<AuthVersion, code>>, "AUTH_WRITE")

\* request_done is fed once more, which sets the reply.
RequestRead(n) ==
  /\ state = "REQUEST_READ" /\ Received(n)
  /\ LET r == Consume(Filled(n), pars)
     IN \/ Waits(r)
        \/ /\ r.pars.state \in Verdicts
           /\ rb' = r.rb /\ pars' = r.pars
           /\ answer' = IF r.pars.state = "done" THEN Succeeded ELSE r.pars.reply
           /\ state' = CASE r.pars.state = "done" -> "ORIGIN_CONNECT"
                         [] r.pars.state = "error" -> "REQUEST_WRITE"
                         [] r.pars.state = "fault" -> "crashed"
           /\ UNCHANGED wb

\* send takes n bytes of q.
Sent(q, n) ==
  /\ n \in 1..Unread(q)
  /\ n = Unread(q) \/ state \in PartialReplies
  /\ out' = out \o Front(q, n)
  /\ wb' = Take(q, n)
  /\ UNCHANGED <<stream, eager, input, rb, answer>>

\* The connection is in state st from now on; an arrival starts its parser.
Enters(st) ==
  /\ state' = st
  /\ pars' = CASE st = "AUTH_READ" -> AuthInit
               [] st = "REQUEST_READ" -> RequestInit
               [] OTHER -> pars

\* Mutant: what send left behind is not looked at.
GreetingWriteOnce(n) ==
  /\ state = "GREETING_WRITE" /\ Sent(wb, n)
  /\ Enters(CASE answer = NoAuth -> "REQUEST_READ"
              [] answer = UserPass -> "AUTH_READ"
              [] OTHER -> "ERROR")

GreetingWrite(n) ==
  /\ state = "GREETING_WRITE" /\ Sent(wb, n)
  /\ \/ Pending(wb') /\ Enters(state)
     \/ /\ ~Pending(wb')
        /\ Enters(CASE answer = NoAuth -> "REQUEST_READ"
                    [] answer = UserPass -> "AUTH_READ"
                    [] OTHER -> "ERROR")

AuthWrite(n) ==
  /\ state = "AUTH_WRITE" /\ Sent(wb, n)
  /\ \/ Pending(wb') /\ Enters(state)
     \/ ~Pending(wb') /\ Enters(IF answer = AuthSuccess THEN "REQUEST_READ" ELSE "DONE")

\* The reply is formatted at every call, behind what the last one left; a
\* reply without room for it (the code writes it all the same) is not modelled.
RequestWrite(n) ==
  /\ state = "REQUEST_WRITE"
  /\ Room(wb) >= Len(RequestReply(answer))
  /\ Sent(Put(wb, RequestReply(answer)), n)
  /\ Enters(IF Pending(wb') THEN "REQUEST_WRITE" ELSE "DONE")

Ended == {"ORIGIN_CONNECT", "DONE", "ERROR", "crashed", "killed"}

\* recv or send returns no data: the client left, or, in the states that
\* read, there is no room in the buffer.
Fails ==
  /\ state \notin Ended
  /\ state' = "ERROR"
  /\ UNCHANGED <<stream, eager, input, pars, answer, rb, wb, out>>

\* The flags of send are 0 and main.c handles SIGTERM and SIGINT only: a reply
\* to a client that has reset its connection may raise SIGPIPE, which ends the
\* whole process.
SendKills ==
  /\ state \in {"GREETING_WRITE", "AUTH_WRITE", "REQUEST_WRITE"}
  /\ state' = "killed"
  /\ UNCHANGED <<stream, eager, input, pars, answer, rb, wb, out>>

\* What follows is Socksv5's.
Over == state \in Ended /\ UNCHANGED vars

Read == \E n \in 1..Limit : GreetingRead(n) \/ AuthRead(n) \/ RequestRead(n)
Write == \E n \in 1..Limit : GreetingWrite(n) \/ AuthWrite(n) \/ RequestWrite(n)

Next == Read \/ Write \/ Fails \/ SendKills \/ Over

Spec == Init /\ [][Next]_vars

\* The loop serves a client that has sent bytes, or that can take some; and
\* the client goes on sending its stream.
FairSpec == Spec /\ WF_vars(Read) /\ WF_vars(Write)

-----------------------------------------------------------------------------
\* Every field stays within the memory that was allocated for it (the length
\* its own length byte announced), and both buffers within theirs.
TypeOK ==
  /\ state \in Ended \cup {"GREETING_READ", "GREETING_WRITE", "AUTH_READ",
                           "AUTH_WRITE", "REQUEST_READ", "REQUEST_WRITE"}
  /\ Room(rb) >= 0 /\ Room(wb) >= 0
  /\ state \in {"GREETING_READ", "GREETING_WRITE"} => Len(pars.methods) <= pars.remaining
  /\ state = "AUTH_READ" =>
       /\ pars.state \in {"user_len", "user"} => Len(pars.user) <= pars.remaining
       /\ Len(pars.password) <= pars.remaining
  /\ state \in {"REQUEST_READ", "ORIGIN_CONNECT"} =>
       pars.addr = << >> \/ Len(pars.addr) <= pars.addr_len

\* However recv cut the stream, and whatever the client sent ahead, the origin
\* the proxy connects to is the one the stream names, and only a client whose
\* stream is to be refused is refused (the three consume functions).
VerdictOfStream ==
  /\ state = "ORIGIN_CONNECT" =>
       /\ Admitted(stream) /\ out = RepliesDue(stream)
       /\ [atyp |-> pars.atyp, addr |-> pars.addr, port |-> pars.port]
            = Destination(Behind(stream, RequestAt(stream)))
  /\ state = "DONE" =>
       /\ out = RepliesDue(stream)
       /\ Admitted(stream) => RequestCode(Behind(stream, RequestAt(stream))) # Succeeded

\* Replies reach the client whole, each once and in the order of its messages:
\* what was sent and what waits to be sent is always a beginning of what is due,
\* and no message is read before the reply to the one before it is out.
RepliesInOrder ==
  /\ SX!IsPrefix(out \o wb.bytes, RepliesDue(stream))
  /\ state \in {"AUTH_READ", "REQUEST_READ"} => ~Pending(wb)

\* A client that waits for its replies, and goes on sending, gets through the
\* handshake: no message is left half read and no reply half sent.
Answered == ~eager ~> state \in Ended
=============================================================================
