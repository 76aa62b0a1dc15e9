---------------------- MODULE HandshakeParsers_proofs ----------------------
(***************************************************************************)
(* Proofs about the handshake's parsers, for every stream and however it   *)
(* is cut.  A parser is fed by a loop over a buffer, so that what it knows *)
(* of its message is found by induction over the bytes of one buffer, and  *)
(* again over the buffers it is given.                                     *)
(***************************************************************************)
EXTENDS HandshakeParsers, SequenceTheorems, WellFoundedInduction, TLAPS

\* A request's reply is sent whole: what formats it does so at every call.
WholeReplies == "REQUEST_WRITE" \notin PartialReplies

-----------------------------------------------------------------------------
(* What a parser knows when it was fed the first j bytes of m *)

\* f is what stands behind the first k bytes of m.
Copied(f, m, k) == \A i \in 1..Len(f) : f[i] = m[k + i]

GreetingReads(p, m, j) ==
  /\ p \in [of : {"greeting"}, state : {"version", "nmethods", "methods", "done",
                                        "unsupported", "bad_syntax"},
            remaining : Byte, methods : Seq(Byte)]
  /\ p.state \in {"version", "nmethods", "unsupported", "bad_syntax"} => p.methods = << >>
  /\ p.state \in {"methods", "done"} =>
       /\ GreetingFits(m) /\ p.remaining = m[2]
       /\ Copied(p.methods, m, 2) /\ j = 2 + Len(p.methods)
  /\ p.state = "version" => j = 0
  /\ p.state = "nmethods" => j = 1 /\ m[1] = Version
  /\ p.state = "methods" => Len(p.methods) < m[2]
  /\ p.state = "done" => Len(p.methods) = m[2]
  /\ p.state = "unsupported" => j = 1 /\ m[1] # Version
  /\ p.state = "bad_syntax" => j = 2 /\ m[1] = Version /\ m[2] = 0

\* Where the length of the password stands.
PassAt(m) == 3 + m[2]

AuthReads(p, m, j) ==
  /\ p \in [of : {"auth"}, state : {"version", "user_len", "user", "pass_len", "pass",
                                    "done", "unsupported", "bad_length"},
            remaining : Byte, index : Nat, user : Seq(Byte), password : Seq(Byte)]
  /\ p.state \in {"version", "user_len", "user", "pass_len"} => p.password = << >>
  /\ p.state \in {"version", "user_len"} => p.user = << >> /\ p.index = 0
  /\ p.state \in {"user_len", "user", "pass_len", "pass", "done"} => m[1] = AuthVersion
  /\ p.state \in {"user", "pass_len", "pass", "done"} =>
       m[2] # 0 /\ Copied(p.user, m, 2)
  /\ p.state \in {"pass_len", "pass", "done"} => Len(p.user) = m[2]
  /\ p.state \in {"pass", "done"} =>
       /\ m[PassAt(m)] # 0 /\ p.remaining = m[PassAt(m)]
       /\ Copied(p.password, m, PassAt(m)) /\ j = PassAt(m) + Len(p.password)
  /\ p.state = "version" => j = 0
  /\ p.state = "user_len" => j = 1
  /\ p.state = "user" => /\ p.remaining = m[2] /\ p.index = Len(p.user)
                         /\ Len(p.user) < m[2] /\ j = 2 + Len(p.user)
  /\ p.state = "pass_len" => j = 2 + m[2]
  /\ p.state = "pass" => p.index = Len(p.password) /\ Len(p.password) < p.remaining
  /\ p.state = "done" => Len(p.password) = p.remaining
  /\ p.state = "unsupported" => j = 1 /\ m[1] # AuthVersion
  /\ p.state = "bad_length" =>
       /\ m[1] = AuthVersion
       /\ \/ m[2] = 0 /\ j = 2
          \/ m[2] # 0 /\ m[PassAt(m)] = 0 /\ j = PassAt(m) /\ Len(p.user) = m[2]

\* The length of the address a request announces, and where its header ends.
AddrLen(m) == CASE m[4] = Ipv4 -> 4 [] m[4] = Ipv6 -> 16 [] m[4] = Fqdn -> m[5]

RequestReads(p, m, j) ==
  /\ p \in [of : {"request"}, state : {"version", "command", "rsv", "atyp", "addr", "port",
                                       "done", "error", "fault"},
            atyp : Int, addr_len : Int, addr : Seq(Byte), port : Int, reply : Nat]
  /\ p.state \in {"version", "command", "rsv", "atyp"} => p.addr = << >>
  /\ p.state \in {"version", "command", "rsv", "atyp", "addr"} => p.port = -1
  /\ p.state \in {"command", "rsv", "atyp"} => m[1] = Version
  /\ p.state \in {"rsv", "atyp"} => m[2] = Connect
  /\ p.state = "atyp" => m[3] = 0
  /\ p.state = "version" => j = 0
  /\ p.state = "command" => j = 1
  /\ p.state = "rsv" => j = 2
  /\ p.state = "atyp" => j = 3
  /\ p.state \in {"addr", "port", "done"} => RequestCode(m) = Succeeded /\ p.atyp = m[4]
  /\ p.state = "addr" /\ p.addr_len = 0 => m[4] = Fqdn /\ j = 4 /\ p.addr = << >>
  /\ \/ p.state = "addr" /\ p.addr_len # 0
     \/ p.state \in {"port", "done"}
     => p.addr_len = AddrLen(m) /\ Copied(p.addr, m, AddrFrom(m) - 1)
  /\ p.state = "addr" /\ p.addr_len # 0 =>
       Len(p.addr) < p.addr_len /\ j = AddrFrom(m) - 1 + Len(p.addr)
  /\ p.state \in {"port", "done"} => Len(p.addr) = p.addr_len
  /\ p.state = "port" => \/ p.port = -1 /\ j = AddrTo(m)
                         \/ p.port = 256 * m[AddrTo(m) + 1] /\ j = AddrTo(m) + 1
  /\ p.state = "done" =>
       p.port = 256 * m[AddrTo(m) + 1] + m[AddrTo(m) + 2] /\ j = AddrTo(m) + 2
  /\ p.state = "error" => p.reply = RequestCode(m) /\ RequestCode(m) # Succeeded

Reads(p, m, j) == GreetingReads(p, m, j) \/ AuthReads(p, m, j) \/ RequestReads(p, m, j)

-----------------------------------------------------------------------------
(* The invariant *)

Queue == [bytes : Seq(Byte), dead : Nat]

\* The buffer q, and behind it what was not received yet, is what the stream
\* has behind its first t bytes.
Flows(q, i, t) ==
  /\ t \in Nat /\ t + Len(q.bytes) + Len(i) = Len(stream)
  /\ Copied(q.bytes, stream, t)
  /\ Copied(i, stream, t + Len(q.bytes))

\* The message that starts behind the first t bytes is being read.
Reading(kind, t) ==
  /\ pars.of = kind /\ pars.state \notin Verdicts
  /\ t \in 0..Len(stream)
  /\ \E j \in 0..Len(stream) : Flows(rb, input, t + j) /\ Reads(pars, Behind(stream, t), j)

\* What has been said once the client may send its request.
AuthCode(s) == IF Granted(Behind(s, GreetingLen(s))) THEN AuthSuccess ELSE AuthFail
Welcome(s) == <<Version, MethodOf(s)>>
Greeted(s) ==
  Welcome(s) \o (IF MethodOf(s) # UserPass THEN << >> ELSE <<AuthVersion, AuthCode(s)>>)
CodeOf(s) == RequestCode(Behind(s, RequestAt(s)))

Buffers ==
  /\ stream \in Seq(Byte) /\ input \in Seq(Byte) /\ out \in Seq(Byte)
  /\ rb \in Queue /\ Room(rb) >= 0
  /\ wb \in Queue /\ Room(wb) >= 0

AtGreeting ==
  /\ state = "GREETING_READ" => Reading("greeting", 0) /\ out = << >> /\ wb = Empty
  /\ state = "GREETING_WRITE" =>
       /\ Flows(rb, input, GreetingLen(stream))
       /\ answer = MethodOf(stream) /\ out \o wb.bytes = Welcome(stream)

AtAuth ==
  /\ state \in {"AUTH_READ", "AUTH_WRITE"} => MethodOf(stream) = UserPass
  /\ state = "AUTH_READ" =>
       /\ Reading("auth", GreetingLen(stream))
       /\ out = Welcome(stream) /\ wb = Empty
  /\ state = "AUTH_WRITE" =>
       /\ Flows(rb, input, RequestAt(stream))
       /\ answer = AuthCode(stream) /\ out \o wb.bytes = Greeted(stream)

AtRequest ==
  /\ state \in {"REQUEST_READ", "REQUEST_WRITE", "ORIGIN_CONNECT", "crashed"} =>
       Admitted(stream)
  /\ state \in {"REQUEST_READ", "ORIGIN_CONNECT", "crashed"} =>
       out = Greeted(stream) /\ wb = Empty
  /\ state = "REQUEST_READ" => Reading("request", RequestAt(stream))
  /\ state = "REQUEST_WRITE" =>
       /\ answer = CodeOf(stream) /\ CodeOf(stream) # Succeeded
       /\ WholeReplies => out = Greeted(stream) /\ wb = Empty
  /\ state = "ORIGIN_CONNECT" =>
       /\ CodeOf(stream) = Succeeded /\ Len(pars.addr) <= pars.addr_len
       /\ [atyp |-> pars.atyp, addr |-> pars.addr, port |-> pars.port]
            = Destination(Behind(stream, RequestAt(stream)))

AtEnd ==
  /\ state = "DONE" /\ WholeReplies =>
       /\ out = RepliesDue(stream) /\ wb = Empty
       /\ Admitted(stream) => CodeOf(stream) # Succeeded
  /\ state \in {"ERROR", "killed"} /\ WholeReplies =>
       SX!IsPrefix(out \o wb.bytes, RepliesDue(stream))

HandshakeInv ==
  /\ state \in Ended \cup {"GREETING_READ", "GREETING_WRITE", "AUTH_READ",
                           "AUTH_WRITE", "REQUEST_READ", "REQUEST_WRITE"}
  /\ state = "GREETING_WRITE" => Len(pars.methods) <= pars.remaining
  /\ Buffers /\ AtGreeting /\ AtAuth /\ AtRequest /\ AtEnd

-----------------------------------------------------------------------------
(* Induction, which the library offers for an operator, here for a set *)

Below == {p \in Nat \X Nat : p[1] < p[2]}

\* Every set of numbers has a least one.
LEMMA Least ==
  ASSUME NEW S \in SUBSET Nat, S # {}
  PROVE  \E m \in S : \A n \in S : m <= n
<1>1. IsWellFoundedOn(Below, Nat)
  BY NatLessThanWellFounded DEF OpToRel, Below
<1>2. PICK m \in S : \A n \in S : <<n, m>> \notin Below
  BY <1>1, WFMin
<1>3. \A n \in S : ~ (n < m)
  BY <1>2 DEF Below
<1> QED
  BY <1>3

\* What holds at 0, and of each number's successor, holds up to l.
LEMMA UpTo ==
  ASSUME NEW l \in Nat, NEW S, 0 \in S, \A n \in 0..(l - 1) : n \in S => n + 1 \in S
  PROVE  l \in S
<1> SUFFICES ASSUME l \notin S PROVE FALSE
  OBVIOUS
<1> DEFINE T == {n \in Nat : n \notin S}
<1>1. PICK m \in T : \A n \in T : m <= n
  BY Least
<1>2. m \in Nat /\ m # 0 /\ m <= l /\ m \notin S
  BY <1>1
<1>3. m - 1 \in Nat /\ m - 1 \in 0..(l - 1) /\ (m - 1) + 1 = m
  BY <1>2
<1>4. m - 1 \notin T
  BY <1>1, <1>2, <1>3
<1> QED
  BY <1>2, <1>3, <1>4

-----------------------------------------------------------------------------
(* The loop over a buffer *)

\* One turn of the loop: the byte at i, after the turns that came to r.
Turn(s, r, i) ==
  IF r.pars.state \in Verdicts THEN r ELSE [pars |-> Feed(s[i], r.pars), taken |-> i]

\* The turns of the loop over s from p on, as Fed writes them down.
Turns(f, s, p, n) ==
  f = [i \in 0..n |-> IF i = 0 THEN [pars |-> p, taken |-> 0] ELSE Turn(s, f[i - 1], i)]

\* There is such a sequence of turns, whatever the length.
LEMMA TurnsExist ==
  ASSUME NEW s, NEW p, NEW l \in Nat
  PROVE  \E f : Turns(f, s, p, l)
<1> DEFINE S == {n \in Nat : \E f : Turns(f, s, p, n)}
<1>1. 0 \in S
  <2> DEFINE f == [i \in 0..0 |-> [pars |-> p, taken |-> 0]]
  <2>1. Turns(f, s, p, 0)
    BY DEF Turns
  <2> QED
    BY <2>1
<1>2. ASSUME NEW n \in 0..(l - 1), n \in S PROVE n + 1 \in S
  <2>1. PICK f : Turns(f, s, p, n)
    BY <1>2
  <2> DEFINE g == [i \in 0..(n + 1) |-> IF i <= n THEN f[i] ELSE Turn(s, f[n], i)]
  <2>2. \A i \in 0..n : f[i] = IF i = 0 THEN [pars |-> p, taken |-> 0]
                               ELSE Turn(s, f[i - 1], i)
    BY <2>1 DEF Turns
  <2>3. \A i \in 0..(n + 1) : g[i] = IF i = 0 THEN [pars |-> p, taken |-> 0]
                                     ELSE Turn(s, g[i - 1], i)
    BY <2>2
  <2>4. g = [i \in 0..(n + 1) |-> g[i]]
    OBVIOUS
  <2> HIDE DEF g
  <2>5. Turns(g, s, p, n + 1)
    BY <2>3, <2>4 DEF Turns
  <2> QED
    BY <2>5
<1> QED
  <2> HIDE DEF S
  <2>1. l \in S
    BY <1>1, <1>2, UpTo
  <2> QED
    BY <2>1 DEF S

\* Fed is the last of the turns of the loop.
LEMMA FedIsTurns ==
  ASSUME NEW s, NEW p, Len(s) \in Nat
  PROVE  \E f : Turns(f, s, p, Len(s)) /\ Fed(s, p) = f[Len(s)]
<1> DEFINE Written(g) ==
             [i \in 0..Len(s) |->
                IF i = 0 THEN [pars |-> p, taken |-> 0]
                ELSE CHOOSE r \in {IF before.pars.state \in Verdicts THEN before
                                   ELSE [pars |-> Feed(s[i], before.pars), taken |-> i] :
                                     before \in {g[i - 1]}} : TRUE]
           f == CHOOSE g : g = Written(g)
<1>1. ASSUME NEW g, NEW i
      PROVE  Turn(s, g[i - 1], i) =
               CHOOSE r \in {IF before.pars.state \in Verdicts THEN before
                             ELSE [pars |-> Feed(s[i], before.pars), taken |-> i] :
                               before \in {g[i - 1]}} : TRUE
  <2>1. {IF before.pars.state \in Verdicts THEN before
         ELSE [pars |-> Feed(s[i], before.pars), taken |-> i] : before \in {g[i - 1]}}
          = {Turn(s, g[i - 1], i)}
    BY DEF Turn
  <2> QED
    BY <2>1
<1>2. ASSUME NEW g PROVE Turns(g, s, p, Len(s)) <=> g = Written(g)
  <2> DEFINE turns == [i \in 0..Len(s) |-> IF i = 0 THEN [pars |-> p, taken |-> 0]
                                           ELSE Turn(s, g[i - 1], i)]
  <2>1. turns = Written(g)
    BY <1>1
  <2> QED
    BY <2>1 DEF Turns
<1>3. Fed(s, p) = f[Len(s)]
  BY DEF Fed
<1> HIDE DEF Written
<1>4. \E g : g = Written(g)
  BY <1>2, TurnsExist
<1>5. f = Written(f)
  BY <1>4
<1> QED
  BY <1>2, <1>3, <1>5

-----------------------------------------------------------------------------
(* One byte more *)

\* A field that is a copy of what it was read from stays one.
LEMMA CopiedAppend ==
  ASSUME NEW f \in Seq(Byte), NEW m, NEW k \in Nat, Copied(f, m, k),
         NEW c \in Byte, c = m[k + Len(f) + 1]
  PROVE  /\ Append(f, c) \in Seq(Byte) /\ Len(Append(f, c)) = Len(f) + 1
         /\ Copied(Append(f, c), m, k)
<1>1. Len(f) \in Nat
  BY LenProperties
<1>2. /\ Append(f, c) \in Seq(Byte) /\ Len(Append(f, c)) = Len(f) + 1
      /\ \A i \in 1..Len(f) : Append(f, c)[i] = f[i]
      /\ Append(f, c)[Len(f) + 1] = c
  BY AppendProperties
<1>3. ASSUME NEW i \in 1..(Len(f) + 1) PROVE Append(f, c)[i] = m[k + i]
  <2>1. CASE i \in 1..Len(f)
    BY <1>2, <2>1 DEF Copied
  <2>2. CASE i = Len(f) + 1
    BY <1>1, <1>2, <2>2
  <2> QED
    BY <1>1, <2>1, <2>2
<1> QED
  BY <1>2, <1>3 DEF Copied

\* Bytes are numbers.
LEMMA ByteIsNat == Byte \subseteq Nat /\ Byte \subseteq Int
BY DEF Byte

\* What a parser is fed is one.
LEMMA ByteOf ==
  ASSUME NEW m \in Seq(Byte), NEW j \in 0..(Len(m) - 1)
  PROVE  m[j + 1] \in Byte
BY LenProperties, ElementOfSeq

\* The greeting's parser knows one byte more of its message.
LEMMA GreetingFeeds ==
  ASSUME NEW m \in Seq(Byte), NEW j \in 0..(Len(m) - 1), NEW p,
         GreetingReads(p, m, j), p.state \notin Verdicts
  PROVE  GreetingReads(FeedGreeting(m[j + 1], p), m, j + 1)
<1> DEFINE c == m[j + 1]
           f == FeedGreeting(c, p)
           Record == [of : {"greeting"}, state : {"version", "nmethods", "methods", "done",
                                                  "unsupported", "bad_syntax"},
                      remaining : Byte, methods : Seq(Byte)]
<1>1. c \in Byte /\ Len(m) \in Nat /\ Byte \subseteq Nat
  BY LenProperties, ByteOf, ByteIsNat
<1>2. /\ p \in Record /\ p.state \in {"version", "nmethods", "methods"}
      /\ Len(p.methods) \in Nat /\ p.methods \in Seq(Byte) /\ p.remaining \in Byte
  BY LenProperties DEF GreetingReads, Verdicts
<1>3. ASSUME p.state = "version" PROVE GreetingReads(f, m, j + 1)
  <2>1. f = [p EXCEPT !.state = IF c = Version THEN "nmethods" ELSE "unsupported"]
    BY <1>3 DEF FeedGreeting
  <2>2. j = 0 /\ p.methods = << >>
    BY <1>3 DEF GreetingReads
  <2>3. /\ f \in Record /\ f.methods = << >>
        /\ f.state = IF c = Version THEN "nmethods" ELSE "unsupported"
    BY <1>2, <2>1, <2>2
  <2> HIDE DEF f
  <2> QED
    BY <2>2, <2>3 DEF GreetingReads
<1>4. ASSUME p.state = "nmethods" PROVE GreetingReads(f, m, j + 1)
  <2>1. f = IF c = 0 THEN [p EXCEPT !.state = "bad_syntax"]
            ELSE [p EXCEPT !.state = "methods", !.remaining = c]
    BY <1>4 DEF FeedGreeting
  <2>2. j = 1 /\ p.methods = << >> /\ m[1] = Version /\ c = m[2]
    BY <1>4 DEF GreetingReads
  <2>3. /\ f \in Record /\ f.methods = << >>
        /\ f.state = IF c = 0 THEN "bad_syntax" ELSE "methods"
        /\ c # 0 => f.remaining = c
    BY <1>1, <1>2, <2>1, <2>2
  <2> HIDE DEF f
  <2>4. Copied(f.methods, m, 2) /\ Len(f.methods) = 0
    BY <2>3 DEF Copied
  <2>5. c \in Nat
    BY <1>1
  <2> HIDE DEF c
  <2> QED
    BY <2>2, <2>3, <2>4, <2>5 DEF GreetingReads, GreetingFits
<1>5. ASSUME p.state = "methods" PROVE GreetingReads(f, m, j + 1)
  <2>1. f = [p EXCEPT !.methods = Append(@, c),
                      !.state = IF Len(p.methods) + 1 = p.remaining THEN "done" ELSE @]
    BY <1>5 DEF FeedGreeting
  <2>2. /\ GreetingFits(m) /\ p.remaining = m[2] /\ Copied(p.methods, m, 2)
        /\ j = 2 + Len(p.methods) /\ Len(p.methods) < m[2]
    BY <1>5 DEF GreetingReads
  <2>3. /\ p.methods \in Seq(Byte) /\ Copied(p.methods, m, 2) /\ 2 \in Nat
        /\ c \in Byte /\ c = m[2 + Len(p.methods) + 1]
    BY <1>1, <1>2, <2>2
  <2> HIDE DEF c, Record
  <2>4. /\ Append(p.methods, c) \in Seq(Byte)
        /\ Len(Append(p.methods, c)) = Len(p.methods) + 1
        /\ Copied(Append(p.methods, c), m, 2)
    BY <2>3, CopiedAppend
  <2>5. /\ f \in Record /\ f.methods = Append(p.methods, c) /\ f.remaining = m[2]
        /\ f.state = IF Len(p.methods) + 1 = m[2] THEN "done" ELSE "methods"
    BY <1>2, <1>5, <2>1, <2>2, <2>4 DEF Record
  <2> HIDE DEF f
  <2>6. m[2] \in Nat
    BY <1>1, <1>2, <2>2
  <2> QED
    BY <1>2, <2>2, <2>4, <2>5, <2>6 DEF GreetingReads, Record
<1> QED
  BY <1>2, <1>3, <1>4, <1>5

\* So does the authentication's; its index starts again with the password.
LEMMA AuthFeeds ==
  ASSUME NEW m \in Seq(Byte), NEW j \in 0..(Len(m) - 1), NEW p,
         AuthReads(p, m, j), p.state \notin Verdicts
  PROVE  AuthReads(FeedAuth(m[j + 1], p), m, j + 1)
<1> DEFINE c == m[j + 1]
           f == FeedAuth(c, p)
           Record == [of : {"auth"}, state : {"version", "user_len", "user", "pass_len", "pass",
                                              "done", "unsupported", "bad_length"},
                      remaining : Byte, index : Nat, user : Seq(Byte), password : Seq(Byte)]
<1>1. c \in Byte /\ c \in Nat /\ Byte \subseteq Nat /\ 2 \in Nat
  BY ByteOf, ByteIsNat
<1>2. /\ p \in Record /\ p.state \in {"version", "user_len", "user", "pass_len", "pass"}
      /\ p.user \in Seq(Byte) /\ p.password \in Seq(Byte)
      /\ Len(p.user) \in Nat /\ Len(p.password) \in Nat
      /\ p.remaining \in Nat /\ p.index \in Nat
  BY <1>1, LenProperties DEF AuthReads, Verdicts
<1>3. Len(<< >>) = 0 /\ \A n : Copied(<< >>, m, n)
  BY DEF Copied
<1>4. ASSUME p.state = "version" PROVE AuthReads(f, m, j + 1)
  <2>1. f = [p EXCEPT !.state = IF c = AuthVersion THEN "user_len" ELSE "unsupported"]
    BY <1>4 DEF FeedAuth
  <2>2. j = 0 /\ p.user = << >> /\ p.password = << >> /\ p.index = 0
    BY <1>4 DEF AuthReads
  <2>3. /\ f \in Record /\ f.user = << >> /\ f.password = << >> /\ f.index = 0
        /\ f.state = IF c = AuthVersion THEN "user_len" ELSE "unsupported"
    BY <1>2, <2>1, <2>2
  <2> HIDE DEF f
  <2> QED
    BY <2>2, <2>3 DEF AuthReads
<1>5. ASSUME p.state = "user_len" PROVE AuthReads(f, m, j + 1)
  <2>1. f = IF c = 0 THEN [p EXCEPT !.state = "bad_length"]
            ELSE [p EXCEPT !.state = "user", !.remaining = c]
    BY <1>5 DEF FeedAuth
  <2>2. /\ j = 1 /\ p.user = << >> /\ p.password = << >> /\ p.index = 0
        /\ m[1] = AuthVersion /\ c = m[2]
    BY <1>5 DEF AuthReads
  <2>3. /\ f \in Record /\ f.user = << >> /\ f.password = << >> /\ f.index = 0
        /\ f.state = IF c = 0 THEN "bad_length" ELSE "user"
        /\ c # 0 => f.remaining = c
    BY <1>1, <1>2, <2>1, <2>2
  <2> HIDE DEF f, Record, c
  <2> QED
    BY <1>1, <1>3, <2>2, <2>3 DEF AuthReads, Record
<1>6. ASSUME p.state = "user" PROVE AuthReads(f, m, j + 1)
  <2>1. f = [p EXCEPT !.user = Append(@, c), !.index = @ + 1,
                      !.state = IF p.index + 1 = p.remaining THEN "pass_len" ELSE @]
    BY <1>6 DEF FeedAuth
  <2>2. /\ m[1] = AuthVersion /\ m[2] # 0 /\ p.remaining = m[2] /\ Copied(p.user, m, 2)
        /\ p.password = << >> /\ p.index = Len(p.user) /\ Len(p.user) < m[2]
        /\ j = 2 + Len(p.user)
    BY <1>6 DEF AuthReads
  <2>3. c = m[2 + Len(p.user) + 1]
    BY <1>2, <2>2
  <2> HIDE DEF c, f, Record
  <2>4. /\ Append(p.user, c) \in Seq(Byte)
        /\ Len(Append(p.user, c)) = Len(p.user) + 1
        /\ Copied(Append(p.user, c), m, 2)
    BY <1>1, <1>2, <2>2, <2>3, CopiedAppend
  <2> DEFINE q == Append(p.user, c)
             st == IF Len(p.user) + 1 = m[2] THEN "pass_len" ELSE "user"
  <2>5. f = [p EXCEPT !.user = q, !.index = Len(p.user) + 1, !.state = st]
    BY <1>2, <1>6, <2>1, <2>2
  <2>6. q \in Seq(Byte) /\ st \in {"user", "pass_len"} /\ Len(p.user) + 1 \in Nat
    BY <1>2, <2>4
  <2> HIDE DEF q, st
  <2>7. /\ f \in Record /\ f.user = q /\ f.remaining = p.remaining
        /\ f.password = p.password /\ f.index = Len(p.user) + 1 /\ f.state = st
    BY <1>2, <2>5, <2>6 DEF Record
  <2> QED
    BY <1>2, <2>2, <2>4, <2>7 DEF AuthReads, Record, q, st
<1>7. ASSUME p.state = "pass_len" PROVE AuthReads(f, m, j + 1)
  <2>1. f = IF c = 0 THEN [p EXCEPT !.state = "bad_length"]
            ELSE [p EXCEPT !.state = "pass", !.remaining = c, !.index = 0]
    BY <1>7 DEF FeedAuth
  <2>2. /\ j = 2 + m[2] /\ m[1] = AuthVersion /\ m[2] # 0 /\ Len(p.user) = m[2]
        /\ Copied(p.user, m, 2) /\ p.password = << >>
    BY <1>7 DEF AuthReads
  <2>3. c = m[PassAt(m)] /\ j + 1 = PassAt(m)
    BY <1>2, <2>2 DEF PassAt
  <2>4. /\ f \in Record /\ f.user = p.user /\ f.password = << >>
        /\ f.state = IF c = 0 THEN "bad_length" ELSE "pass"
        /\ c # 0 => f.remaining = c /\ f.index = 0
    BY <1>1, <1>2, <2>1, <2>2
  <2> HIDE DEF f, c
  <2>5. CASE c = 0
    <3>1. f.state = "bad_length" /\ m[PassAt(m)] = 0 /\ j + 1 = PassAt(m)
      BY <2>3, <2>4, <2>5
    <3> QED
      BY <2>2, <2>4, <3>1 DEF AuthReads
  <2>6. CASE c # 0
    <3>1. /\ f.state = "pass" /\ f.remaining = m[PassAt(m)] /\ f.index = 0
          /\ m[PassAt(m)] # 0 /\ 0 < f.remaining
      BY <1>1, <2>3, <2>4, <2>6
    <3>2. Copied(f.password, m, PassAt(m)) /\ Len(f.password) = 0
      BY <1>3, <2>4
    <3>3. j + 1 = PassAt(m) + Len(f.password)
      BY <1>2, <2>2, <2>3, <3>2
    <3> QED
      BY <2>2, <2>4, <3>1, <3>2, <3>3 DEF AuthReads
  <2> QED
    BY <2>5, <2>6
<1>8. ASSUME p.state = "pass" PROVE AuthReads(f, m, j + 1)
  <2>1. f = [p EXCEPT !.password = Append(@, c), !.index = @ + 1,
                      !.state = IF p.index + 1 = p.remaining THEN "done" ELSE @]
    BY <1>8 DEF FeedAuth
  <2>2. /\ m[1] = AuthVersion /\ m[2] # 0 /\ Len(p.user) = m[2] /\ Copied(p.user, m, 2)
        /\ m[PassAt(m)] # 0 /\ p.remaining = m[PassAt(m)]
        /\ Copied(p.password, m, PassAt(m)) /\ j = PassAt(m) + Len(p.password)
        /\ p.index = Len(p.password) /\ Len(p.password) < p.remaining
    BY <1>8 DEF AuthReads
  <2>3. PassAt(m) \in Nat
    BY <1>2, <2>2 DEF PassAt
  <2>4. c = m[PassAt(m) + Len(p.password) + 1]
    BY <2>2
  <2> HIDE DEF c, f, Record
  <2>5. /\ Append(p.password, c) \in Seq(Byte)
        /\ Len(Append(p.password, c)) = Len(p.password) + 1
        /\ Copied(Append(p.password, c), m, PassAt(m))
    <3>1. /\ p.password \in Seq(Byte) /\ PassAt(m) \in Nat /\ c \in Byte
          /\ Copied(p.password, m, PassAt(m)) /\ c = m[PassAt(m) + Len(p.password) + 1]
      BY <1>1, <1>2, <2>2, <2>3, <2>4
    <3> QED
      BY <3>1, CopiedAppend
  <2> DEFINE q == Append(p.password, c)
             st == IF Len(p.password) + 1 = p.remaining THEN "done" ELSE "pass"
  <2>6. f = [p EXCEPT !.password = q, !.index = Len(p.password) + 1, !.state = st]
    BY <1>2, <1>8, <2>1, <2>2
  <2>7. q \in Seq(Byte) /\ st \in {"pass", "done"} /\ Len(p.password) + 1 \in Nat
    BY <1>2, <2>5
  <2> HIDE DEF q, st
  <2>8. /\ f \in Record /\ f.password = q /\ f.remaining = p.remaining
        /\ f.user = p.user /\ f.index = Len(p.password) + 1 /\ f.state = st
    BY <1>2, <2>6, <2>7 DEF Record
  <2> QED
    <3>1. j + 1 = PassAt(m) + Len(q) /\ Copied(q, m, PassAt(m)) /\ Len(q) \in Nat
      BY <1>2, <2>2, <2>3, <2>5 DEF q
    <3>2. st = IF Len(q) = p.remaining THEN "done" ELSE "pass"
      BY <2>5 DEF q, st
    <3>3. st = "pass" => Len(q) < p.remaining
      BY <1>2, <2>2, <2>5, <3>1, <3>2 DEF q
    <3>4. f.index = Len(q)
      BY <2>5, <2>8 DEF q
    <3> QED
      BY <2>2, <2>7, <2>8, <3>1, <3>2, <3>3, <3>4 DEF AuthReads, Record
<1> QED
  BY <1>2, <1>4, <1>5, <1>6, <1>7, <1>8

\* When a request is accepted, its header is right and its address is where the
\* length says.
LEMMA Header ==
  ASSUME NEW m
  PROVE  /\ RequestCode(m) = Succeeded <=>
              m[1] = Version /\ m[2] = Connect /\ m[3] = 0 /\ m[4] \in {Ipv4, Fqdn, Ipv6}
         /\ RequestCode(m) = Succeeded /\ AddrLen(m) \in Nat =>
              /\ AddrFrom(m) \in {5, 6} /\ AddrTo(m) = AddrFrom(m) - 1 + AddrLen(m)
              /\ AddrTo(m) \in Nat
<1>1. RequestCode(m) = Succeeded <=>
        m[1] = Version /\ m[2] = Connect /\ m[3] = 0 /\ m[4] \in {Ipv4, Fqdn, Ipv6}
  BY DEF RequestCode, Succeeded, NotAllowed, CommandNotSupported, AddressTypeNotSupported
<1>2. ASSUME m[4] \in {Ipv4, Fqdn, Ipv6}, AddrLen(m) \in Nat
      PROVE  /\ AddrFrom(m) \in {5, 6} /\ AddrTo(m) = AddrFrom(m) - 1 + AddrLen(m)
             /\ AddrTo(m) \in Nat
  BY <1>2 DEF AddrFrom, AddrTo, AddrLen, Ipv4, Fqdn, Ipv6
<1> QED
  BY <1>1, <1>2

\* What the request's parser refuses is what the code of the stream says.
LEMMA Refusals ==
  ASSUME NEW m, NEW p, NEW j, NEW code,
         p \in [of : {"request"}, state : {"version", "command", "rsv", "atyp", "addr", "port",
                                           "done", "error", "fault"},
                atyp : Int, addr_len : Int, addr : Seq(Byte), port : Int, reply : Nat],
         code = RequestCode(m), code \in Nat, code # Succeeded
  PROVE  RequestReads(Refuse(p, code), m, j)
<1> DEFINE f == Refuse(p, code)
<1>1. /\ f \in [of : {"request"}, state : {"error"}, atyp : Int, addr_len : Int,
                addr : Seq(Byte), port : Int, reply : Nat]
      /\ f.state = "error" /\ f.reply = code
  BY DEF Refuse
<1> HIDE DEF f
<1>2. RequestReads(f, m, j)
  BY <1>1 DEF RequestReads
<1> QED
  BY <1>2 DEF f

\* And the request's, whatever the kind of its address.
LEMMA RequestFeeds ==
  ASSUME NEW m \in Seq(Byte), NEW j \in 0..(Len(m) - 1), NEW p,
         RequestReads(p, m, j), p.state \notin Verdicts
  PROVE  RequestReads(FeedRequest(m[j + 1], p), m, j + 1)
<1> DEFINE c == m[j + 1]
           f == FeedRequest(c, p)
           Record == [of : {"request"}, state : {"version", "command", "rsv", "atyp", "addr",
                                                 "port", "done", "error", "fault"},
                      atyp : Int, addr_len : Int, addr : Seq(Byte), port : Int, reply : Nat]
<1>1. c \in Byte /\ c \in Nat /\ c \in Int /\ Byte \subseteq Nat
  BY ByteOf, ByteIsNat
<1>2. /\ p \in Record
      /\ p.state \in {"version", "command", "rsv", "atyp", "addr", "port"}
      /\ p.addr \in Seq(Byte) /\ Len(p.addr) \in Nat
      /\ p.addr_len \in Int /\ p.port \in Int /\ p.atyp \in Int
  BY LenProperties DEF RequestReads, Verdicts
<1>3. Len(<< >>) = 0 /\ \A n : Copied(<< >>, m, n)
  BY DEF Copied
<1>4. ASSUME NEW code \in {NotAllowed, CommandNotSupported, AddressTypeNotSupported},
             code = RequestCode(m)
      PROVE  RequestReads(Refuse(p, code), m, j + 1)
  <2>1. code \in Nat /\ code # Succeeded
    BY DEF NotAllowed, CommandNotSupported, AddressTypeNotSupported, Succeeded
  <2> QED
    BY <1>2, <1>4, <2>1, Refusals
<1>5. ASSUME p.state = "version" PROVE RequestReads(f, m, j + 1)
  <2>1. f = IF c = Version THEN [p EXCEPT !.state = "command"] ELSE Refuse(p, NotAllowed)
    BY <1>5 DEF FeedRequest
  <2>2. j = 0 /\ p.addr = << >> /\ p.port = -1
    BY <1>5 DEF RequestReads
  <2>3. c = m[1]
    BY <2>2
  <2>4. CASE c = Version
    <3>1. /\ f \in Record /\ f.state = "command" /\ f.addr = << >> /\ f.port = -1
      BY <1>2, <2>1, <2>2, <2>4
    <3> HIDE DEF f, c
    <3> QED
      BY <2>2, <2>3, <2>4, <3>1 DEF RequestReads
  <2>5. CASE c # Version
    BY <1>4, <2>1, <2>3, <2>5 DEF RequestCode
  <2> QED
    BY <2>4, <2>5
<1>6. ASSUME p.state = "command" PROVE RequestReads(f, m, j + 1)
  <2>1. f = IF c = Connect THEN [p EXCEPT !.state = "rsv"]
            ELSE Refuse(p, CommandNotSupported)
    BY <1>6 DEF FeedRequest
  <2>2. j = 1 /\ p.addr = << >> /\ p.port = -1 /\ m[1] = Version
    BY <1>6 DEF RequestReads
  <2>3. c = m[2]
    BY <2>2
  <2>4. CASE c = Connect
    <3>1. /\ f \in Record /\ f.state = "rsv" /\ f.addr = << >> /\ f.port = -1
      BY <1>2, <2>1, <2>2, <2>4
    <3> HIDE DEF f, c
    <3> QED
      BY <2>2, <2>3, <2>4, <3>1 DEF RequestReads
  <2>5. CASE c # Connect
    BY <1>4, <2>1, <2>2, <2>3, <2>5 DEF RequestCode
  <2> QED
    BY <2>4, <2>5
<1>7. ASSUME p.state = "rsv" PROVE RequestReads(f, m, j + 1)
  <2>1. f = IF c = 0 THEN [p EXCEPT !.state = "atyp"] ELSE Refuse(p, NotAllowed)
    BY <1>7 DEF FeedRequest
  <2>2. j = 2 /\ p.addr = << >> /\ p.port = -1 /\ m[1] = Version /\ m[2] = Connect
    BY <1>7 DEF RequestReads
  <2>3. c = m[3]
    BY <2>2
  <2>4. CASE c = 0
    <3>1. /\ f \in Record /\ f.state = "atyp" /\ f.addr = << >> /\ f.port = -1
      BY <1>2, <2>1, <2>2, <2>4
    <3> HIDE DEF f, c
    <3> QED
      BY <2>2, <2>3, <2>4, <3>1 DEF RequestReads
  <2>5. CASE c # 0
    BY <1>4, <2>1, <2>2, <2>3, <2>5 DEF RequestCode
  <2> QED
    BY <2>4, <2>5
<1>8. ASSUME p.state = "atyp" PROVE RequestReads(f, m, j + 1)
  <2> DEFINE n == CASE c = Ipv4 -> 4 [] c = Ipv6 -> 16 [] c = Fqdn -> 0
  <2>1. f = IF c \notin {Ipv4, Fqdn, Ipv6} THEN Refuse(p, AddressTypeNotSupported)
            ELSE [p EXCEPT !.state = "addr", !.atyp = c, !.addr_len = n]
    BY <1>8 DEF FeedRequest
  <2>2. /\ j = 3 /\ p.addr = << >> /\ p.port = -1
        /\ m[1] = Version /\ m[2] = Connect /\ m[3] = 0
    BY <1>8 DEF RequestReads
  <2>3. c = m[4]
    BY <2>2
  <2>4. CASE c \in {Ipv4, Fqdn, Ipv6}
    <3>1. /\ n \in Nat /\ (n = 0 <=> c = Fqdn)
          /\ n # 0 => n = AddrLen(m) /\ AddrFrom(m) = 5
      BY <2>3, <2>4 DEF AddrLen, AddrFrom, Ipv4, Fqdn, Ipv6
    <3>2. f = [p EXCEPT !.state = "addr", !.atyp = c, !.addr_len = n]
      BY <2>1, <2>4
    <3> HIDE DEF n, f, c
    <3>3. n \in Int /\ c \in Int
      BY <1>1, <3>1
    <3>4. /\ f \in Record /\ f.state = "addr" /\ f.addr = << >> /\ f.port = -1
          /\ f.atyp = c /\ f.addr_len = n
      BY <1>2, <2>2, <3>2, <3>3
    <3>5. RequestCode(m) = Succeeded
      BY <2>2, <2>3, <2>4, Header
    <3> QED
      BY <1>3, <2>2, <2>3, <3>1, <3>4, <3>5 DEF RequestReads
  <2>5. CASE c \notin {Ipv4, Fqdn, Ipv6}
    BY <1>4, <2>1, <2>2, <2>3, <2>5 DEF RequestCode
  <2> QED
    BY <2>4, <2>5
<1>9. ASSUME p.state = "addr", p.addr_len = 0 PROVE RequestReads(f, m, j + 1)
  <2>1. f = IF c = 0 THEN [p EXCEPT !.state = "fault"] ELSE [p EXCEPT !.addr_len = c]
    BY <1>9 DEF FeedRequest
  <2>2. /\ j = 4 /\ p.addr = << >> /\ p.port = -1 /\ m[4] = Fqdn
        /\ RequestCode(m) = Succeeded /\ p.atyp = m[4]
    BY <1>9 DEF RequestReads
  <2>3. c = m[5]
    BY <2>2
  <2>4. CASE c = 0
    <3>1. f \in Record /\ f.state = "fault"
      BY <1>2, <2>1, <2>4
    <3> HIDE DEF f
    <3> QED
      BY <3>1 DEF RequestReads
  <2>5. CASE c # 0
    <3>0. f = [p EXCEPT !.addr_len = c]
      BY <2>1, <2>5
    <3> HIDE DEF f
    <3>1. /\ f \in Record /\ f.state = "addr" /\ f.addr = << >> /\ f.port = -1
          /\ f.atyp = p.atyp /\ f.addr_len = c
      BY <1>1, <1>2, <1>9, <2>2, <3>0
    <3>2. c = AddrLen(m) /\ AddrFrom(m) = 6 /\ 0 < c
      BY <1>1, <2>2, <2>3, <2>5 DEF AddrLen, AddrFrom, Ipv4, Fqdn, Ipv6
    <3> HIDE DEF c
    <3> QED
      BY <1>3, <2>2, <2>5, <3>1, <3>2 DEF RequestReads
  <2> QED
    BY <2>4, <2>5
<1>10. ASSUME p.state = "addr", p.addr_len # 0 PROVE RequestReads(f, m, j + 1)
  <2>1. f = [p EXCEPT !.addr = Append(@, c),
                      !.state = IF Len(p.addr) + 1 = p.addr_len THEN "port" ELSE @]
    BY <1>10 DEF FeedRequest
  <2>2. /\ p.port = -1 /\ RequestCode(m) = Succeeded /\ p.atyp = m[4]
        /\ p.addr_len = AddrLen(m) /\ Copied(p.addr, m, AddrFrom(m) - 1)
        /\ Len(p.addr) < p.addr_len /\ j = AddrFrom(m) - 1 + Len(p.addr)
    BY <1>10 DEF RequestReads
  <2>3. /\ AddrLen(m) \in Nat /\ AddrFrom(m) - 1 \in Nat /\ AddrFrom(m) \in {5, 6}
        /\ AddrTo(m) = AddrFrom(m) - 1 + AddrLen(m)
    <3>1. AddrLen(m) \in Nat
      BY <1>2, <2>2
    <3>2. AddrFrom(m) \in {5, 6} /\ AddrTo(m) = AddrFrom(m) - 1 + AddrLen(m)
      BY <2>2, <3>1, Header
    <3> QED
      BY <3>1, <3>2
  <2>4. c = m[(AddrFrom(m) - 1) + Len(p.addr) + 1]
    BY <2>2
  <2> DEFINE q == Append(p.addr, c)
             st == IF Len(p.addr) + 1 = p.addr_len THEN "port" ELSE "addr"
  <2> HIDE DEF c, f, Record
  <2>5. q \in Seq(Byte) /\ Len(q) = Len(p.addr) + 1 /\ Copied(q, m, AddrFrom(m) - 1)
    <3>1. /\ p.addr \in Seq(Byte) /\ AddrFrom(m) - 1 \in Nat /\ c \in Byte
          /\ Copied(p.addr, m, AddrFrom(m) - 1)
          /\ c = m[(AddrFrom(m) - 1) + Len(p.addr) + 1]
      BY <1>1, <1>2, <2>2, <2>3, <2>4
    <3> QED
      BY <3>1, CopiedAppend
  <2>6. f = [p EXCEPT !.addr = q, !.state = st]
    BY <1>10, <2>1
  <2>7. st \in {"addr", "port"}
    OBVIOUS
  <2> HIDE DEF q, st
  <2>8. /\ f \in Record /\ f.addr = q /\ f.state = st /\ f.port = p.port
        /\ f.atyp = p.atyp /\ f.addr_len = p.addr_len
    BY <1>2, <2>5, <2>6, <2>7 DEF Record
  <2>9. Len(q) \in Nat /\ j + 1 = AddrFrom(m) - 1 + Len(q)
    BY <1>2, <2>2, <2>3, <2>5
  <2>10. st = IF Len(q) = p.addr_len THEN "port" ELSE "addr"
    BY <2>5 DEF st
  <2>11. st = "addr" => Len(q) < p.addr_len
    BY <1>2, <2>2, <2>3, <2>5, <2>10
  <2>12. st = "port" => Len(q) = p.addr_len /\ j + 1 = AddrTo(m)
    BY <2>2, <2>3, <2>9, <2>10
  <2> QED
    BY <1>10, <2>2, <2>5, <2>7, <2>8, <2>9, <2>11, <2>12 DEF RequestReads, Record
<1>11. ASSUME p.state = "port" PROVE RequestReads(f, m, j + 1)
  <2>1. f = IF p.port = -1 THEN [p EXCEPT !.port = c * 256]
            ELSE [p EXCEPT !.port = @ + c, !.state = "done"]
    BY <1>11 DEF FeedRequest
  <2>2. /\ RequestCode(m) = Succeeded /\ p.atyp = m[4]
        /\ p.addr_len = AddrLen(m) /\ Copied(p.addr, m, AddrFrom(m) - 1)
        /\ Len(p.addr) = p.addr_len
        /\ \/ p.port = -1 /\ j = AddrTo(m)
           \/ p.port = 256 * m[AddrTo(m) + 1] /\ j = AddrTo(m) + 1
    BY <1>11 DEF RequestReads
  <2>3. AddrTo(m) \in Nat
    BY <1>2, <2>2, Header
  <2>4. CASE p.port = -1
    <3>1. j = AddrTo(m)
      <4>1. ASSUME p.port = 256 * m[AddrTo(m) + 1], j = AddrTo(m) + 1 PROVE FALSE
        <5>1. AddrTo(m) \in 0..(Len(m) - 1)
          BY <2>3, <4>1, LenProperties
        <5>2. m[AddrTo(m) + 1] \in Nat
          BY <5>1, ByteOf, ByteIsNat
        <5> QED
          BY <2>4, <4>1, <5>2
      <4> QED
        BY <2>2, <4>1
    <3>0. f = [p EXCEPT !.port = c * 256] /\ c * 256 = 256 * c /\ 256 * c \in Int
      BY <1>1, <2>1, <2>4
    <3> HIDE DEF f
    <3> DEFINE n == 256 * c
    <3>4. f = [p EXCEPT !.port = n] /\ n \in Int
      BY <3>0
    <3> HIDE DEF n
    <3>5. /\ f \in Record /\ f.state = "port" /\ f.addr = p.addr /\ f.atyp = p.atyp
          /\ f.addr_len = p.addr_len /\ f.port = n
      BY <1>2, <1>11, <3>4
    <3>2. /\ f \in Record /\ f.state = "port" /\ f.addr = p.addr /\ f.atyp = p.atyp
          /\ f.addr_len = p.addr_len /\ f.port = 256 * c
      BY <3>5 DEF n
    <3>3. c = m[AddrTo(m) + 1]
      BY <3>1
    <3> HIDE DEF c
    <3> QED
      BY <2>2, <2>3, <3>1, <3>2, <3>3 DEF RequestReads
  <2>5. CASE p.port # -1
    <3>1. p.port = 256 * m[AddrTo(m) + 1] /\ j = AddrTo(m) + 1
      BY <2>2, <2>5
    <3>0. f = [p EXCEPT !.port = p.port + c, !.state = "done"] /\ p.port + c \in Int
      BY <1>1, <1>2, <2>1, <2>5
    <3> HIDE DEF f
    <3>2. /\ f \in Record /\ f.state = "done" /\ f.addr = p.addr /\ f.atyp = p.atyp
          /\ f.addr_len = p.addr_len /\ f.port = p.port + c
      BY <1>2, <1>11, <3>0
    <3>3. c = m[AddrTo(m) + 2] /\ j + 1 = AddrTo(m) + 2
      BY <2>3, <3>1
    <3> HIDE DEF c
    <3> QED
      BY <2>2, <2>3, <3>1, <3>2, <3>3 DEF RequestReads
  <2> QED
    BY <2>4, <2>5
<1> QED
  BY <1>2, <1>5, <1>6, <1>7, <1>8, <1>9, <1>10, <1>11

-----------------------------------------------------------------------------
(* A buffer more *)

\* What a parser reads is of its own kind.
LEMMA KindOfParser ==
  ASSUME NEW p, NEW m, NEW j
  PROVE  /\ GreetingReads(p, m, j) => p.of = "greeting"
         /\ AuthReads(p, m, j) => p.of = "auth"
         /\ RequestReads(p, m, j) => p.of = "request"
<1>1. GreetingReads(p, m, j) => p.of = "greeting"
  BY DEF GreetingReads
<1>2. AuthReads(p, m, j) => p.of = "auth"
  BY DEF AuthReads
<1>3. RequestReads(p, m, j) => p.of = "request"
  BY DEF RequestReads
<1> QED
  BY <1>1, <1>2, <1>3

\* Feeding a parser the next byte keeps what it knows, and its kind.
LEMMA FeedReads ==
  ASSUME NEW m \in Seq(Byte), NEW j \in 0..(Len(m) - 1), NEW p,
         Reads(p, m, j), p.state \notin Verdicts
  PROVE  /\ Reads(Feed(m[j + 1], p), m, j + 1)
         /\ Feed(m[j + 1], p).of = p.of
<1> DEFINE f == Feed(m[j + 1], p)
<1>1. CASE GreetingReads(p, m, j)
  <2>1. p.of = "greeting"
    BY <1>1, KindOfParser
  <2>2. f = FeedGreeting(m[j + 1], p)
    BY <2>1 DEF Feed
  <2>3. GreetingReads(f, m, j + 1)
    BY <1>1, <2>2, GreetingFeeds
  <2> HIDE DEF f
  <2> QED
    BY <2>1, <2>3, KindOfParser DEF Reads, f
<1>2. CASE AuthReads(p, m, j)
  <2>1. p.of = "auth"
    BY <1>2, KindOfParser
  <2>2. f = FeedAuth(m[j + 1], p)
    BY <2>1 DEF Feed
  <2>3. AuthReads(f, m, j + 1)
    BY <1>2, <2>2, AuthFeeds
  <2> HIDE DEF f
  <2> QED
    BY <2>1, <2>3, KindOfParser DEF Reads, f
<1>3. CASE RequestReads(p, m, j)
  <2>1. p.of = "request"
    BY <1>3, KindOfParser
  <2>2. f = FeedRequest(m[j + 1], p)
    BY <2>1 DEF Feed
  <2>3. RequestReads(f, m, j + 1)
    BY <1>3, <2>2, RequestFeeds
  <2> HIDE DEF f
  <2> QED
    BY <2>1, <2>3, KindOfParser DEF Reads, f
<1> QED
  BY <1>1, <1>2, <1>3 DEF Reads

\* However many bytes a buffer holds, the parser knows those that it took.
LEMMA FedReads ==
  ASSUME NEW m \in Seq(Byte), NEW b \in Seq(Byte), NEW j \in Nat,
         j + Len(b) <= Len(m), Copied(b, m, j), NEW p, Reads(p, m, j)
  PROVE  /\ Fed(b, p).taken \in 0..Len(b)
         /\ Reads(Fed(b, p).pars, m, j + Fed(b, p).taken)
         /\ Fed(b, p).pars.of = p.of
<1>1. Len(b) \in Nat /\ Len(m) \in Nat
  BY LenProperties
<1>2. PICK f : Turns(f, b, p, Len(b)) /\ Fed(b, p) = f[Len(b)]
  BY <1>1, FedIsTurns
<1>3. \A i \in 0..Len(b) : f[i] = IF i = 0 THEN [pars |-> p, taken |-> 0]
                                  ELSE Turn(b, f[i - 1], i)
  BY <1>1, <1>2 DEF Turns
<1> DEFINE Good(i) == /\ f[i].taken \in 0..i
                      /\ Reads(f[i].pars, m, j + f[i].taken)
                      /\ f[i].pars.of = p.of
                      /\ f[i].pars.state \in Verdicts \/ f[i].taken = i
           S == {i \in 0..Len(b) : Good(i)}
<1>4. 0 \in S
  <2>1. f[0] = [pars |-> p, taken |-> 0]
    BY <1>1, <1>3
  <2>2. f[0].pars = p /\ f[0].taken = 0 /\ j + 0 = j
    BY <2>1
  <2>3. Good(0)
    BY <2>2
  <2> QED
    BY <1>1, <2>3
<1>5. ASSUME NEW i \in 0..(Len(b) - 1), i \in S PROVE i + 1 \in S
  <2>1. Good(i)
    BY <1>5
  <2>2. /\ i + 1 \in 0..Len(b) /\ i + 1 # 0 /\ (i + 1) - 1 = i /\ i + 1 \in 1..Len(b)
        /\ j + i \in 0..(Len(m) - 1) /\ j + (i + 1) = (j + i) + 1
    BY <1>1
  <2>3. f[i + 1] = Turn(b, f[i], i + 1)
    BY <1>3, <2>2
  <2>4. CASE f[i].pars.state \in Verdicts
    <3>1. f[i + 1] = f[i]
      BY <2>3, <2>4 DEF Turn
    <3>2. Good(i + 1)
      BY <2>1, <2>4, <3>1
    <3> QED
      BY <2>2, <3>2
  <2>5. CASE f[i].pars.state \notin Verdicts
    <3>1. f[i + 1] = [pars |-> Feed(b[i + 1], f[i].pars), taken |-> i + 1]
      BY <2>3, <2>5 DEF Turn
    <3>2. b[i + 1] = m[(j + i) + 1]
      BY <2>2 DEF Copied
    <3>3. Reads(f[i].pars, m, j + i)
      BY <2>1, <2>5
    <3>4. /\ Reads(Feed(m[(j + i) + 1], f[i].pars), m, (j + i) + 1)
          /\ Feed(m[(j + i) + 1], f[i].pars).of = f[i].pars.of
      BY <2>2, <2>5, <3>3, FeedReads
    <3>5. f[i + 1].taken = i + 1 /\ f[i + 1].pars = Feed(m[(j + i) + 1], f[i].pars)
      BY <3>1, <3>2
    <3>6. Good(i + 1)
      BY <2>1, <2>2, <3>4, <3>5
    <3> QED
      BY <2>2, <3>6
  <2> QED
    BY <2>4, <2>5
<1> HIDE DEF S
<1>6. Len(b) \in S
  BY <1>1, <1>4, <1>5, UpTo
<1> QED
  BY <1>2, <1>6 DEF S

-----------------------------------------------------------------------------
(* The verdicts, and what the stream says of its messages *)

\* The whole of what was copied.
LEMMA CopiedWhole ==
  ASSUME NEW m \in Seq(Byte), NEW f \in Seq(Byte), NEW k \in Nat, Copied(f, m, k),
         k + Len(f) <= Len(m)
  PROVE  f = SubSeq(m, k + 1, k + Len(f))
<1> DEFINE g == SubSeq(m, k + 1, k + Len(f))
<1>1. Len(f) \in Nat /\ Len(m) \in Nat
  BY LenProperties
<1>2. \A i \in (k + 1)..(k + Len(f)) : m[i] \in Byte
  BY <1>1, ElementOfSeq
<1>3. /\ g \in Seq(Byte)
      /\ Len(g) = IF k + 1 <= k + Len(f) THEN (k + Len(f)) - (k + 1) + 1 ELSE 0
      /\ \A i \in 1..((k + Len(f)) - (k + 1) + 1) : g[i] = m[(k + 1) + i - 1]
  <2>1. k + 1 \in Int /\ k + Len(f) \in Int
    BY <1>1
  <2> DEFINE a == k + 1
             b == k + Len(f)
  <2>2. a \in Int /\ b \in Int /\ \A i \in a..b : m[i] \in Byte
    BY <1>2, <2>1
  <2> HIDE DEF a, b
  <2>3. /\ SubSeq(m, a, b) \in Seq(Byte)
        /\ Len(SubSeq(m, a, b)) = IF a <= b THEN b - a + 1 ELSE 0
        /\ \A i \in 1..(b - a + 1) : SubSeq(m, a, b)[i] = m[a + i - 1]
    BY <2>2, SubSeqProperties
  <2> QED
    BY <2>3 DEF a, b
<1> HIDE DEF g
<1>4. Len(g) = Len(f)
  BY <1>1, <1>3
<1>5. \A i \in 1..Len(f) : f[i] = g[i]
  <2> TAKE i \in 1..Len(f)
  <2>1. i \in 1..((k + Len(f)) - (k + 1) + 1) /\ (k + 1) + i - 1 = k + i
    BY <1>1
  <2>2. g[i] = m[k + i]
    BY <1>3, <2>1
  <2> QED
    BY <2>2 DEF Copied
<1>6. f = g
  BY <1>3, <1>4, <1>5, SeqEqual
<1> QED
  BY <1>6 DEF g

\* The greeting: its length, and the method, are those of the stream.
LEMMA GreetingVerdict ==
  ASSUME NEW m \in Seq(Byte), NEW j \in 0..Len(m), NEW p,
         GreetingReads(p, m, j), p.state \in Verdicts
  PROVE  j = GreetingLen(m) /\ SelectMethod(p.methods) = MethodOf(m)
<1>1. /\ p.state \in {"done", "unsupported", "bad_syntax"}
      /\ p.methods \in Seq(Byte) /\ Len(p.methods) \in Nat /\ Len(m) \in Nat
  BY LenProperties DEF GreetingReads, Verdicts
<1>2. CASE p.state = "done"
  <2>1. /\ GreetingFits(m) /\ Copied(p.methods, m, 2) /\ j = 2 + Len(p.methods)
        /\ Len(p.methods) = m[2]
    BY <1>2 DEF GreetingReads
  <2>2. j = GreetingLen(m) /\ 2 + Len(p.methods) <= Len(m)
    BY <1>1, <2>1 DEF GreetingLen, GreetingFits
  <2>3. p.methods = SubSeq(m, 2 + 1, 2 + Len(p.methods))
    BY <1>1, <2>1, <2>2, CopiedWhole
  <2>4. p.methods = SubSeq(m, 3, GreetingLen(m))
    BY <2>1, <2>2, <2>3
  <2> QED
    BY <2>1, <2>2, <2>4 DEF MethodOf
<1>3. CASE p.state \in {"unsupported", "bad_syntax"}
  <2>1. /\ p.methods = << >> /\ ~GreetingFits(m) /\ j = GreetingLen(m)
    BY <1>3 DEF GreetingReads, GreetingFits, GreetingLen
  <2>2. SelectMethod(<< >>) = NoAcceptable
    BY DEF SelectMethod, SX!ToSet
  <2> QED
    BY <2>1, <2>2 DEF MethodOf
<1> QED
  BY <1>1, <1>2, <1>3

\* The authentication: its length, and whether it is granted.
LEMMA AuthVerdict ==
  ASSUME NEW m \in Seq(Byte), NEW j \in 0..Len(m), NEW p,
         AuthReads(p, m, j), p.state \in Verdicts
  PROVE  /\ j = AuthLen(m)
         /\ (p.state = "done" /\ Authenticated(p.user, p.password)) <=> Granted(m)
<1>1. /\ p.state \in {"done", "unsupported", "bad_length"}
      /\ p.user \in Seq(Byte) /\ Len(p.user) \in Nat
      /\ p.password \in Seq(Byte) /\ Len(p.password) \in Nat /\ Len(m) \in Nat
  BY LenProperties DEF AuthReads, Verdicts
<1>2. CASE p.state = "done"
  <2>1. /\ m[1] = AuthVersion /\ m[2] # 0 /\ m[PassAt(m)] # 0
        /\ Copied(p.user, m, 2) /\ Len(p.user) = m[2]
        /\ Copied(p.password, m, PassAt(m)) /\ Len(p.password) = m[PassAt(m)]
        /\ j = PassAt(m) + Len(p.password)
    BY <1>2 DEF AuthReads
  <2>2. PassAt(m) \in Nat /\ PassAt(m) = 3 + m[2] /\ m[2] \in Nat
    BY <1>1, <2>1 DEF PassAt
  <2>3. /\ AuthFits(m) /\ j = AuthLen(m)
        /\ 2 + Len(p.user) <= Len(m) /\ PassAt(m) + Len(p.password) <= Len(m)
    BY <1>1, <2>1, <2>2 DEF AuthFits, AuthLen
  <2>4. p.user = SubSeq(m, 2 + 1, 2 + Len(p.user))
    BY <1>1, <2>1, <2>3, CopiedWhole
  <2>5. p.password = SubSeq(m, PassAt(m) + 1, PassAt(m) + Len(p.password))
    BY <1>1, <2>1, <2>2, <2>3, CopiedWhole
  <2>6. PassAt(m) + 1 = 4 + m[2] /\ PassAt(m) + Len(p.password) = AuthLen(m)
    BY <2>1, <2>2, <2>3
  <2>7. 2 + 1 = 3 /\ 2 + Len(p.user) = 2 + m[2]
    BY <2>1
  <2>8. p.user = SubSeq(m, 3, 2 + m[2])
    BY <2>4, <2>7
  <2>9. p.password = SubSeq(m, 4 + m[2], AuthLen(m))
    BY <2>5, <2>6
  <2> QED
    BY <1>2, <2>3, <2>8, <2>9 DEF Granted
<1>3. CASE p.state = "unsupported"
  BY <1>3 DEF AuthReads, AuthLen, Granted, AuthFits
<1>4. CASE p.state = "bad_length"
  <2>1. /\ m[1] = AuthVersion
        /\ \/ m[2] = 0 /\ j = 2
           \/ m[2] # 0 /\ m[PassAt(m)] = 0 /\ j = PassAt(m) /\ m[2] \in Nat
    BY <1>1, <1>4 DEF AuthReads
  <2>2. ~AuthFits(m)
    BY <2>1 DEF AuthFits, PassAt
  <2>3. CASE m[2] = 0
    BY <1>4, <2>1, <2>2, <2>3 DEF AuthLen, Granted
  <2>4. CASE m[2] # 0
    <3>1. AuthLen(m) = 3 + m[2] + m[3 + m[2]] /\ m[3 + m[2]] = 0 /\ j = 3 + m[2]
      BY <2>1, <2>4 DEF AuthLen, PassAt
    <3>2. AuthLen(m) = (3 + m[2]) + 0
      BY <3>1
    <3>3. m[2] \in Nat
      BY <2>1, <2>4
    <3> QED
      BY <1>4, <2>2, <3>1, <3>2, <3>3 DEF Granted
  <2> QED
    BY <2>3, <2>4
<1> QED
  BY <1>1, <1>2, <1>3, <1>4

\* The request: its destination, or why it is refused.
LEMMA RequestVerdict ==
  ASSUME NEW m \in Seq(Byte), NEW j \in 0..Len(m), NEW p,
         RequestReads(p, m, j), p.state \in Verdicts
  PROVE  /\ p.state \in {"done", "error", "fault"}
         /\ p.state = "error" => p.reply = RequestCode(m) /\ RequestCode(m) # Succeeded
         /\ p.state = "done" =>
              /\ RequestCode(m) = Succeeded /\ Len(p.addr) <= p.addr_len
              /\ [atyp |-> p.atyp, addr |-> p.addr, port |-> p.port] = Destination(m)
<1>1. /\ p.state \in {"done", "error", "fault"}
      /\ p.addr \in Seq(Byte) /\ Len(p.addr) \in Nat /\ Len(m) \in Nat
      /\ p.state = "error" => p.reply = RequestCode(m) /\ RequestCode(m) # Succeeded
  BY LenProperties DEF RequestReads, Verdicts
<1>2. ASSUME p.state = "done"
      PROVE  /\ RequestCode(m) = Succeeded /\ Len(p.addr) <= p.addr_len
             /\ [atyp |-> p.atyp, addr |-> p.addr, port |-> p.port] = Destination(m)
  <2>1. /\ RequestCode(m) = Succeeded /\ p.atyp = m[4] /\ p.addr_len = AddrLen(m)
        /\ Copied(p.addr, m, AddrFrom(m) - 1) /\ Len(p.addr) = p.addr_len
        /\ p.port = 256 * m[AddrTo(m) + 1] + m[AddrTo(m) + 2] /\ j = AddrTo(m) + 2
    BY <1>2 DEF RequestReads
  <2>2. /\ AddrFrom(m) \in {5, 6} /\ AddrTo(m) = AddrFrom(m) - 1 + AddrLen(m)
        /\ AddrTo(m) \in Nat
    BY <1>1, <2>1, Header
  <2>3. /\ AddrFrom(m) - 1 \in Nat /\ (AddrFrom(m) - 1) + Len(p.addr) = AddrTo(m)
        /\ (AddrFrom(m) - 1) + Len(p.addr) <= Len(m) /\ (AddrFrom(m) - 1) + 1 = AddrFrom(m)
    <3>1. /\ Len(p.addr) \in Nat /\ Len(m) \in Nat /\ AddrTo(m) \in Nat
          /\ AddrTo(m) = AddrFrom(m) - 1 + Len(p.addr)
          /\ AddrTo(m) + 2 <= Len(m) /\ AddrFrom(m) \in {5, 6}
      BY <1>1, <2>1, <2>2
    <3> QED
      BY <3>1
  <2>4. p.addr = SubSeq(m, (AddrFrom(m) - 1) + 1, (AddrFrom(m) - 1) + Len(p.addr))
    <3> DEFINE k == AddrFrom(m) - 1
    <3>1. /\ k \in Nat /\ p.addr \in Seq(Byte) /\ Copied(p.addr, m, k)
          /\ k + Len(p.addr) <= Len(m)
      BY <1>1, <2>1, <2>3
    <3> HIDE DEF k
    <3>2. p.addr = SubSeq(m, k + 1, k + Len(p.addr))
      BY <3>1, CopiedWhole
    <3> QED
      BY <3>2 DEF k
  <2>5. p.addr = SubSeq(m, AddrFrom(m), AddrTo(m))
    BY <2>3, <2>4
  <2> QED
    BY <1>1, <2>1, <2>5 DEF Destination
<1> QED
  BY <1>1, <1>2

-----------------------------------------------------------------------------
(* Buffers and what flows through them *)

\* What a stream has behind its first n bytes.
LEMMA BehindIs ==
  ASSUME NEW s \in Seq(Byte), NEW n \in 0..Len(s)
  PROVE  /\ Behind(s, n) \in Seq(Byte) /\ Len(Behind(s, n)) = Len(s) - n
         /\ \A i \in 1..(Len(s) - n) : Behind(s, n)[i] = s[n + i]
         /\ n = 0 => Behind(s, n) = s
<1> DEFINE b == SubSeq(s, n + 1, Len(s))
<1>1. Len(s) \in Nat /\ n + 1 \in Int /\ n \in Int
  BY LenProperties
<1>2. \A i \in (n + 1)..Len(s) : s[i] \in Byte
  BY <1>1, ElementOfSeq
<1>3. /\ b \in Seq(Byte)
      /\ Len(b) = IF n + 1 <= Len(s) THEN Len(s) - (n + 1) + 1 ELSE 0
      /\ \A i \in 1..(Len(s) - (n + 1) + 1) : b[i] = s[(n + 1) + i - 1]
  BY <1>1, <1>2, SubSeqProperties
<1>4. n = 0 => b = s
  BY <1>1, SubSeqFull
<1> HIDE DEF b
<1>5. Len(b) = Len(s) - n
  BY <1>1, <1>3
<1>6. \A i \in 1..(Len(s) - n) : b[i] = s[n + i]
  <2> TAKE i \in 1..(Len(s) - n)
  <2>1. i \in 1..(Len(s) - (n + 1) + 1) /\ (n + 1) + i - 1 = n + i
    BY <1>1
  <2> QED
    BY <1>3, <2>1
<1> QED
  BY <1>3, <1>4, <1>5, <1>6 DEF Behind, b

\* The beginning of one.
LEMMA FrontIs ==
  ASSUME NEW s \in Seq(Byte), NEW n \in 0..Len(s)
  PROVE  /\ SubSeq(s, 1, n) \in Seq(Byte) /\ Len(SubSeq(s, 1, n)) = n
         /\ \A i \in 1..n : SubSeq(s, 1, n)[i] = s[i]
<1> DEFINE b == SubSeq(s, 1, n)
<1>1. Len(s) \in Nat /\ n \in Int /\ 1 \in Int
  BY LenProperties
<1>2. \A i \in 1..n : s[i] \in Byte
  BY <1>1, ElementOfSeq
<1>3. /\ b \in Seq(Byte) /\ Len(b) = IF 1 <= n THEN n - 1 + 1 ELSE 0
      /\ \A i \in 1..(n - 1 + 1) : b[i] = s[1 + i - 1]
  BY <1>1, <1>2, SubSeqProperties
<1> HIDE DEF b
<1>4. Len(b) = n
  BY <1>1, <1>3
<1>5. \A i \in 1..n : b[i] = s[i]
  <2> TAKE i \in 1..n
  <2>1. i \in 1..(n - 1 + 1) /\ 1 + i - 1 = i
    BY <1>1
  <2> QED
    BY <1>3, <2>1
<1> QED
  BY <1>3, <1>4, <1>5 DEF b

\* What is stored goes behind what was there, and takes that much room.
LEMMA PutBytes ==
  ASSUME NEW q \in Queue, NEW b \in Seq(Byte), Len(b) <= Room(q)
  PROVE  Put(q, b) \in Queue /\ Room(Put(q, b)) >= 0 /\ Put(q, b).bytes = q.bytes \o b
<1>1. q.bytes \in Seq(Byte) /\ q.dead \in Nat
  BY DEF Queue
<1>2. q.bytes \o b \in Seq(Byte) /\ Len(q.bytes \o b) = Len(q.bytes) + Len(b)
  BY <1>1, ConcatProperties
<1>3. Len(q.bytes) \in Nat /\ Len(b) \in Nat
  BY <1>1, LenProperties
<1>4. Put(q, b) = [bytes |-> q.bytes \o b, dead |-> q.dead]
  BY DEF Put
<1>5. Room(q) = Limit - q.dead - Len(q.bytes)
  BY DEF Room
<1>6. Room(Put(q, b)) = Limit - q.dead - Len(q.bytes \o b)
  BY <1>4 DEF Room
<1>7. Room(Put(q, b)) >= 0
  BY <1>1, <1>2, <1>3, <1>5, <1>6, HandshakeAssumption
<1> QED
  BY <1>1, <1>2, <1>4, <1>7 DEF Queue

\* What is left of a buffer; nothing is left of a drained one but its room.
LEMMA TakeBytes ==
  ASSUME NEW q \in Queue, NEW n \in 0..Len(q.bytes), Room(q) >= 0
  PROVE  /\ Take(q, n) \in Queue /\ Room(Take(q, n)) >= 0
         /\ Take(q, n).bytes = Behind(q.bytes, n)
         /\ Take(q, n).bytes = << >> => Take(q, n) = Empty /\ n = Len(q.bytes)
<1> DEFINE b == q.bytes
<1>1. b \in Seq(Byte) /\ q.dead \in Nat /\ Len(b) \in Nat
  BY LenProperties DEF Queue
<1>2. /\ Behind(b, n) \in Seq(Byte) /\ Len(Behind(b, n)) = Len(b) - n
  BY <1>1, BehindIs
<1>3. CASE n = Len(b)
  <2>1. Take(q, n) = Empty /\ Len(<< >>) = 0 /\ << >> \in Seq(Byte)
    BY <1>3 DEF Take
  <2>2. Behind(b, n) = << >>
    BY <1>1, <1>2, <1>3, EmptySeq
  <2>3. Empty.bytes = << >> /\ Empty.dead = 0 /\ Empty \in Queue
    BY <2>1 DEF Empty, Queue
  <2>4. Room(Empty) = Limit
    BY <2>1, <2>3, HandshakeAssumption DEF Room
  <2> QED
    BY <1>3, <2>1, <2>2, <2>3, <2>4, HandshakeAssumption
<1>4. CASE n # Len(b)
  <2>1. Take(q, n) = [bytes |-> Behind(b, n), dead |-> q.dead + n]
    BY <1>4 DEF Take, Behind
  <2>2. Room(q) = Limit - q.dead - Len(b)
    BY DEF Room
  <2>3. Room(Take(q, n)) = Limit - (q.dead + n) - Len(Behind(b, n))
    BY <2>1 DEF Room
  <2> HIDE DEF b
  <2>4. Room(Take(q, n)) >= 0
    BY <1>1, <1>2, <2>2, <2>3, HandshakeAssumption DEF b
  <2>5. Take(q, n) \in Queue
    BY <1>1, <1>2, <2>1 DEF Queue, b
  <2>6. Take(q, n).bytes = Behind(b, n)
    BY <2>1
  <2>7. Behind(b, n) # << >>
    <3>1. Len(Behind(b, n)) # 0
      BY <1>1, <1>2, <1>4 DEF b
    <3> QED
      BY <3>1
  <2> QED
    BY <2>4, <2>5, <2>6, <2>7 DEF b
<1> QED
  BY <1>3, <1>4

\* recv puts the next bytes of the stream behind those in the buffer.
LEMMA FlowsIn ==
  ASSUME Buffers, NEW t, Flows(rb, input, t), NEW n, n \in 1..Len(input), n <= Room(rb)
  PROVE  /\ Filled(n) \in Queue /\ Room(Filled(n)) >= 0 /\ Behind(input, n) \in Seq(Byte)
         /\ Flows(Filled(n), Behind(input, n), t)
<1> DEFINE b == SubSeq(input, 1, n)
           r == Behind(input, n)
           q == Filled(n)
           old == rb.bytes
<1>1. /\ input \in Seq(Byte) /\ Len(input) \in Nat /\ n \in 0..Len(input) /\ n \in Nat
      /\ rb \in Queue /\ old \in Seq(Byte) /\ Len(old) \in Nat
      /\ stream \in Seq(Byte) /\ Len(stream) \in Nat /\ n <= Len(input)
  BY LenProperties DEF Buffers, Queue
<1>2. b \in Seq(Byte) /\ Len(b) = n /\ \A i \in 1..n : b[i] = input[i]
  BY <1>1, FrontIs
<1>3. r \in Seq(Byte) /\ Len(r) = Len(input) - n
  BY <1>1, BehindIs
<1>4. \A i \in 1..(Len(input) - n) : r[i] = input[n + i]
  BY <1>1, BehindIs
<1>5. t \in Nat /\ t + Len(old) + Len(input) = Len(stream)
  BY DEF Flows
<1>6. /\ \A i \in 1..Len(old) : old[i] = stream[t + i]
      /\ \A i \in 1..Len(input) : input[i] = stream[t + Len(old) + i]
  BY DEF Flows, Copied
<1>7. q = Put(rb, b)
  BY DEF Filled
<1> HIDE DEF b, r, q
<1>8. q \in Queue /\ Room(q) >= 0 /\ q.bytes = old \o b
  BY <1>1, <1>2, <1>7, PutBytes
<1> HIDE DEF old
<1>9. Len(q.bytes) = Len(old) + n
  BY <1>1, <1>2, <1>8, ConcatProperties
<1>10. \A i \in 1..(Len(old) + Len(b)) :
         (old \o b)[i] = IF i <= Len(old) THEN old[i] ELSE b[i - Len(old)]
  BY <1>1, <1>2, ConcatProperties
<1>11. ASSUME NEW i \in 1..Len(q.bytes) PROVE q.bytes[i] = stream[t + i]
  <2>1. i \in 1..(Len(old) + Len(b)) /\ i \in Nat /\ i <= Len(old) + n /\ 1 <= i
    BY <1>1, <1>2, <1>9
  <2>2. CASE i <= Len(old)
    <3>1. q.bytes[i] = old[i] /\ i \in 1..Len(old)
      BY <1>1, <1>8, <1>10, <2>1, <2>2
    <3> QED
      BY <1>6, <3>1
  <2>3. CASE ~(i <= Len(old))
    <3> DEFINE k == i - Len(old)
    <3>1. k \in 1..n /\ k \in 1..Len(input)
      BY <1>1, <2>1, <2>3
    <3>2. t + Len(old) + k = t + i
      BY <1>1, <1>5, <2>1
    <3>3. q.bytes[i] = b[k]
      BY <1>8, <1>10, <2>1, <2>3
    <3> HIDE DEF k
    <3>4. b[k] = input[k] /\ input[k] = stream[t + Len(old) + k]
      BY <1>2, <1>6, <3>1
    <3> QED
      BY <3>2, <3>3, <3>4
  <2> QED
    BY <2>2, <2>3
<1>12. ASSUME NEW i \in 1..Len(r) PROVE r[i] = stream[t + Len(q.bytes) + i]
  <2>1. i \in 1..(Len(input) - n) /\ n + i \in 1..Len(input) /\ i \in Nat
    BY <1>1, <1>3
  <2>2. t + Len(old) + (n + i) = t + Len(q.bytes) + i
    BY <1>1, <1>5, <1>9, <2>1
  <2>3. r[i] = input[n + i] /\ input[n + i] = stream[t + Len(old) + (n + i)]
    BY <1>4, <1>6, <2>1
  <2> QED
    BY <2>2, <2>3
<1>13. t + Len(q.bytes) + Len(r) = Len(stream)
  <2>1. Len(old) \in Nat /\ n \in Nat /\ Len(input) \in Nat
    BY <1>1
  <2>2. Len(q.bytes) + Len(r) = Len(old) + Len(input)
    BY <1>3, <1>9, <2>1
  <2>3. Len(r) \in Nat /\ Len(q.bytes) \in Nat /\ t \in Nat
    BY <1>3, <1>5, <1>8, LenProperties DEF Queue
  <2> QED
    BY <1>5, <2>1, <2>2, <2>3
<1>14. Flows(q, r, t)
  BY <1>5, <1>11, <1>12, <1>13 DEF Flows, Copied
<1> QED
  BY <1>3, <1>8, <1>14 DEF q, r

\* What a parser takes out of the buffer it has passed by in the stream.
LEMMA FlowsOut ==
  ASSUME NEW q \in Queue, Room(q) >= 0, NEW i \in Seq(Byte), stream \in Seq(Byte),
         NEW t, Flows(q, i, t), NEW k \in 0..Len(q.bytes)
  PROVE  Flows(Take(q, k), i, t + k)
<1> DEFINE b == Take(q, k).bytes
           a == q.bytes
<1>1. a \in Seq(Byte) /\ Len(a) \in Nat /\ Len(i) \in Nat /\ Len(stream) \in Nat /\ k \in Nat
      /\ k \in 0..Len(a)
  BY LenProperties DEF Queue
<1>2. b = Behind(a, k)
  BY TakeBytes
<1>3. t \in Nat /\ t + Len(a) + Len(i) = Len(stream)
  BY DEF Flows
<1>4. /\ \A x \in 1..Len(a) : a[x] = stream[t + x]
      /\ \A x \in 1..Len(i) : i[x] = stream[t + Len(a) + x]
  BY DEF Flows, Copied
<1> HIDE DEF b, a
<1>5. Len(b) = Len(a) - k
  BY <1>1, <1>2, BehindIs
<1>6. \A x \in 1..(Len(a) - k) : b[x] = a[k + x]
  BY <1>1, <1>2, BehindIs
<1>7. ASSUME NEW x \in 1..Len(b) PROVE b[x] = stream[(t + k) + x]
  <2>1. /\ x \in 1..(Len(a) - k) /\ k + x \in 1..Len(a) /\ (t + k) + x = t + (k + x)
    BY <1>1, <1>3, <1>5
  <2>2. b[x] = a[k + x] /\ a[k + x] = stream[t + (k + x)]
    BY <1>4, <1>6, <2>1
  <2> QED
    BY <2>1, <2>2
<1>8. t + k \in Nat /\ (t + k) + Len(b) = t + Len(a)
  BY <1>1, <1>3, <1>5
<1>9. (t + k) + Len(b) + Len(i) = Len(stream)
  BY <1>3, <1>8
<1>10. ASSUME NEW x \in 1..Len(i) PROVE i[x] = stream[(t + k) + Len(b) + x]
  BY <1>4, <1>8
<1> QED
  BY <1>7, <1>8, <1>9, <1>10 DEF Flows, Copied, b

-----------------------------------------------------------------------------
(* One call of a handler that reads *)

\* What recv adds and the parser takes keeps the two where the stream is.
LEMMA MessageReads ==
  ASSUME Buffers, NEW kind, NEW t, Reading(kind, t), NEW n, Received(n),
         NEW r, r = Consume(Filled(n), pars)
  PROVE  /\ r.rb \in Queue /\ Room(r.rb) >= 0 /\ r.pars.of = kind
         /\ input' = Behind(input, n) /\ input' \in Seq(Byte)
         /\ \E k \in 0..(Len(stream) - t) :
              Flows(r.rb, input', t + k) /\ Reads(r.pars, Behind(stream, t), k)
<1> DEFINE m == Behind(stream, t)
           q == Filled(n)
           i == Behind(input, n)
           fed == Fed(q.bytes, pars)
<1>1. /\ n \in 1..Len(input) /\ n <= Room(rb) /\ input' = i
      /\ pars.of = kind /\ t \in 0..Len(stream)
      /\ stream \in Seq(Byte) /\ Len(stream) \in Nat
  BY LenProperties DEF Buffers, Reading, Received
<1>2. PICK j \in 0..Len(stream) : Flows(rb, input, t + j) /\ Reads(pars, m, j)
  BY DEF Reading
<1>3. q \in Queue /\ Room(q) >= 0 /\ i \in Seq(Byte) /\ Flows(q, i, t + j)
  BY <1>1, <1>2, FlowsIn
<1>4. /\ m \in Seq(Byte) /\ Len(m) = Len(stream) - t
      /\ \A x \in 1..(Len(stream) - t) : m[x] = stream[t + x]
  BY <1>1, BehindIs
<1>5. /\ t + j + Len(q.bytes) + Len(i) = Len(stream)
      /\ \A x \in 1..Len(q.bytes) : q.bytes[x] = stream[(t + j) + x]
  BY <1>3 DEF Flows, Copied
<1>6. r.pars = fed.pars /\ r.rb = Take(q, fed.taken)
  BY DEF Consume
<1> HIDE DEF m, q, i, fed
<1>7. q.bytes \in Seq(Byte) /\ Len(q.bytes) \in Nat /\ Len(i) \in Nat
  BY <1>3, LenProperties DEF Queue
<1>8. j + Len(q.bytes) <= Len(m) /\ j \in Nat /\ t \in Nat
  <2>1. t \in Nat /\ j \in Nat
    BY <1>1
  <2>2. t + j + Len(q.bytes) + Len(i) = Len(stream) /\ Len(m) = Len(stream) - t
    BY <1>4, <1>5
  <2>3. Len(stream) \in Nat /\ Len(q.bytes) \in Nat /\ Len(i) \in Nat
    BY <1>1, <1>7
  <2>4. \A a, b, c, d \in Nat : b + c <= (a + b + c + d) - a
    OBVIOUS
  <2>5. j + Len(q.bytes) <= (t + j + Len(q.bytes) + Len(i)) - t
    BY <2>1, <2>3, <2>4
  <2> QED
    BY <2>1, <2>2, <2>5
<1>9. Copied(q.bytes, m, j)
  <2>1. ASSUME NEW x \in 1..Len(q.bytes) PROVE q.bytes[x] = m[j + x]
    <3>1. j + x \in 1..(Len(stream) - t) /\ (t + j) + x = t + (j + x)
      BY <1>1, <1>4, <1>7, <1>8
    <3>2. m[j + x] = stream[t + (j + x)]
      BY <1>4, <3>1
    <3> QED
      BY <1>5, <3>1, <3>2
  <2> QED
    BY <2>1 DEF Copied
<1>10. /\ fed.taken \in 0..Len(q.bytes) /\ Reads(fed.pars, m, j + fed.taken)
       /\ fed.pars.of = pars.of
  <2>1. /\ m \in Seq(Byte) /\ q.bytes \in Seq(Byte) /\ j \in Nat
        /\ j + Len(q.bytes) <= Len(m) /\ Copied(q.bytes, m, j) /\ Reads(pars, m, j)
    BY <1>2, <1>4, <1>7, <1>8, <1>9
  <2>2. /\ Fed(q.bytes, pars).taken \in 0..Len(q.bytes)
        /\ Reads(Fed(q.bytes, pars).pars, m, j + Fed(q.bytes, pars).taken)
        /\ Fed(q.bytes, pars).pars.of = pars.of
    BY <2>1, FedReads
  <2> QED
    BY <2>2 DEF fed
<1>11. Take(q, fed.taken) \in Queue /\ Room(Take(q, fed.taken)) >= 0
  BY <1>3, <1>10, TakeBytes
<1>12. Flows(Take(q, fed.taken), i, (t + j) + fed.taken)
  BY <1>1, <1>3, <1>10, FlowsOut
<1>13. /\ j + fed.taken \in 0..(Len(stream) - t)
       /\ (t + j) + fed.taken = t + (j + fed.taken)
  <2>1. \A a, b, c, d \in Nat : c <= d /\ b + d <= a => b + c \in 0..a
    OBVIOUS
  <2>2. /\ fed.taken \in Nat /\ fed.taken <= Len(q.bytes) /\ t \in Nat /\ j \in Nat
        /\ Len(q.bytes) \in Nat
    BY <1>7, <1>8, <1>10
  <2>3. Len(stream) - t \in Nat /\ j + Len(q.bytes) <= Len(stream) - t
    BY <1>1, <1>4, <1>8
  <2>4. j + fed.taken \in 0..(Len(stream) - t)
    BY <2>1, <2>2, <2>3
  <2>5. (t + j) + fed.taken = t + (j + fed.taken)
    BY <2>2
  <2> QED
    BY <2>4, <2>5
<1>14. Flows(r.rb, input', t + (j + fed.taken)) /\ Reads(r.pars, m, j + fed.taken)
  BY <1>1, <1>6, <1>10, <1>12, <1>13
<1>15. r.rb \in Queue /\ Room(r.rb) >= 0 /\ r.pars.of = kind
  BY <1>1, <1>6, <1>10, <1>11
<1>16. \E k \in 0..(Len(stream) - t) : Flows(r.rb, input', t + k) /\ Reads(r.pars, m, k)
  BY <1>13, <1>14
<1> QED
  BY <1>1, <1>3, <1>15, <1>16 DEF m, i

\* The parsers start knowing nothing.
LEMMA ParsersStart ==
  ASSUME NEW m
  PROVE  /\ GreetingReads(GreetingInit, m, 0) /\ AuthReads(AuthInit, m, 0)
         /\ RequestReads(RequestInit, m, 0)
         /\ GreetingInit.state \notin Verdicts /\ AuthInit.state \notin Verdicts
         /\ RequestInit.state \notin Verdicts
         /\ GreetingInit.of = "greeting" /\ AuthInit.of = "auth" /\ RequestInit.of = "request"
<1>1. 0 \in Byte /\ << >> \in Seq(Byte)
  BY DEF Byte
<1>2. GreetingReads(GreetingInit, m, 0)
  BY <1>1 DEF GreetingReads, GreetingInit
<1>3. AuthReads(AuthInit, m, 0)
  BY <1>1 DEF AuthReads, AuthInit
<1>4. RequestReads(RequestInit, m, 0)
  BY <1>1 DEF RequestReads, RequestInit, Succeeded
<1> QED
  BY <1>2, <1>3, <1>4 DEF GreetingInit, AuthInit, RequestInit, Verdicts

-----------------------------------------------------------------------------
(* The replies *)

\* What is said first is a beginning of what is said.
LEMMA Beginning ==
  ASSUME NEW x \in Seq(Byte), NEW y \in Seq(Byte)
  PROVE  x \o y \in Seq(Byte) /\ SX!IsPrefix(x, x \o y)
<1> DEFINE z == x \o y
           b == SubSeq(z, 1, Len(x))
<1>1. /\ z \in Seq(Byte) /\ Len(z) = Len(x) + Len(y) /\ Len(x) \in Nat /\ Len(y) \in Nat
      /\ \A i \in 1..(Len(x) + Len(y)) : z[i] = IF i <= Len(x) THEN x[i] ELSE y[i - Len(x)]
  BY ConcatProperties, LenProperties
<1> HIDE DEF z
<1>2. Len(x) \in 0..Len(z)
  BY <1>1
<1>3. b \in Seq(Byte) /\ Len(b) = Len(x) /\ \A i \in 1..Len(x) : b[i] = z[i]
  BY <1>1, <1>2, FrontIs
<1>4. \A i \in 1..Len(x) : z[i] = x[i]
  BY <1>1
<1> HIDE DEF b
<1>5. b = x
  BY <1>3, <1>4, SeqEqual
<1>6. SubSeq(x, 1, Len(x)) = x
  BY SubSeqFull
<1>7. Len(x) <= Len(z)
  BY <1>2, <1>1
<1> QED
  BY <1>1, <1>5, <1>6, <1>7 DEF SX!IsPrefix, b, z

\* Replies one behind another, however they are grouped.
LEMMA Joined == \A x, y, z \in Seq(Byte) : (x \o y) \o z = x \o (y \o z)
<1> TAKE x, y, z \in Seq(Byte)
<1> QED
  BY ConcatAssociative

\* The method selected is one of three.
LEMMA Methods ==
  ASSUME NEW s
  PROVE  MethodOf(s) \in {NoAuth, UserPass, NoAcceptable} /\ MethodOf(s) \in Byte
<1>1. \A x : SelectMethod(x) \in {NoAuth, UserPass, NoAcceptable}
  BY DEF SelectMethod
<1>2. MethodOf(s) \in {NoAuth, UserPass, NoAcceptable}
  BY <1>1 DEF MethodOf
<1> QED
  BY <1>2 DEF NoAuth, UserPass, NoAcceptable, Byte

\* The replies of the first two messages.
LEMMA Welcomes ==
  ASSUME NEW s
  PROVE  /\ Welcome(s) \in Seq(Byte) /\ Len(Welcome(s)) = 2
         /\ AuthCode(s) \in {AuthSuccess, AuthFail}
         /\ <<AuthVersion, AuthCode(s)>> \in Seq(Byte) /\ Len(<<AuthVersion, AuthCode(s)>>) = 2
         /\ Greeted(s) \in Seq(Byte)
         /\ MethodOf(s) # UserPass => Greeted(s) = Welcome(s)
         /\ MethodOf(s) = UserPass => Greeted(s) = Welcome(s) \o <<AuthVersion, AuthCode(s)>>
<1>1. Version \in Byte /\ AuthVersion \in Byte /\ AuthSuccess \in Byte /\ AuthFail \in Byte
  BY DEF Version, AuthVersion, AuthSuccess, AuthFail, Byte
<1>2. \A a, b \in Byte : <<a, b>> \in Seq(Byte) /\ Len(<<a, b>>) = 2
  OBVIOUS
<1>3. MethodOf(s) \in Byte
  BY Methods
<1>4. Welcome(s) \in Seq(Byte) /\ Len(Welcome(s)) = 2
  BY <1>1, <1>2, <1>3 DEF Welcome
<1>5. AuthCode(s) \in {AuthSuccess, AuthFail}
  BY DEF AuthCode
<1> DEFINE reply == <<AuthVersion, AuthCode(s)>>
<1>6. reply \in Seq(Byte) /\ Len(reply) = 2
  BY <1>1, <1>2, <1>5
<1>7. /\ MethodOf(s) # UserPass => Greeted(s) = Welcome(s) \o << >>
      /\ MethodOf(s) = UserPass => Greeted(s) = Welcome(s) \o reply
  BY DEF Greeted
<1> HIDE DEF reply
<1>8. Welcome(s) \o << >> = Welcome(s) /\ Welcome(s) \o reply \in Seq(Byte)
  BY <1>4, <1>6, ConcatEmptySeq, ConcatProperties
<1>9. Greeted(s) \in Seq(Byte)
  BY <1>4, <1>7, <1>8
<1> QED
  BY <1>4, <1>5, <1>6, <1>7, <1>8, <1>9 DEF reply

\* The reply of a request.
LEMMA Codes ==
  ASSUME NEW s
  PROVE  /\ CodeOf(s) \in Byte
         /\ RequestReply(CodeOf(s)) \in Seq(Byte)
<1>1. \A m : RequestCode(m) \in {NotAllowed, CommandNotSupported, AddressTypeNotSupported,
                                 Succeeded}
  BY DEF RequestCode
<1>2. CodeOf(s) \in Byte
  BY <1>1 DEF CodeOf, NotAllowed, CommandNotSupported, AddressTypeNotSupported, Succeeded,
              Byte
<1>3. Version \in Byte /\ 0 \in Byte /\ Ipv4 \in Byte
  BY DEF Version, Ipv4, Byte
<1>4. \A a, b, c, d \in Byte : <<a, b, c, d, c, c, c, c, c, c>> \in Seq(Byte)
  OBVIOUS
<1>5. RequestReply(CodeOf(s)) \in Seq(Byte)
  BY <1>2, <1>3, <1>4 DEF RequestReply
<1> QED
  BY <1>2, <1>5

\* What is due is what the first two messages are due, and a refusal.
LEMMA DueIs ==
  ASSUME NEW s
  PROVE  /\ MethodOf(s) = UserPass => (Admitted(s) <=> AuthCode(s) = AuthSuccess)
         /\ RepliesDue(s) \in Seq(Byte)
         /\ ~Admitted(s) \/ CodeOf(s) = Succeeded => RepliesDue(s) = Greeted(s)
         /\ Admitted(s) /\ CodeOf(s) # Succeeded =>
              RepliesDue(s) = Greeted(s) \o RequestReply(CodeOf(s))
<1>1. MethodOf(s) = UserPass => (Admitted(s) <=> AuthCode(s) = AuthSuccess)
  BY DEF Admitted, AuthCode, AuthSuccess, AuthFail, UserPass, NoAuth
<1> DEFINE first == IF MethodOf(s) # UserPass THEN << >>
                    ELSE <<AuthVersion, IF Admitted(s) THEN AuthSuccess ELSE AuthFail>>
           last == IF ~Admitted(s) \/ CodeOf(s) = Succeeded THEN << >>
                   ELSE RequestReply(CodeOf(s))
<1>2. MethodOf(s) = UserPass => (IF Admitted(s) THEN AuthSuccess ELSE AuthFail) = AuthCode(s)
  BY <1>1, Welcomes DEF AuthSuccess, AuthFail
<1>3. Greeted(s) = Welcome(s) \o first
  BY <1>2 DEF Greeted
<1>4. RepliesDue(s) = (Welcome(s) \o first) \o last
  BY DEF RepliesDue, Welcome, CodeOf
<1>5. RepliesDue(s) = Greeted(s) \o last
  BY <1>3, <1>4
<1>6. Greeted(s) \in Seq(Byte) /\ RequestReply(CodeOf(s)) \in Seq(Byte)
  BY Welcomes, Codes
<1>7. Greeted(s) \o << >> = Greeted(s)
  BY <1>6, ConcatEmptySeq
<1>8. Greeted(s) \o RequestReply(CodeOf(s)) \in Seq(Byte)
  BY <1>6, ConcatProperties
<1> QED
  BY <1>1, <1>5, <1>6, <1>7, <1>8

\* send moves the bytes of a reply from the buffer to the client.
LEMMA SendsPart ==
  ASSUME out \in Seq(Byte), NEW q \in Queue, Room(q) >= 0, NEW n, Sent(q, n)
  PROVE  /\ out' \in Seq(Byte) /\ wb' \in Queue /\ Room(wb') >= 0
         /\ out' \o wb'.bytes = out \o q.bytes
         /\ ~Pending(wb') => wb' = Empty /\ out' = out \o q.bytes
         /\ n = Unread(q) => ~Pending(wb')
<1> DEFINE b == q.bytes
           a == SubSeq(b, 1, n)
           r == Behind(b, n)
<1>1. b \in Seq(Byte) /\ Len(b) \in Nat
  BY LenProperties DEF Queue
<1>2. n \in 0..Len(b) /\ n \in 1..Len(b)
  BY <1>1 DEF Sent, Unread
<1>3. out' = out \o a /\ wb' = Take(q, n)
  BY DEF Sent, Front
<1>4. a \in Seq(Byte) /\ r \in Seq(Byte)
  BY <1>1, <1>2, FrontIs, BehindIs
<1>5. /\ wb' \in Queue /\ Room(wb') >= 0 /\ wb'.bytes = r
      /\ wb'.bytes = << >> => wb' = Empty /\ n = Len(b)
  BY <1>2, <1>3, TakeBytes
<1>6. a \o r = b
  <2>1. 1 \in 1..(Len(b) + 1) /\ n \in (1 - 1)..Len(b) /\ Len(b) \in n..Len(b)
    BY <1>1, <1>2
  <2>2. SubSeq(b, 1, n) \o SubSeq(b, n + 1, Len(b)) = SubSeq(b, 1, Len(b))
    BY <1>1, <2>1, ConcatAdjacentSubSeq
  <2> QED
    BY <1>1, <2>2, SubSeqFull DEF Behind
<1>7. n = Len(b) => wb' = Empty
  BY <1>3 DEF Take
<1> HIDE DEF a, b, r
<1>8. (out \o a) \o r = out \o (a \o r)
  BY <1>4, Joined
<1>9. out \o a \in Seq(Byte) /\ (out \o a) \o << >> = out \o a
  BY <1>4, ConcatProperties, ConcatEmptySeq
<1> QED
  BY <1>3, <1>5, <1>6, <1>7, <1>8, <1>9 DEF Pending, Unread, Empty, b

-----------------------------------------------------------------------------
(* The steps *)

\* Every field has the room its length byte announced.
LEMMA FieldsFit ==
  ASSUME NEW p, NEW m, NEW j
  PROVE  /\ GreetingReads(p, m, j) => Len(p.methods) <= p.remaining
         /\ AuthReads(p, m, j) /\ p.state \notin Verdicts =>
              /\ p.state \in {"user_len", "user"} => Len(p.user) <= p.remaining
              /\ Len(p.password) <= p.remaining
         /\ RequestReads(p, m, j) /\ p.state \notin Verdicts =>
              p.addr = << >> \/ Len(p.addr) <= p.addr_len
<1>1. ASSUME GreetingReads(p, m, j) PROVE Len(p.methods) <= p.remaining
  <2>1. p.methods \in Seq(Byte) /\ Len(p.methods) \in Nat /\ p.remaining \in Nat
    BY <1>1, LenProperties, ByteIsNat DEF GreetingReads
  <2>2. Len(<< >>) = 0
    OBVIOUS
  <2> QED
    BY <1>1, <2>1, <2>2 DEF GreetingReads
<1>2. ASSUME AuthReads(p, m, j), p.state \notin Verdicts
      PROVE  /\ p.state \in {"user_len", "user"} => Len(p.user) <= p.remaining
             /\ Len(p.password) <= p.remaining
  <2>1. /\ p.user \in Seq(Byte) /\ p.password \in Seq(Byte) /\ p.remaining \in Nat
        /\ Len(p.user) \in Nat /\ Len(p.password) \in Nat
        /\ p.state \in {"version", "user_len", "user", "pass_len", "pass"}
    BY <1>2, LenProperties, ByteIsNat DEF AuthReads, Verdicts
  <2>2. Len(<< >>) = 0
    OBVIOUS
  <2> QED
    BY <1>2, <2>1, <2>2 DEF AuthReads
<1>3. ASSUME RequestReads(p, m, j), p.state \notin Verdicts
      PROVE  p.addr = << >> \/ Len(p.addr) <= p.addr_len
  <2>1. /\ p.addr \in Seq(Byte) /\ p.addr_len \in Int /\ Len(p.addr) \in Nat
        /\ p.state \in {"version", "command", "rsv", "atyp", "addr", "port"}
    BY <1>3, LenProperties DEF RequestReads, Verdicts
  <2> QED
    BY <1>3, <2>1 DEF RequestReads
<1> QED
  BY <1>1, <1>2, <1>3

\* A message is being read after a step that leaves the stream where it is.
LEMMA ReadingNext ==
  ASSUME stream \in Seq(Byte), stream' = stream, NEW kind, NEW t \in 0..Len(stream),
         pars'.of = kind, pars'.state \notin Verdicts,
         NEW k \in 0..(Len(stream) - t), Flows(rb', input', t + k),
         Reads(pars', Behind(stream, t), k)
  PROVE  Reading(kind, t)'
<1>1. k \in 0..Len(stream)
  BY LenProperties
<1>2. Flows(rb, input, t + k)' /\ Reads(pars, Behind(stream, t), k)'
  BY DEF Flows, Copied
<1> QED
  BY <1>1, <1>2 DEF Reading

\* The greeting is read, and its method is the one the stream asks for.
LEMMA GreetingReadKeeps ==
  ASSUME HandshakeInv, NEW n, GreetingRead(n)
  PROVE  HandshakeInv'
<1> DEFINE r == Consume(Filled(n), pars)
           m == SelectMethod(r.pars.methods)
<1>1. /\ Buffers /\ stream \in Seq(Byte) /\ out \in Seq(Byte) /\ wb \in Queue
      /\ Reading("greeting", 0) /\ out = << >> /\ wb = Empty
      /\ Received(n)
  BY DEF HandshakeInv, Buffers, AtGreeting, GreetingRead
<1>2. stream' = stream /\ out' = out
  BY <1>1 DEF Received
<1>3. /\ rb' = r.rb /\ pars' = r.pars
      /\ \/ /\ pars'.state \notin Verdicts
            /\ state' = "GREETING_READ" /\ wb' = wb
         \/ /\ pars'.state \in Verdicts
            /\ state' = "GREETING_WRITE" /\ answer' = m /\ wb' = Put(wb, <<Version, m>>)
  BY DEF GreetingRead, Waits, Replies
<1>4. /\ r.rb \in Queue /\ Room(r.rb) >= 0 /\ r.pars.of = "greeting" /\ input' \in Seq(Byte)
      /\ \E k \in 0..(Len(stream) - 0) :
           Flows(r.rb, input', 0 + k) /\ Reads(r.pars, Behind(stream, 0), k)
  BY <1>1, MessageReads
<1> HIDE DEF r
<1>5. PICK k \in 0..(Len(stream) - 0) :
             Flows(rb', input', 0 + k) /\ Reads(pars', Behind(stream, 0), k)
  BY <1>3, <1>4
<1>6. /\ Len(stream) \in Nat /\ 0 \in 0..Len(stream) /\ k \in 0..Len(stream) /\ 0 + k = k
      /\ Behind(stream, 0) = stream
  BY <1>1, LenProperties, BehindIs
<1>7. rb' \in Queue /\ Room(rb') >= 0 /\ pars'.of = "greeting"
  BY <1>3, <1>4
<1>8. CASE /\ pars'.state \notin Verdicts
           /\ state' = "GREETING_READ" /\ wb' = wb
  <2>1. Reading("greeting", 0)'
    BY <1>1, <1>2, <1>5, <1>6, <1>7, <1>8, ReadingNext
  <2>2. Room(wb') >= 0 /\ wb' \in Queue
    BY <1>1, <1>8 DEF Buffers
  <2>3. Buffers'
    BY <1>1, <1>2, <1>4, <1>7, <2>2 DEF Buffers
  <2>4. AtGreeting'
    BY <1>1, <1>2, <1>8, <2>1 DEF AtGreeting
  <2> QED
    BY <1>8, <2>3, <2>4 DEF HandshakeInv, AtAuth, AtRequest, AtEnd, Ended
<1>9. CASE /\ pars'.state \in Verdicts
           /\ state' = "GREETING_WRITE" /\ answer' = m /\ wb' = Put(wb, <<Version, m>>)
  <2>1. GreetingReads(pars', stream, k)
    BY <1>5, <1>6, <1>7, KindOfParser DEF Reads
  <2>2. k = GreetingLen(stream) /\ SelectMethod(pars'.methods) = MethodOf(stream)
    BY <1>1, <1>6, <1>9, <2>1, GreetingVerdict
  <2>3. answer' = MethodOf(stream) /\ wb' = Put(wb, Welcome(stream))
    BY <1>3, <1>9, <2>2 DEF Welcome
  <2>4. Welcome(stream) \in Seq(Byte) /\ Len(Welcome(stream)) = 2
    BY Welcomes
  <2>5. Len(Welcome(stream)) <= Room(wb) /\ wb.bytes = << >>
    BY <1>1, <2>4, HandshakeAssumption DEF Empty, Room
  <2>6. wb' \in Queue /\ Room(wb') >= 0 /\ wb'.bytes = << >> \o Welcome(stream)
    BY <1>1, <2>3, <2>4, <2>5, PutBytes
  <2>7. << >> \o Welcome(stream) = Welcome(stream)
    BY <2>4, ConcatEmptySeq
  <2>8. out' \o wb'.bytes = Welcome(stream)
    BY <1>1, <1>2, <2>6, <2>7
  <2>9. Flows(rb, input, GreetingLen(stream))'
    BY <1>2, <1>5, <1>6, <2>2 DEF Flows, Copied
  <2>10. Len(pars'.methods) <= pars'.remaining
    BY <2>1, FieldsFit
  <2>11. Buffers'
    BY <1>1, <1>2, <1>4, <1>7, <2>6 DEF Buffers
  <2>12. AtGreeting'
    BY <1>2, <1>9, <2>3, <2>8, <2>9 DEF AtGreeting
  <2> QED
    BY <1>9, <2>10, <2>11, <2>12 DEF HandshakeInv, AtAuth, AtRequest, AtEnd, Ended
<1> QED
  BY <1>3, <1>8, <1>9

\* The authentication is read, and its answer is the one the stream deserves.
LEMMA AuthReadKeeps ==
  ASSUME HandshakeInv, NEW n, AuthRead(n)
  PROVE  HandshakeInv'
<1> DEFINE r == Consume(Filled(n), pars)
           ok == r.pars.state = "done" /\ Authenticated(r.pars.user, r.pars.password)
           code == IF ok THEN AuthSuccess ELSE AuthFail
           t == GreetingLen(stream)
           m == Behind(stream, t)
<1>1. /\ Buffers /\ stream \in Seq(Byte) /\ out \in Seq(Byte) /\ wb \in Queue
      /\ MethodOf(stream) = UserPass
      /\ Reading("auth", t) /\ out = Welcome(stream) /\ wb = Empty
      /\ Received(n)
  BY DEF HandshakeInv, Buffers, AtAuth, AuthRead
<1>2. stream' = stream /\ out' = out
  BY <1>1 DEF Received
<1>3. /\ rb' = r.rb /\ pars' = r.pars
      /\ \/ /\ pars'.state \notin Verdicts
            /\ state' = "AUTH_READ" /\ wb' = wb
         \/ /\ pars'.state \in Verdicts
            /\ state' = "AUTH_WRITE" /\ answer' = code
            /\ wb' = Put(wb, <<AuthVersion, code>>)
  BY DEF AuthRead, Waits, Replies
<1>4. /\ r.rb \in Queue /\ Room(r.rb) >= 0 /\ r.pars.of = "auth" /\ input' \in Seq(Byte)
      /\ \E k \in 0..(Len(stream) - t) : Flows(r.rb, input', t + k) /\ Reads(r.pars, m, k)
  BY <1>1, MessageReads
<1>5. t \in 0..Len(stream)
  BY <1>1 DEF Reading
<1>6. ok <=> pars'.state = "done" /\ Authenticated(pars'.user, pars'.password)
  BY <1>3
<1> HIDE DEF r, ok, t
<1>7. PICK k \in 0..(Len(stream) - t) : Flows(rb', input', t + k) /\ Reads(pars', m, k)
  BY <1>3, <1>4
<1>8. /\ Len(stream) \in Nat /\ t \in Nat /\ k \in Nat
      /\ m \in Seq(Byte) /\ Len(m) = Len(stream) - t /\ k \in 0..Len(m)
  BY <1>1, <1>5, LenProperties, BehindIs
<1>9. rb' \in Queue /\ Room(rb') >= 0 /\ pars'.of = "auth"
  BY <1>3, <1>4
<1>10. CASE /\ pars'.state \notin Verdicts
            /\ state' = "AUTH_READ" /\ wb' = wb
  <2>1. Reading("auth", GreetingLen(stream))'
    BY <1>1, <1>2, <1>5, <1>7, <1>9, <1>10, ReadingNext DEF t
  <2>2. Room(wb') >= 0 /\ wb' \in Queue
    BY <1>1, <1>10 DEF Buffers
  <2>3. Buffers'
    BY <1>1, <1>2, <1>4, <1>9, <2>2 DEF Buffers
  <2>4. AtAuth'
    BY <1>1, <1>2, <1>10, <2>1 DEF AtAuth
  <2> QED
    BY <1>10, <2>3, <2>4 DEF HandshakeInv, AtGreeting, AtRequest, AtEnd, Ended
<1>11. CASE /\ pars'.state \in Verdicts
            /\ state' = "AUTH_WRITE" /\ answer' = code
            /\ wb' = Put(wb, <<AuthVersion, code>>)
  <2>1. AuthReads(pars', m, k)
    BY <1>7, <1>9, KindOfParser DEF Reads
  <2>2. k = AuthLen(m) /\ (ok <=> Granted(m))
    BY <1>6, <1>8, <1>11, <2>1, AuthVerdict
  <2>3. code = AuthCode(stream)
    BY <2>2 DEF AuthCode, t
  <2>4. t + k = RequestAt(stream)
    BY <1>1, <2>2 DEF RequestAt, t, UserPass, NoAuth
  <2> HIDE DEF m, code
  <2> DEFINE reply == <<AuthVersion, AuthCode(stream)>>
  <2>5. reply \in Seq(Byte) /\ Len(reply) = 2 /\ Greeted(stream) = Welcome(stream) \o reply
    BY <1>1, Welcomes
  <2>6. wb' = Put(wb, reply) /\ answer' = AuthCode(stream)
    BY <1>11, <2>3
  <2> HIDE DEF reply
  <2>7. Len(reply) <= Room(wb) /\ wb.bytes = << >>
    BY <1>1, <2>5, HandshakeAssumption DEF Empty, Room
  <2>8. wb' \in Queue /\ Room(wb') >= 0 /\ wb'.bytes = << >> \o reply
    BY <1>1, <2>5, <2>6, <2>7, PutBytes
  <2>9. << >> \o reply = reply
    BY <2>5, ConcatEmptySeq
  <2>10. out' \o wb'.bytes = Greeted(stream)
    BY <1>1, <1>2, <2>5, <2>8, <2>9
  <2>11. Flows(rb, input, RequestAt(stream))'
    BY <1>2, <1>7, <2>4 DEF Flows, Copied
  <2>12. Buffers'
    BY <1>1, <1>2, <1>4, <1>9, <2>8 DEF Buffers
  <2>13. AtAuth'
    BY <1>1, <1>2, <1>11, <2>6, <2>10, <2>11 DEF AtAuth
  <2> QED
    BY <1>11, <2>12, <2>13 DEF HandshakeInv, AtGreeting, AtRequest, AtEnd, Ended
<1> QED
  BY <1>3, <1>10, <1>11

\* The request is read; its destination, or refusal, is that of the stream.
LEMMA RequestReadKeeps ==
  ASSUME HandshakeInv, NEW n, RequestRead(n)
  PROVE  HandshakeInv'
<1> DEFINE r == Consume(Filled(n), pars)
           t == RequestAt(stream)
           m == Behind(stream, t)
<1>1. /\ Buffers /\ stream \in Seq(Byte) /\ Admitted(stream)
      /\ Reading("request", t) /\ out = Greeted(stream) /\ wb = Empty
      /\ Received(n)
  BY DEF HandshakeInv, Buffers, AtRequest, RequestRead
<1>2. stream' = stream /\ out' = out
  BY <1>1 DEF Received
<1>3. /\ rb' = r.rb /\ pars' = r.pars /\ wb' = wb
      /\ \/ pars'.state \notin Verdicts /\ state' = "REQUEST_READ"
         \/ /\ pars'.state \in Verdicts
            /\ answer' = IF pars'.state = "done" THEN Succeeded ELSE pars'.reply
            /\ state' = CASE pars'.state = "done" -> "ORIGIN_CONNECT"
                          [] pars'.state = "error" -> "REQUEST_WRITE"
                          [] pars'.state = "fault" -> "crashed"
  BY DEF RequestRead, Waits
<1>4. /\ r.rb \in Queue /\ Room(r.rb) >= 0 /\ r.pars.of = "request" /\ input' \in Seq(Byte)
      /\ \E k \in 0..(Len(stream) - t) : Flows(r.rb, input', t + k) /\ Reads(r.pars, m, k)
  BY <1>1, MessageReads
<1>5. t \in 0..Len(stream)
  BY <1>1 DEF Reading
<1> HIDE DEF r, t
<1>6. PICK k \in 0..(Len(stream) - t) : Flows(rb', input', t + k) /\ Reads(pars', m, k)
  BY <1>3, <1>4
<1>7. /\ Len(stream) \in Nat /\ t \in Nat /\ k \in Nat
      /\ m \in Seq(Byte) /\ Len(m) = Len(stream) - t /\ k \in 0..Len(m)
  BY <1>1, <1>5, LenProperties, BehindIs
<1>8. rb' \in Queue /\ Room(rb') >= 0 /\ pars'.of = "request"
  BY <1>3, <1>4
<1>9. Buffers'
  BY <1>1, <1>2, <1>3, <1>4, <1>8 DEF Buffers
<1>10. CASE pars'.state \notin Verdicts /\ state' = "REQUEST_READ"
  <2>1. Reading("request", RequestAt(stream))'
    BY <1>1, <1>2, <1>5, <1>6, <1>8, <1>10, ReadingNext DEF t
  <2>2. AtRequest'
    BY <1>1, <1>2, <1>3, <1>10, <2>1 DEF AtRequest
  <2> QED
    BY <1>9, <1>10, <2>2 DEF HandshakeInv, AtGreeting, AtAuth, AtEnd, Ended
<1>11. CASE /\ pars'.state \in Verdicts
            /\ answer' = IF pars'.state = "done" THEN Succeeded ELSE pars'.reply
            /\ state' = CASE pars'.state = "done" -> "ORIGIN_CONNECT"
                          [] pars'.state = "error" -> "REQUEST_WRITE"
                          [] pars'.state = "fault" -> "crashed"
  <2>1. RequestReads(pars', m, k)
    BY <1>6, <1>8, KindOfParser DEF Reads
  <2>2. /\ pars'.state \in {"done", "error", "fault"}
        /\ pars'.state = "error" => pars'.reply = RequestCode(m) /\ RequestCode(m) # Succeeded
        /\ pars'.state = "done" =>
             /\ RequestCode(m) = Succeeded /\ Len(pars'.addr) <= pars'.addr_len
             /\ [atyp |-> pars'.atyp, addr |-> pars'.addr, port |-> pars'.port]
                  = Destination(m)
    BY <1>7, <1>11, <2>1, RequestVerdict
  <2>3. CodeOf(stream) = RequestCode(m) /\ m = Behind(stream, RequestAt(stream))
    BY DEF CodeOf, t
  <2> HIDE DEF m
  <2>4. CASE pars'.state = "done"
    <3>1. state' = "ORIGIN_CONNECT"
      BY <1>11, <2>4
    <3>2. AtRequest'
      BY <1>1, <1>2, <1>3, <2>2, <2>3, <2>4, <3>1 DEF AtRequest
    <3> QED
      BY <1>9, <3>1, <3>2 DEF HandshakeInv, AtGreeting, AtAuth, AtEnd, Ended
  <2>5. CASE pars'.state = "error"
    <3>1. state' = "REQUEST_WRITE" /\ answer' = pars'.reply
      BY <1>11, <2>5
    <3>2. AtRequest'
      BY <1>1, <1>2, <1>3, <2>2, <2>3, <2>5, <3>1 DEF AtRequest
    <3> QED
      BY <1>9, <3>1, <3>2 DEF HandshakeInv, AtGreeting, AtAuth, AtEnd, Ended
  <2>6. CASE pars'.state = "fault"
    <3>1. state' = "crashed"
      BY <1>11, <2>6
    <3>2. AtRequest'
      BY <1>1, <1>2, <1>3, <3>1 DEF AtRequest
    <3> QED
      BY <1>9, <3>1, <3>2 DEF HandshakeInv, AtGreeting, AtAuth, AtEnd, Ended
  <2> QED
    BY <2>2, <2>4, <2>5, <2>6
<1> QED
  BY <1>3, <1>10, <1>11

\* A state that reads starts where the last message ended.
LEMMA ReadingStarts ==
  ASSUME Buffers, stream' = stream, rb' = rb, input' = input,
         NEW kind, NEW t, Flows(rb, input, t),
         pars'.of = kind, pars'.state \notin Verdicts, \A m : Reads(pars', m, 0)
  PROVE  Reading(kind, t)'
<1>1. /\ stream \in Seq(Byte) /\ Len(stream) \in Nat
      /\ Len(rb.bytes) \in Nat /\ Len(input) \in Nat
  BY LenProperties DEF Buffers, Queue
<1>2. t \in Nat /\ t + Len(rb.bytes) + Len(input) = Len(stream)
  BY DEF Flows
<1>3. \A a, b, c \in Nat : a <= a + b + c /\ 0 <= (a + b + c) - a
  OBVIOUS
<1>4. t <= Len(stream) /\ 0 <= Len(stream) - t
  BY <1>1, <1>2, <1>3
<1>5. t \in 0..Len(stream) /\ 0 \in 0..(Len(stream) - t) /\ t + 0 = t
  BY <1>1, <1>2, <1>4
<1>6. Flows(rb', input', t + 0) /\ Reads(pars', Behind(stream, t), 0)
  BY <1>5
<1> QED
  BY <1>1, <1>5, <1>6, ReadingNext

\* What has been said at each stage is a beginning of what is due.
LEMMA Stages ==
  ASSUME NEW s
  PROVE  /\ SX!IsPrefix(<< >>, RepliesDue(s)) /\ SX!IsPrefix(Welcome(s), RepliesDue(s))
         /\ SX!IsPrefix(Greeted(s), RepliesDue(s))
         /\ SX!IsPrefix(RepliesDue(s), RepliesDue(s))
<1> DEFINE due == RepliesDue(s)
           w == Welcome(s)
           g == Greeted(s)
           u == <<AuthVersion, AuthCode(s)>>
           last == RequestReply(CodeOf(s))
<1>1. due \in Seq(Byte) /\ (due = g \/ due = g \o last)
  BY DueIs
<1>2. /\ w \in Seq(Byte) /\ g \in Seq(Byte) /\ u \in Seq(Byte)
      /\ (g = w \/ g = w \o u)
  BY Welcomes
<1>3. last \in Seq(Byte) /\ << >> \in Seq(Byte)
  BY Codes
<1> HIDE DEF due, w, g, u, last
<1>4. /\ << >> \o due = due /\ due \o << >> = due
      /\ w \o << >> = w /\ g \o << >> = g
  BY <1>1, <1>2, ConcatEmptySeq
<1>5. SX!IsPrefix(<< >>, due) /\ SX!IsPrefix(due, due)
  BY <1>1, <1>3, <1>4, Beginning
<1>6. SX!IsPrefix(g, g \o << >>) /\ SX!IsPrefix(g, g \o last)
  BY <1>2, <1>3, Beginning
<1>7. SX!IsPrefix(g, due)
  BY <1>1, <1>4, <1>6
<1>8. /\ SX!IsPrefix(w, w \o << >>) /\ SX!IsPrefix(w, w \o u)
      /\ SX!IsPrefix(w, w \o last) /\ SX!IsPrefix(w, w \o (u \o last))
  BY <1>2, <1>3, Beginning
<1>9. (w \o u) \o last = w \o (u \o last)
  BY <1>2, <1>3, Joined
<1>10. due \in {w, w \o u, w \o last, w \o (u \o last)}
  BY <1>1, <1>2, <1>9
<1>11. SX!IsPrefix(w, due)
  BY <1>4, <1>8, <1>10
<1> QED
  BY <1>5, <1>7, <1>11 DEF due, w, g

\* The method is sent; with the last byte of it the next message is awaited.
LEMMA GreetingWriteKeeps ==
  ASSUME HandshakeInv, NEW n, GreetingWrite(n)
  PROVE  HandshakeInv'
<1> DEFINE t == GreetingLen(stream)
<1>1. /\ Buffers /\ out \in Seq(Byte) /\ wb \in Queue /\ Room(wb) >= 0
      /\ Flows(rb, input, t) /\ answer = MethodOf(stream)
      /\ out \o wb.bytes = Welcome(stream)
      /\ Len(pars.methods) <= pars.remaining
      /\ state = "GREETING_WRITE" /\ Sent(wb, n)
  BY DEF HandshakeInv, Buffers, AtGreeting, GreetingWrite
<1>2. stream' = stream /\ input' = input /\ rb' = rb /\ answer' = answer
  BY <1>1 DEF Sent
<1>3. /\ out' \in Seq(Byte) /\ wb' \in Queue /\ Room(wb') >= 0
      /\ out' \o wb'.bytes = Welcome(stream)
      /\ ~Pending(wb') => wb' = Empty /\ out' = Welcome(stream)
  BY <1>1, SendsPart
<1>4. Buffers'
  BY <1>1, <1>2, <1>3 DEF Buffers
<1>5. CASE Pending(wb') /\ Enters(state)
  <2>1. state' = "GREETING_WRITE" /\ pars' = pars
    BY <1>1, <1>5 DEF Enters
  <2>2. Flows(rb, input, GreetingLen(stream))'
    BY <1>1, <1>2 DEF Flows, Copied
  <2>3. AtGreeting'
    BY <1>1, <1>2, <1>3, <2>1, <2>2 DEF AtGreeting
  <2> QED
    BY <1>1, <1>4, <2>1, <2>3 DEF HandshakeInv, AtAuth, AtRequest, AtEnd, Ended
<1>6. CASE /\ ~Pending(wb')
           /\ Enters(CASE answer = NoAuth -> "REQUEST_READ"
                       [] answer = UserPass -> "AUTH_READ"
                       [] OTHER -> "ERROR")
  <2>1. /\ wb' = Empty /\ out' = Welcome(stream)
        /\ MethodOf(stream) # UserPass => Greeted(stream) = Welcome(stream)
    BY <1>3, <1>6, Welcomes
  <2>2. CASE answer = NoAuth
    <3>1. state' = "REQUEST_READ" /\ pars' = RequestInit
      <4>1. Enters("REQUEST_READ")
        BY <1>6, <2>2 DEF NoAuth, UserPass
      <4> QED
        BY <4>1 DEF Enters
    <3>2. /\ MethodOf(stream) = NoAuth /\ MethodOf(stream) # UserPass
          /\ Admitted(stream) /\ RequestAt(stream) = t
      BY <1>1, <2>2 DEF Admitted, RequestAt, NoAuth, UserPass
    <3>3. /\ pars'.of = "request" /\ pars'.state \notin Verdicts
          /\ \A m : Reads(pars', m, 0)
      BY <3>1, ParsersStart DEF Reads
    <3>4. Reading("request", RequestAt(stream))'
      BY <1>1, <1>2, <3>2, <3>3, ReadingStarts
    <3>5. AtRequest'
      BY <1>2, <2>1, <3>1, <3>2, <3>4 DEF AtRequest
    <3> QED
      BY <1>4, <3>1, <3>5 DEF HandshakeInv, AtGreeting, AtAuth, AtEnd, Ended
  <2>3. CASE answer = UserPass
    <3>1. state' = "AUTH_READ" /\ pars' = AuthInit
      BY <1>6, <2>3 DEF Enters, UserPass, NoAuth
    <3>2. /\ pars'.of = "auth" /\ pars'.state \notin Verdicts
          /\ \A m : Reads(pars', m, 0)
      BY <3>1, ParsersStart DEF Reads
    <3>3. Reading("auth", GreetingLen(stream))'
      BY <1>1, <1>2, <3>2, ReadingStarts
    <3>4. AtAuth'
      BY <1>1, <1>2, <2>1, <2>3, <3>1, <3>3 DEF AtAuth
    <3> QED
      BY <1>4, <3>1, <3>4 DEF HandshakeInv, AtGreeting, AtRequest, AtEnd, Ended
  <2>4. CASE answer \notin {NoAuth, UserPass}
    <3>1. state' = "ERROR"
      BY <1>6, <2>4 DEF Enters
    <3>2. out' \o wb'.bytes = Welcome(stream)
      BY <1>3
    <3>3. SX!IsPrefix(out' \o wb'.bytes, RepliesDue(stream))
      BY <3>2, Stages
    <3>4. SX!IsPrefix(out \o wb.bytes, RepliesDue(stream))'
      BY <1>2, <3>3
    <3>5. AtEnd'
      BY <3>1, <3>4 DEF AtEnd
    <3> QED
      BY <1>4, <3>1, <3>5 DEF HandshakeInv, AtGreeting, AtAuth, AtRequest, Ended
  <2> QED
    BY <2>2, <2>3, <2>4
<1> QED
  BY <1>5, <1>6 DEF GreetingWrite

\* The answer is sent; only a client that was let in may send its request.
LEMMA AuthWriteKeeps ==
  ASSUME HandshakeInv, NEW n, AuthWrite(n)
  PROVE  HandshakeInv'
<1>1. /\ Buffers /\ out \in Seq(Byte) /\ wb \in Queue /\ Room(wb) >= 0
      /\ MethodOf(stream) = UserPass
      /\ Flows(rb, input, RequestAt(stream)) /\ answer = AuthCode(stream)
      /\ out \o wb.bytes = Greeted(stream)
      /\ state = "AUTH_WRITE" /\ Sent(wb, n)
  BY DEF HandshakeInv, Buffers, AtAuth, AuthWrite
<1>2. stream' = stream /\ input' = input /\ rb' = rb /\ answer' = answer
  BY <1>1 DEF Sent
<1>3. /\ out' \in Seq(Byte) /\ wb' \in Queue /\ Room(wb') >= 0
      /\ out' \o wb'.bytes = Greeted(stream)
      /\ ~Pending(wb') => wb' = Empty /\ out' = Greeted(stream)
  BY <1>1, SendsPart
<1>4. Buffers'
  BY <1>1, <1>2, <1>3 DEF Buffers
<1>5. Admitted(stream) <=> answer = AuthSuccess
  BY <1>1, DueIs
<1>6. CASE Pending(wb') /\ Enters(state)
  <2>1. state' = "AUTH_WRITE"
    BY <1>1, <1>6 DEF Enters
  <2>2. Flows(rb, input, RequestAt(stream))'
    BY <1>1, <1>2 DEF Flows, Copied
  <2>3. AtAuth'
    BY <1>1, <1>2, <1>3, <2>1, <2>2 DEF AtAuth
  <2> QED
    BY <1>1, <1>4, <2>1, <2>3 DEF HandshakeInv, AtGreeting, AtRequest, AtEnd, Ended
<1>7. CASE /\ ~Pending(wb')
           /\ Enters(IF answer = AuthSuccess THEN "REQUEST_READ" ELSE "DONE")
  <2>1. wb' = Empty /\ out' = Greeted(stream)
    BY <1>3, <1>7
  <2>2. CASE answer = AuthSuccess
    <3>1. Enters("REQUEST_READ")
      BY <1>7, <2>2
    <3>2. state' = "REQUEST_READ" /\ pars' = RequestInit
      BY <3>1 DEF Enters
    <3>3. /\ pars'.of = "request" /\ pars'.state \notin Verdicts
          /\ \A m : Reads(pars', m, 0)
      BY <3>2, ParsersStart DEF Reads
    <3>4. Reading("request", RequestAt(stream))'
      BY <1>1, <1>2, <3>3, ReadingStarts
    <3>5. AtRequest'
      BY <1>2, <1>5, <2>1, <2>2, <3>2, <3>4 DEF AtRequest
    <3> QED
      BY <1>4, <3>2, <3>5 DEF HandshakeInv, AtGreeting, AtAuth, AtEnd, Ended
  <2>3. CASE answer # AuthSuccess
    <3>1. Enters("DONE")
      BY <1>7, <2>3
    <3>2. state' = "DONE"
      BY <3>1 DEF Enters
    <3>3. ~Admitted(stream) /\ RepliesDue(stream) = Greeted(stream)
      BY <1>5, <2>3, DueIs
    <3>4. AtEnd'
      BY <1>2, <2>1, <3>2, <3>3 DEF AtEnd
    <3> QED
      BY <1>4, <3>2, <3>4 DEF HandshakeInv, AtGreeting, AtAuth, AtRequest, Ended
  <2> QED
    BY <2>2, <2>3
<1> QED
  BY <1>6, <1>7 DEF AuthWrite

\* The refusal of the request is sent, and, if send takes it whole, once.
LEMMA RequestWriteKeeps ==
  ASSUME HandshakeInv, NEW n, RequestWrite(n)
  PROVE  HandshakeInv'
<1> DEFINE reply == RequestReply(answer)
           q == Put(wb, reply)
<1>1. /\ Buffers /\ out \in Seq(Byte) /\ wb \in Queue
      /\ Admitted(stream) /\ answer = CodeOf(stream) /\ CodeOf(stream) # Succeeded
      /\ WholeReplies => out = Greeted(stream) /\ wb = Empty
      /\ state = "REQUEST_WRITE" /\ Room(wb) >= Len(reply) /\ Sent(q, n)
      /\ Enters(IF Pending(wb') THEN "REQUEST_WRITE" ELSE "DONE")
  BY DEF HandshakeInv, Buffers, AtRequest, RequestWrite
<1>2. /\ stream' = stream /\ input' = input /\ rb' = rb /\ answer' = answer
      /\ n = Unread(q) \/ state \in PartialReplies
  BY <1>1 DEF Sent
<1>3. reply \in Seq(Byte)
  BY <1>1, Codes
<1> HIDE DEF reply
<1>4. Len(reply) <= Room(wb)
  <2>1. Len(reply) \in Nat /\ wb.dead \in Nat /\ Len(wb.bytes) \in Nat
    BY <1>1, <1>3, LenProperties DEF Queue
  <2>2. Room(wb) \in Int
    BY <2>1, HandshakeAssumption DEF Room
  <2> QED
    BY <1>1, <2>1, <2>2
<1>5. q \in Queue /\ Room(q) >= 0 /\ q.bytes = wb.bytes \o reply
  BY <1>1, <1>3, <1>4, PutBytes
<1> HIDE DEF q
<1>6. /\ out' \in Seq(Byte) /\ wb' \in Queue /\ Room(wb') >= 0
      /\ ~Pending(wb') => wb' = Empty /\ out' = out \o q.bytes
      /\ n = Unread(q) => ~Pending(wb')
  BY <1>1, <1>5, SendsPart
<1>7. Buffers'
  BY <1>1, <1>2, <1>6 DEF Buffers
<1>8. CASE Pending(wb')
  <2>1. Enters("REQUEST_WRITE")
    BY <1>1, <1>8
  <2>2. state' = "REQUEST_WRITE"
    BY <2>1 DEF Enters
  <2>3. ~WholeReplies
    BY <1>1, <1>2, <1>6, <1>8 DEF WholeReplies
  <2>4. AtRequest'
    BY <1>1, <1>2, <2>2, <2>3 DEF AtRequest, WholeReplies
  <2> QED
    BY <1>7, <2>2, <2>4 DEF HandshakeInv, AtGreeting, AtAuth, AtEnd, Ended
<1>9. CASE ~Pending(wb')
  <2>1. Enters("DONE")
    BY <1>1, <1>9
  <2>2. state' = "DONE"
    BY <2>1 DEF Enters
  <2>3. ASSUME WholeReplies PROVE out' = RepliesDue(stream) /\ wb' = Empty
    <3>1. wb.bytes = << >> /\ out = Greeted(stream) /\ << >> \o reply = reply
      BY <1>1, <1>3, <2>3, ConcatEmptySeq DEF Empty
    <3>2. out' = Greeted(stream) \o reply
      BY <1>5, <1>6, <1>9, <3>1
    <3>3. RepliesDue(stream) = Greeted(stream) \o reply
      BY <1>1, DueIs DEF reply
    <3> QED
      BY <1>6, <1>9, <3>2, <3>3
  <2>4. AtEnd'
    BY <1>1, <1>2, <2>2, <2>3 DEF AtEnd, WholeReplies
  <2> QED
    BY <1>7, <2>2, <2>4 DEF HandshakeInv, AtGreeting, AtAuth, AtRequest, Ended
<1> QED
  BY <1>8, <1>9

\* What was said, and waits to be said, is always a beginning of what is due.
LEMMA SaidIsDue ==
  ASSUME HandshakeInv, WholeReplies
  PROVE  SX!IsPrefix(out \o wb.bytes, RepliesDue(stream))
<1>1. out \in Seq(Byte) /\ << >> \in Seq(Byte) /\ << >> \o << >> = << >>
  BY DEF HandshakeInv, Buffers
<1>2. wb = Empty => out \o wb.bytes = out
  BY <1>1, ConcatEmptySeq DEF Empty
<1>3. CASE state = "GREETING_READ"
  BY <1>2, <1>3, Stages DEF HandshakeInv, AtGreeting
<1>4. CASE state = "GREETING_WRITE"
  BY <1>4, Stages DEF HandshakeInv, AtGreeting
<1>5. CASE state = "AUTH_READ"
  BY <1>2, <1>5, Stages DEF HandshakeInv, AtAuth
<1>6. CASE state = "AUTH_WRITE"
  BY <1>6, Stages DEF HandshakeInv, AtAuth
<1>7. CASE state \in {"REQUEST_READ", "REQUEST_WRITE", "ORIGIN_CONNECT", "crashed"}
  <2>1. out = Greeted(stream) /\ wb = Empty
    BY <1>7 DEF HandshakeInv, AtRequest
  <2> QED
    BY <1>2, <2>1, Stages
<1>8. CASE state \in {"DONE", "ERROR", "killed"}
  BY <1>2, <1>8, Stages DEF HandshakeInv, AtEnd
<1> QED
  BY <1>3, <1>4, <1>5, <1>6, <1>7, <1>8 DEF HandshakeInv, Ended

\* A client that leaves, or is given up, or ends the process, was told nothing
\* but what was due.
LEMMA FailsKeeps ==
  ASSUME HandshakeInv, Fails \/ SendKills
  PROVE  HandshakeInv'
<1>1. /\ stream' = stream /\ input' = input /\ rb' = rb /\ wb' = wb /\ out' = out
      /\ state' \in {"ERROR", "killed"} /\ Buffers
  BY DEF Fails, SendKills, HandshakeInv
<1>2. Buffers'
  BY <1>1 DEF Buffers
<1>3. WholeReplies => SX!IsPrefix(out' \o wb'.bytes, RepliesDue(stream'))
  BY <1>1, SaidIsDue
<1>4. WholeReplies' => SX!IsPrefix(out \o wb.bytes, RepliesDue(stream))'
  BY <1>3 DEF WholeReplies
<1>5. AtEnd'
  BY <1>1, <1>4 DEF AtEnd
<1> QED
  BY <1>1, <1>2, <1>5 DEF HandshakeInv, AtGreeting, AtAuth, AtRequest, Ended

-----------------------------------------------------------------------------
(* The theorems *)

\* A client starts with nothing read, nothing said and its whole stream ahead.
LEMMA InitGood == Init => HandshakeInv
<1> SUFFICES ASSUME Init PROVE HandshakeInv
  OBVIOUS
<1>1. /\ stream \in Seq(Byte) /\ input = stream /\ rb = Empty /\ wb = Empty /\ out = << >>
      /\ state = "GREETING_READ" /\ pars = GreetingInit
  BY HandshakeAssumption DEF Init
<1>2. << >> \in Seq(Byte) /\ Len(<< >>) = 0 /\ Len(stream) \in Nat
  BY <1>1, LenProperties
<1>3. Empty \in Queue /\ Room(Empty) >= 0 /\ Empty.bytes = << >>
  BY <1>2, HandshakeAssumption DEF Empty, Queue, Room
<1>4. Buffers
  BY <1>1, <1>2, <1>3 DEF Buffers
<1>5. Flows(rb, input, 0 + 0)
  <2>1. 0 + 0 \in Nat /\ (0 + 0) + Len(rb.bytes) + Len(input) = Len(stream)
    BY <1>1, <1>2, <1>3
  <2>2. Copied(rb.bytes, stream, 0 + 0)
    BY <1>1, <1>2, <1>3 DEF Copied
  <2>3. \A i \in 1..Len(stream) : (0 + 0) + Len(rb.bytes) + i = i
    BY <1>1, <1>2, <1>3
  <2>4. Copied(input, stream, (0 + 0) + Len(rb.bytes))
    BY <1>1, <2>3 DEF Copied
  <2> QED
    BY <2>1, <2>2, <2>4 DEF Flows
<1>6. Reading("greeting", 0)
  <2>1. /\ pars.of = "greeting" /\ pars.state \notin Verdicts
        /\ Reads(pars, Behind(stream, 0), 0)
    BY <1>1, ParsersStart DEF Reads
  <2>2. 0 \in 0..Len(stream)
    BY <1>2
  <2> QED
    BY <1>5, <2>1, <2>2 DEF Reading
<1> QED
  BY <1>1, <1>4, <1>6 DEF HandshakeInv, AtGreeting, AtAuth, AtRequest, AtEnd, Ended

\* No step of a handler breaks it.
LEMMA NextGood == HandshakeInv /\ [Next]_vars => HandshakeInv'
<1> SUFFICES ASSUME HandshakeInv, [Next]_vars PROVE HandshakeInv'
  OBVIOUS
<1>1. ASSUME NEW n \in 1..Limit, GreetingRead(n) PROVE HandshakeInv'
  BY <1>1, GreetingReadKeeps
<1>2. ASSUME NEW n \in 1..Limit, AuthRead(n) PROVE HandshakeInv'
  BY <1>2, AuthReadKeeps
<1>3. ASSUME NEW n \in 1..Limit, RequestRead(n) PROVE HandshakeInv'
  BY <1>3, RequestReadKeeps
<1>4. ASSUME NEW n \in 1..Limit, GreetingWrite(n) PROVE HandshakeInv'
  BY <1>4, GreetingWriteKeeps
<1>5. ASSUME NEW n \in 1..Limit, AuthWrite(n) PROVE HandshakeInv'
  BY <1>5, AuthWriteKeeps
<1>6. ASSUME NEW n \in 1..Limit, RequestWrite(n) PROVE HandshakeInv'
  BY <1>6, RequestWriteKeeps
<1>7. CASE Fails \/ SendKills
  BY <1>7, FailsKeeps
<1>8. CASE UNCHANGED vars
  BY <1>8 DEF vars, HandshakeInv, Buffers, AtGreeting, AtAuth, AtRequest, AtEnd, Reading,
              Flows, Copied, WholeReplies
<1>9. Over => UNCHANGED vars
  BY DEF Over
<1> QED
  BY <1>1, <1>2, <1>3, <1>4, <1>5, <1>6, <1>7, <1>8, <1>9 DEF Next, Read, Write

\* The invariant bounds every field and both buffers.
LEMMA InvTypes == HandshakeInv => TypeOK
<1> SUFFICES ASSUME HandshakeInv PROVE TypeOK
  OBVIOUS
<1>1. Room(rb) >= 0 /\ Room(wb) >= 0
  BY DEF HandshakeInv, Buffers
<1>2. state \in {"GREETING_READ", "GREETING_WRITE"} => Len(pars.methods) <= pars.remaining
  <2>1. ASSUME state = "GREETING_READ" PROVE Len(pars.methods) <= pars.remaining
    <3>1. PICK j \in 0..Len(stream) : Reads(pars, Behind(stream, 0), j)
      BY <2>1 DEF HandshakeInv, AtGreeting, Reading
    <3>2. pars.of = "greeting"
      BY <2>1 DEF HandshakeInv, AtGreeting, Reading
    <3>3. GreetingReads(pars, Behind(stream, 0), j)
      BY <3>1, <3>2, KindOfParser DEF Reads
    <3> QED
      BY <3>3, FieldsFit
  <2> QED
    BY <2>1 DEF HandshakeInv
<1>3. ASSUME state = "AUTH_READ"
      PROVE  /\ pars.state \in {"user_len", "user"} => Len(pars.user) <= pars.remaining
             /\ Len(pars.password) <= pars.remaining
  <2> DEFINE m == Behind(stream, GreetingLen(stream))
  <2>1. Reading("auth", GreetingLen(stream))
    BY <1>3 DEF HandshakeInv, AtAuth
  <2>2. pars.of = "auth" /\ pars.state \notin Verdicts
    BY <2>1 DEF Reading
  <2>3. PICK j \in 0..Len(stream) : Reads(pars, m, j)
    BY <2>1 DEF Reading
  <2>4. AuthReads(pars, m, j)
    BY <2>2, <2>3, KindOfParser DEF Reads
  <2> QED
    BY <2>2, <2>4, FieldsFit
<1>4. ASSUME state = "REQUEST_READ"
      PROVE  pars.addr = << >> \/ Len(pars.addr) <= pars.addr_len
  <2> DEFINE m == Behind(stream, RequestAt(stream))
  <2>1. Reading("request", RequestAt(stream))
    BY <1>4 DEF HandshakeInv, AtRequest
  <2>2. pars.of = "request" /\ pars.state \notin Verdicts
    BY <2>1 DEF Reading
  <2>3. PICK j \in 0..Len(stream) : Reads(pars, m, j)
    BY <2>1 DEF Reading
  <2>4. RequestReads(pars, m, j)
    BY <2>2, <2>3, KindOfParser DEF Reads
  <2> QED
    BY <2>2, <2>4, FieldsFit
<1>5. state = "ORIGIN_CONNECT" => Len(pars.addr) <= pars.addr_len
  BY DEF HandshakeInv, AtRequest
<1> QED
  BY <1>1, <1>2, <1>3, <1>4, <1>5 DEF TypeOK, HandshakeInv

\* Where the proxy connects, and to whom it says so, is what the stream asks.
OriginOfStream ==
  state = "ORIGIN_CONNECT" =>
    /\ Admitted(stream) /\ out = RepliesDue(stream)
    /\ [atyp |-> pars.atyp, addr |-> pars.addr, port |-> pars.port]
         = Destination(Behind(stream, RequestAt(stream)))

\* The invariant tells the origin, whether or not the replies are whole.
LEMMA InvOrigin == HandshakeInv => OriginOfStream
<1> SUFFICES ASSUME HandshakeInv, state = "ORIGIN_CONNECT" PROVE OriginOfStream
  BY DEF OriginOfStream
<1>1. /\ Admitted(stream) /\ out = Greeted(stream) /\ CodeOf(stream) = Succeeded
      /\ [atyp |-> pars.atyp, addr |-> pars.addr, port |-> pars.port]
           = Destination(Behind(stream, RequestAt(stream)))
  BY DEF HandshakeInv, AtRequest
<1> QED
  BY <1>1, DueIs DEF OriginOfStream

\* The invariant tells the verdicts.
LEMMA InvVerdicts == HandshakeInv /\ WholeReplies => VerdictOfStream
<1> SUFFICES ASSUME HandshakeInv, WholeReplies PROVE VerdictOfStream
  OBVIOUS
<1>1. ASSUME state = "DONE"
      PROVE  /\ out = RepliesDue(stream)
             /\ Admitted(stream) => RequestCode(Behind(stream, RequestAt(stream))) # Succeeded
  BY <1>1 DEF HandshakeInv, AtEnd, CodeOf
<1> QED
  BY <1>1, InvOrigin DEF VerdictOfStream, OriginOfStream

\* Every field of a message, and both buffers, stay within their memory,
\* whatever the client sends and however recv and send cut it.
THEOREM TypeCorrect == Spec => []TypeOK
<1>1. Spec => []HandshakeInv
  BY InitGood, NextGood, PTL DEF Spec
<1> QED
  BY <1>1, InvTypes, PTL

\* The proxy connects for a client its stream admits, to the origin that the
\* stream names, whatever send does with the replies.
THEOREM OriginOfStreamCorrect == Spec => []OriginOfStream
<1>1. Spec => []HandshakeInv
  BY InitGood, NextGood, PTL DEF Spec
<1> QED
  BY <1>1, InvOrigin, PTL

\* The origin connected to is the one the stream names, and only a client to
\* be refused is refused, for every stream and every way to cut it.
THEOREM VerdictOfStreamCorrect ==
  ASSUME WholeReplies
  PROVE  Spec => []VerdictOfStream
<1>1. Spec => []HandshakeInv
  BY InitGood, NextGood, PTL DEF Spec
<1>2. HandshakeInv => VerdictOfStream
  BY InvVerdicts
<1> QED
  BY <1>1, <1>2, PTL

\* Replies go out whole, each once and in order, and no message is read
\* before the reply to the one before it is out.
THEOREM RepliesInOrderCorrect ==
  ASSUME WholeReplies
  PROVE  Spec => []RepliesInOrder
<1>1. Spec => []HandshakeInv
  BY InitGood, NextGood, PTL DEF Spec
<1>2. HandshakeInv => RepliesInOrder
  <2>1. ASSUME HandshakeInv PROVE SX!IsPrefix(out \o wb.bytes, RepliesDue(stream))
    BY <2>1, SaidIsDue
  <2>2. ASSUME HandshakeInv, state \in {"AUTH_READ", "REQUEST_READ"} PROVE ~Pending(wb)
    BY <2>2 DEF HandshakeInv, AtAuth, AtRequest, Pending, Empty
  <2> QED
    BY <2>1, <2>2 DEF RepliesInOrder
<1> QED
  BY <1>1, <1>2, PTL
=============================================================================
