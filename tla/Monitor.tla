------------------------------- MODULE Monitor -------------------------------
(***************************************************************************)
(* The monitoring server: src/src/admin_server.c, admin_stm.c,             *)
(* admin_auth.c, admin_request.c and the parsers of AdminParsers, with the *)
(* users of src/src/parameters.c and the size of src/src/buffer.c that its *)
(* commands change, and clients that behave like src/client/client.c: one  *)
(* message at a time, and the next one after an answer.                    *)
(***************************************************************************)
EXTENDS AdminParsers

CONSTANTS
  Admin,                \* the structs admin, one for each client
  Garbage,              \* memory that nobody has written
  AdminUser,            \* parameters->admin
  InitialUsers,         \* parameters->users at the start
  InitialSize,          \* BUFFER_SIZE
  MaxUsers, MaxCredentialsLen, MinBufferSize, MaxBuffSize,
  SizeMod,              \* values of the uint64_t that a size is read into: 2^64
  Visits                \* what may come together: [who, room, logins, commands],
                        \* clients, how many of them the selector takes, and
                        \* what they send

ASSUME MonitorAssumption ==
  /\ Null \notin Admin /\ IsFiniteSet(Admin)
  /\ InitialUsers \in Seq([name : Seq(0..255), pass : Seq(0..255)])
  /\ MaxUsers \in Nat /\ Len(InitialUsers) <= MaxUsers
  /\ MaxCredentialsLen \in Nat /\ MinBufferSize \in Nat /\ MaxBuffSize \in Nat
  /\ SizeMod \in Nat \ {0}
  /\ \A v \in Visits : /\ v.who \subseteq Admin /\ v.room \in Nat
                        /\ v.logins \subseteq Seq(0..255) /\ v.commands \subseteq Seq(0..255)
  /\ InitialSize \in MinBufferSize..MaxBuffSize

VARIABLES
  visit,       \* one of Visits
  first,       \* the head of the list
  adm,         \* the structs
  users,       \* parameters->users, as many as user_count
  buffSize,    \* BUFFER_SIZE
  server,      \* "up", "hung" in a loop, or "crashed"
  sent,        \* of each client the bytes that recv has not returned
  left,        \* the clients that have closed their side
  asked,       \* history: the message that awaits its answer, or << >>
  got,         \* what a client has received since it sent its last message
  torn         \* history: a message was answered before all of it was received,
               \* or an answer was sent in part.  Happens once.
vars == <<visit, first, adm, users, buffSize, server, sent, left, asked, got, torn>>
clients == <<sent, left, asked, got>>

-----------------------------------------------------------------------------
(* parameters.c and buffer.c: the state that commands change *)

Says(text) == [text |-> text, users |-> << >>]

\* The code's strings end at the first terminator.
CString(s) ==
  IF \E i \in DOMAIN s : s[i] = 0
  THEN SubSeq(s, 1, Min({i \in DOMAIN s : s[i] = 0}) - 1) ELSE s

AuthenticateAdmin(user, pass) == [name |-> CString(user), pass |-> CString(pass)] = AdminUser

\* Mutant: the table may hold one user more.
AddUserOneMore(name, pass) ==
  IF Len(name) > MaxCredentialsLen \/ Len(pass) > MaxCredentialsLen
  THEN [ret |-> "too long", users |-> users]
  ELSE IF Len(users) <= MaxUsers
       THEN [ret |-> "added", users |-> Append(users, [name |-> name, pass |-> pass])]
       ELSE [ret |-> "max users", users |-> users]

AddUser(name, pass) ==
  IF Len(name) > MaxCredentialsLen \/ Len(pass) > MaxCredentialsLen
  THEN [ret |-> "too long", users |-> users]
  ELSE IF Len(users) < MaxUsers
       THEN [ret |-> "added", users |-> Append(users, [name |-> name, pass |-> pass])]
       ELSE [ret |-> "max users", users |-> users]

SetBuffSize(n) ==
  IF n < MinBufferSize \/ n > MaxBuffSize THEN [ret |-> "invalid size", size |-> buffSize]
  ELSE [ret |-> "resized", size |-> n]

\* change_buffer_size: new_size is unsigned and wraps.
Value(digits) ==
  LET value[i \in 0..Len(digits)] ==
        IF i = 0 THEN 0 ELSE (10 * value[i - 1] + (digits[i] - Digit(0))) % SizeMod
  IN value[Len(digits)]

-----------------------------------------------------------------------------
(* admin_server.c: the list, and what happens to a struct *)

Closed ==
  [state |-> "CLOSED", interest |-> "none", next |-> Null, list_index |-> 0,
   auth |-> AuthParserInit, req |-> RequestParserInit(0), rb |-> << >>, wb |-> << >>]
Open == {a \in Admin : adm[a].state # "CLOSED"}

\* The struct that n hops lead to.
Hop[n \in Nat] ==
  IF n = 0 THEN first ELSE IF Hop[n - 1] = Null THEN Null ELSE adm[Hop[n - 1]].next
LastHop == Min({n \in 0..Cardinality(Admin) : Hop[n] # Null /\ adm[Hop[n]].next = Null})

\* Mutant: the index of the struct before it.
NewAdminSameIndex(a) ==
  LET new == [Closed EXCEPT !.state = "ADMIN_AUTH", !.interest = "OP_READ"]
  IN IF first = Null THEN first' = a /\ adm' = [adm EXCEPT ![a] = new]
     ELSE /\ adm' = [adm EXCEPT ![Hop[LastHop]].next = a, ![a] = [new EXCEPT !.list_index = LastHop]]
          /\ UNCHANGED first

\* new_admin appends the struct; the buffers and the parsers are empty.
NewAdmin(a) ==
  LET new == [Closed EXCEPT !.state = "ADMIN_AUTH", !.interest = "OP_READ"]
  IN IF first = Null THEN first' = a /\ adm' = [adm EXCEPT ![a] = new]
     ELSE /\ adm' = [adm EXCEPT ![Hop[LastHop]].next = a, ![a] = [new EXCEPT !.list_index = LastHop + 1]]
          /\ UNCHANGED first

\* admin_passive_accept.  When the selector is full, destroy_admin is called
\* with the key of the listening socket, which has no struct.
Accept(a) ==
  /\ server = "up" /\ a \in visit.who \ Open
  /\ IF Cardinality(Open) < visit.room
     THEN /\ NewAdmin(a)
          /\ got' = [got EXCEPT ![a] = << >>]
          /\ UNCHANGED <<server, sent, left, asked>>
     ELSE /\ server' = "crashed"
          /\ UNCHANGED <<first, adm, clients>>
  /\ UNCHANGED <<visit, users, buffSize, torn>>

\* destroy_admin: from the struct before ad, the loop that should renumber the
\* ones behind it does not advance.
Destroy(ad) ==
  LET aux == Hop[IF adm[ad].list_index > 0 THEN adm[ad].list_index - 1 ELSE 0]
      cut == [adm EXCEPT ![aux].next = adm[ad].next]
  IN /\ IF cut[aux].next # Null
        THEN server' = "hung" /\ adm' = cut /\ UNCHANGED first
        ELSE /\ adm' = [cut EXCEPT ![ad] = Closed]
             /\ first' = IF first = ad THEN Null ELSE first
             /\ UNCHANGED server
     /\ sent' = [sent EXCEPT ![ad] = << >>]
     /\ asked' = [asked EXCEPT ![ad] = << >>]
     /\ left' = left \ {ad}

-----------------------------------------------------------------------------
(* The handlers of ADMIN_AUTH: admin_auth.c *)

\* What recv returns is a part of what was sent, or all of it.
Received(a, n) ==
  /\ server = "up"
  /\ torn => n = Len(sent[a])
  /\ sent' = [sent EXCEPT ![a] = SubSeq(@, n + 1, Len(@))]
Bytes(a, n) == adm[a].rb \o SubSeq(sent[a], 1, n)
Rest(bytes, fed) == SubSeq(bytes, fed.taken + 1, Len(bytes))
Tears(a, n) == torn' = (torn \/ (adm'[a].interest = "OP_WRITE" /\ n < Len(sent[a])))

AuthRead(a) ==
  /\ adm[a].state = "ADMIN_AUTH" /\ adm[a].interest = "OP_READ"
  /\ \E n \in 1..Len(sent[a]) : \E fed \in {AuthFed(adm[a].auth, Bytes(a, n))} :
       /\ Received(a, n)
       /\ adm' = [adm EXCEPT ![a].auth = fed.pars, ![a].rb = Rest(Bytes(a, n), fed),
                    ![a].interest = IF fed.pars.state \in AuthFinal THEN "OP_WRITE" ELSE @]
       /\ Tears(a, n)
  /\ UNCHANGED <<visit, first, users, buffSize, server, left, asked, got>>

AuthRet(p) ==
  CASE p.state = "bad_syntax" -> "bad syntax"
    [] p.state = "auth_done" /\ AuthenticateAdmin(p.user, p.password) -> "success"
    [] OTHER -> "bad credentials"

\* One byte; admin_request_init drops what is left in the buffers.
AuthWrite(a) ==
  /\ server = "up" /\ adm[a].state = "ADMIN_AUTH" /\ adm[a].interest = "OP_WRITE"
  /\ got' = [got EXCEPT ![a] = Append(@, Says(AuthRet(adm[a].auth)))]
  /\ IF AuthRet(adm[a].auth) = "success"
     THEN /\ adm' = [adm EXCEPT ![a].state = "ADMIN_REQUEST", ![a].interest = "OP_READ",
                       ![a].rb = << >>, ![a].req = RequestParserInit(@.cmd_selected)]
          /\ asked' = [asked EXCEPT ![a] = << >>]
          /\ UNCHANGED <<first, server, sent, left>>
     ELSE Destroy(a)
  /\ UNCHANGED <<visit, users, buffSize, torn>>

-----------------------------------------------------------------------------
(* The handlers of ADMIN_REQUEST: admin_request.c *)

\* Mutant: an answer is given only to a complete command.
RequestReadDoneOnly(a) ==
  /\ adm[a].state = "ADMIN_REQUEST" /\ adm[a].interest = "OP_READ"
  /\ \E n \in 1..Len(sent[a]) : \E fed \in {RequestFed(adm[a].req, Bytes(a, n))} :
       /\ Received(a, n)
       /\ adm' = [adm EXCEPT ![a].req = fed.pars, ![a].rb = Rest(Bytes(a, n), fed),
                             ![a].interest = IF fed.pars.state = "done" THEN "OP_WRITE" ELSE @]
       /\ Tears(a, n)
  /\ UNCHANGED <<visit, first, users, buffSize, server, left, asked, got>>

\* Whatever was received, an answer is due.
RequestRead(a) ==
  /\ adm[a].state = "ADMIN_REQUEST" /\ adm[a].interest = "OP_READ"
  /\ \E n \in 1..Len(sent[a]) : \E fed \in {RequestFed(adm[a].req, Bytes(a, n))} :
       /\ Received(a, n)
       /\ adm' = [adm EXCEPT ![a].req = fed.pars, ![a].rb = Rest(Bytes(a, n), fed),
                             ![a].interest = "OP_WRITE"]
       /\ Tears(a, n)
  /\ UNCHANGED <<visit, first, users, buffSize, server, left, asked, got>>

\* What a command does and says, among what memory that was not written may
\* make of it: an incomplete command is carried out like a complete one
\* (`else if(req_done)' tests a constant), unless a pointer is NULL.
Outcome(answer, u, size) == [answer |-> answer, users |-> u, size |-> size]
Crashes(p) ==
  /\ p.state # "invalid_cmd"
  /\ \/ p.cmd_selected = Digit(2) /\ p.password = Null
     \/ p.cmd_selected = Digit(4) /\ p.new_buff_size = Null

Written(p, field) ==
  IF p.state = "done" THEN {field}
  ELSE {field \o rest : rest \in {<< >>, <<Garbage>>, [i \in 1..(MaxCredentialsLen + 1) |-> Garbage]}}

Outcomes(p) ==
  IF p.state = "invalid_cmd" THEN {Outcome(Says("invalid command"), users, buffSize)}
  ELSE CASE p.cmd_selected = Digit(1) -> {Outcome(Says("metrics"), users, buffSize)}
         [] p.cmd_selected = Digit(2) ->
              {LET r == AddUser(CString(p.user), pass) IN Outcome(Says(r.ret), r.users, buffSize)
                 : pass \in Written(p, p.password)}
         [] p.cmd_selected = Digit(3) ->
              {Outcome([text |-> "users", users |-> users], users, buffSize)}
         [] p.cmd_selected = Digit(4) ->
              {LET r == SetBuffSize(n) IN Outcome(Says(r.ret), users, r.size)
                 : n \in IF p.state = "done" THEN {Value(p.new_buff_size)}
                         ELSE {MinBufferSize - 1, MaxBuffSize}}
         [] OTHER -> {Outcome(Says("garbage"), users, buffSize)}

\* admin_request_write: the answer is formatted at every call, and the parser
\* starts anew.
Filled(a, o) == Append(adm[a].wb, o.answer)

\* Mutant: the parser is left as it is.
AnewNever(a) == adm[a].req

Anew(a) == RequestParserInit(adm[a].req.cmd_selected)

Writes(a) == server = "up" /\ adm[a].state = "ADMIN_REQUEST" /\ adm[a].interest = "OP_WRITE"

RequestWrite(a) ==
  /\ Writes(a) /\ ~Crashes(adm[a].req)
  /\ \E o \in Outcomes(adm[a].req) :
       /\ users' = o.users /\ buffSize' = o.size
       /\ got' = [got EXCEPT ![a] = @ \o Filled(a, o)]
       /\ adm' = [adm EXCEPT ![a].req = Anew(a), ![a].wb = << >>, ![a].interest = "OP_READ"]
  /\ asked' = [asked EXCEPT ![a] = << >>]
  /\ UNCHANGED <<visit, first, server, sent, left, torn>>

RequestWritePart(a) ==
  /\ Writes(a) /\ ~Crashes(adm[a].req) /\ ~torn
  /\ \E o \in Outcomes(adm[a].req) :
       /\ users' = o.users /\ buffSize' = o.size
       /\ adm' = [adm EXCEPT ![a].req = Anew(a), ![a].wb = <<Says("rest")>>]
  /\ got' = [got EXCEPT ![a] = Append(@, Says("part"))]
  /\ asked' = [asked EXCEPT ![a] = << >>]
  /\ torn' = TRUE
  /\ UNCHANGED <<visit, first, server, sent, left>>

RequestWriteCrashes(a) ==
  /\ Writes(a) /\ Crashes(adm[a].req)
  /\ server' = "crashed"
  /\ UNCHANGED <<visit, first, adm, users, buffSize, clients, torn>>

-----------------------------------------------------------------------------
(* recv returns 0 or send fails: the client has left.  The command is carried *)
(* out before its answer cannot be sent.                                      *)

ReadEnds(a) ==
  /\ server = "up" /\ adm[a].interest = "OP_READ" /\ a \in left /\ sent[a] = << >>
  /\ Destroy(a)
  /\ got' = [got EXCEPT ![a] = << >>]
  /\ UNCHANGED <<visit, users, buffSize, torn>>

WriteFails(a) ==
  /\ server = "up" /\ adm[a].interest = "OP_WRITE" /\ a \in left
  /\ IF adm[a].state = "ADMIN_AUTH" THEN UNCHANGED <<users, buffSize>>
     ELSE /\ ~Crashes(adm[a].req)
          /\ \E o \in Outcomes(adm[a].req) : users' = o.users /\ buffSize' = o.size
  /\ Destroy(a)
  /\ got' = [got EXCEPT ![a] = << >>]
  /\ UNCHANGED <<visit, torn>>

\* The flags of send are 0 and main.c handles SIGTERM and SIGINT only: where
\* send fails with EPIPE, SIGPIPE ends the process, its memory included.
WriteKills(a) ==
  /\ server = "up" /\ adm[a].interest = "OP_WRITE" /\ a \in left
  /\ server' = "crashed"
  /\ UNCHANGED <<visit, first, adm, users, buffSize, clients, torn>>

-----------------------------------------------------------------------------
(* client.c: credentials first, then commands, each after an answer *)

\* What is typed as credentials or as a command has no terminator in it: of
\* credentials no byte but a length is 0, of a command the newline is the last
\* byte and no other one, behind no more than REQUEST_LEN characters.
RequestLen == 255
PlainLogin(m) == \A i \in DOMAIN m : m[i] = 0 => i \in {1, m[1] + 2}
PlainCommand(m) ==
  /\ Len(m) > 0 /\ Len(m) <= RequestLen + 1
  /\ \A i \in DOMAIN m : m[i] # 0 /\ (m[i] = Newline <=> i = Len(m))
PlainClients ==
  \A v \in Visits : (\A m \in v.logins : PlainLogin(m)) /\ (\A m \in v.commands : PlainCommand(m))

\* Bound: nothing is sent once something was torn.
Send(a) ==
  /\ server = "up" /\ a \in Open \ left /\ asked[a] = << >> /\ ~torn
  /\ \E m \in IF adm[a].state = "ADMIN_AUTH" THEN visit.logins ELSE visit.commands :
       /\ sent' = [sent EXCEPT ![a] = @ \o m]
       /\ asked' = [asked EXCEPT ![a] = m]
  /\ got' = [got EXCEPT ![a] = << >>]
  /\ UNCHANGED <<visit, first, adm, users, buffSize, server, left, torn>>

Leaves(a) ==
  /\ server = "up" /\ a \in Open \ left
  /\ left' = left \cup {a}
  /\ UNCHANGED <<visit, first, adm, users, buffSize, server, sent, asked, got, torn>>

-----------------------------------------------------------------------------
Init ==
  /\ visit \in Visits
  /\ first = Null /\ adm = [a \in Admin |-> Closed]
  /\ users = InitialUsers /\ buffSize = InitialSize
  /\ server = "up"
  /\ sent = [a \in Admin |-> << >>] /\ asked = [a \in Admin |-> << >>]
  /\ got = [a \in Admin |-> << >>] /\ left = {}
  /\ torn = FALSE

Reads(a) == AuthRead(a) \/ RequestRead(a) \/ ReadEnds(a)
Write(a) == AuthWrite(a) \/ RequestWrite(a) \/ RequestWritePart(a) \/ RequestWriteCrashes(a)
            \/ WriteFails(a) \/ WriteKills(a)

Next == \E a \in Admin : Accept(a) \/ Send(a) \/ Leaves(a) \/ Reads(a) \/ Write(a)

Spec == Init /\ [][Next]_vars
FairSpec == Spec /\ \A a \in Admin : WF_vars(Reads(a)) /\ WF_vars(Write(a))

-----------------------------------------------------------------------------
(* Properties *)

\* Ranges; the table of users and the size keep their limits, whatever is torn.
TypeOK ==
  /\ first \in Admin \cup {Null} /\ \A a \in Admin : adm[a].next \in Admin \cup {Null}
  /\ server \in {"up", "hung", "crashed"}
  /\ Len(users) <= MaxUsers /\ buffSize \in MinBufferSize..MaxBuffSize
  /\ left \subseteq Open

\* While the server runs its list holds the registered administrators, each
\* once, and each at the place that its list_index says: destroy_admin finds
\* the struct before another one by nothing else.
ListExact ==
  server = "up" =>
    /\ \A a \in Open : Hop[adm[a].list_index] = a
    /\ Hop[Cardinality(Open)] = Null

\* The server does what MonitorService promises, until a message or an answer
\* is torn.
InOrderOfArrival == [i \in 1..Cardinality(Open) |-> Hop[i - 1]]
None == [a \in Admin |-> << >>]
Service == INSTANCE MonitorService WITH
  admins <- IF server = "up" THEN InOrderOfArrival ELSE << >>,
  logged <- IF server = "up" THEN {a \in Admin : adm[a].state = "ADMIN_REQUEST"} ELSE {},
  Login <- UNION {v.logins : v \in Visits}, Command <- UNION {v.commands : v \in Visits},
  asked <- IF server = "up" THEN asked ELSE None,
  running <- server = "up"
ServiceRefined == Service!Spec

\* A message that has been sent is answered, unless its sender leaves, the
\* server stops or something is torn.
Answered == \A a \in Admin : asked[a] # << >> ~> (asked[a] = << >> \/ server # "up" \/ torn)

\* The server goes on listening to the others when one of them disconnects.
OthersStayServed == server # "hung"
=============================================================================
