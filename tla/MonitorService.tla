---------------------------- MODULE MonitorService ----------------------------
(***************************************************************************)
(* What the monitoring server promises, without parsers, buffers, selector *)
(* or pointers: whoever has logged in gives commands; each is carried out  *)
(* once, as a whole, and answered according to the users and the size it   *)
(* found.  The commands are those of the menu in src/client/client.c.      *)
(***************************************************************************)
EXTENDS Integers, Sequences, SequencesExt

CONSTANTS Admin, AdminUser, Login, Command, MaxUsers, MaxCredentialsLen, MinBufferSize,
          MaxBuffSize, SizeMod, InitialUsers, InitialSize

VARIABLES
  admins,    \* in the order in which they have come
  logged,    \* those who have logged in
  asked,     \* of each one the message that awaits its answer, or << >>
  got,       \* of each one the answer to its last message
  users, buffSize,
  running,   \* FALSE: the server serves nobody any more
  torn       \* the network has delivered a message, or an answer, in two parts
vars == <<admins, logged, asked, got, users, buffSize, running, torn>>

-----------------------------------------------------------------------------
(* A message as a whole *)

Byte == 0..255
Says(text) == [text |-> text, users |-> << >>]
Positions(m, c) == {i \in DOMAIN m : m[i] = c}

\* <length> <user> <length> <password>; what follows is ignored.
UserOf(m) == SubSeq(m, 2, m[1] + 1)
PassOf(m) == SubSeq(m, m[1] + 3, m[1] + 2 + m[m[1] + 2])
WellFormed(m) == m[1] # 0 /\ m[m[1] + 2] # 0
Verdict(m) ==
  CASE ~WellFormed(m) -> Says("bad syntax")
    [] WellFormed(m) /\ [name |-> UserOf(m), pass |-> PassOf(m)] = AdminUser -> Says("success")
    [] OTHER -> Says("bad credentials")

\* "2 <user> <password>", where a space ends the user and a newline the rest.
IsAdd(m) == /\ m[1] = 50 /\ Cardinality(Positions(m, 32)) = 2 /\ m[2] = 32
            /\ Positions(m, 10) = {Len(m)}
Gap(m) == Max(Positions(m, 32))
NewUser(m) == [name |-> SubSeq(m, 3, Gap(m) - 1), pass |-> SubSeq(m, Gap(m) + 1, Len(m) - 1)]
TooLong(u) == Len(u.name) > MaxCredentialsLen \/ Len(u.pass) > MaxCredentialsLen

\* "4 <number>", of which only the remainder modulo SizeMod counts.
Figures(m) == SubSeq(m, 3, Len(m) - 1)
IsResize(m) == /\ Len(m) > 2 /\ m[1] = 52 /\ m[2] = 32 /\ m[Len(m)] = 10
               /\ \A i \in 3..(Len(m) - 1) : m[i] \in 48..57
Number(d) ==
  LET number[i \in 0..Len(d)] ==
        IF i = 0 THEN 0 ELSE (10 * number[i - 1] + (d[i] - 48)) % SizeMod
  IN number[Len(d)]
ValidSize(n) == MinBufferSize <= n /\ n <= MaxBuffSize

Added(m) == IsAdd(m) /\ ~TooLong(NewUser(m)) /\ Len(users) < MaxUsers
Resized(m) == IsResize(m) /\ ValidSize(Number(Figures(m)))

UsersAfter(m) == IF Added(m) THEN Append(users, NewUser(m)) ELSE users
SizeAfter(m) == IF Resized(m) THEN Number(Figures(m)) ELSE buffSize
Answer(m) ==
  CASE m = <<49, 10>> -> Says("metrics")
    [] m = <<51, 10>> -> [text |-> "users", users |-> users]
    [] IsAdd(m) -> Says(CASE Added(m) -> "added"
                          [] TooLong(NewUser(m)) -> "too long"
                          [] OTHER -> "max users")
    [] IsResize(m) -> Says(IF Resized(m) THEN "resized" ELSE "invalid size")
    [] OTHER -> Says("invalid command")

-----------------------------------------------------------------------------
Init ==
  /\ admins = << >> /\ logged = {} /\ running = TRUE /\ torn = FALSE
  /\ asked = [a \in Admin |-> << >>] /\ got = [a \in Admin |-> << >>]
  /\ users = InitialUsers /\ buffSize = InitialSize

Here(a) == running /\ \E i \in DOMAIN admins : admins[i] = a

Arrive(a) ==
  /\ running /\ ~Here(a)
  /\ admins' = Append(admins, a)
  /\ got' = [got EXCEPT ![a] = << >>]
  /\ UNCHANGED <<logged, asked, users, buffSize, running, torn>>

Ask(a) ==
  /\ Here(a) /\ asked[a] = << >>
  /\ \E m \in (IF a \in logged THEN Command ELSE Login) : asked' = [asked EXCEPT ![a] = m]
  /\ got' = [got EXCEPT ![a] = << >>]
  /\ UNCHANGED <<admins, logged, users, buffSize, running, torn>>

LetIn(a) ==
  /\ Here(a) /\ a \notin logged /\ asked[a] # << >>
  /\ Verdict(asked[a]) = Says("success")
  /\ logged' = logged \cup {a}
  /\ got' = [got EXCEPT ![a] = <<Verdict(asked[a])>>]
  /\ asked' = [asked EXCEPT ![a] = << >>]
  /\ UNCHANGED <<admins, users, buffSize, running, torn>>

CarryOut(a) ==
  /\ Here(a) /\ a \in logged /\ asked[a] # << >>
  /\ users' = UsersAfter(asked[a]) /\ buffSize' = SizeAfter(asked[a])
  /\ got' = [got EXCEPT ![a] = <<Answer(asked[a])>>]
  /\ asked' = [asked EXCEPT ![a] = << >>]
  /\ UNCHANGED <<admins, logged, running, torn>>

\* The server goes on only if nobody has come later.
Stop == running' = FALSE /\ admins' = << >> /\ logged' = {} /\ asked' = [a \in Admin |-> << >>]

Depart(a) ==
  /\ IF Last(admins) = a
     THEN /\ admins' = Front(admins)
          /\ logged' = logged \ {a}
          /\ asked' = [asked EXCEPT ![a] = << >>]
          /\ UNCHANGED running
     ELSE Stop
  /\ UNCHANGED torn

TurnAway(a) ==
  /\ Here(a) /\ a \notin logged /\ asked[a] # << >>
  /\ Verdict(asked[a]) # Says("success")
  /\ got' = [got EXCEPT ![a] = <<Verdict(asked[a])>>]
  /\ Depart(a)
  /\ UNCHANGED <<users, buffSize>>

\* Who leaves may have had its last command carried out, without an answer.
Leave(a) ==
  /\ Here(a)
  /\ \/ UNCHANGED <<users, buffSize>>
     \/ /\ a \in logged /\ asked[a] # << >>
        /\ users' = UsersAfter(asked[a]) /\ buffSize' = SizeAfter(asked[a])
  /\ got' = [got EXCEPT ![a] = << >>]
  /\ Depart(a)

\* The selector takes no more descriptors, or SIGPIPE ends the process.
Refuse ==
  /\ running
  /\ Stop
  /\ UNCHANGED <<got, users, buffSize, torn>>

\* Of what follows a torn message nothing is promised, except this.
Tear == torn'

Next ==
  \/ \E a \in Admin : Arrive(a) \/ Ask(a) \/ LetIn(a) \/ CarryOut(a) \/ TurnAway(a) \/ Leave(a)
  \/ Refuse
  \/ Tear

Spec == Init /\ [][Next]_vars
=============================================================================
