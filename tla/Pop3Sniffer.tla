----------------------------- MODULE Pop3Sniffer -----------------------------
(***************************************************************************)
(* src/src/pop3_sniffer.c: one state machine that reads both directions of *)
(* a tunnel, to log the credentials of a POP3 login that the server has    *)
(* accepted.  Here it listens to a dialogue of a client and a server.      *)
(* tolower is applied by the code wherever a word is compared: the words   *)
(* below stand for either case.                                            *)
(***************************************************************************)
EXTENDS Integers, Sequences

CONSTANTS
  CredentialsSize,   \* CREDENTIALS_SIZE: 100
  Pop3Buff,          \* POP3_BUFF: 4096
  Symbol,            \* characters, none of them the terminator
  Logins,            \* credentials a client may try, [user, pass]
  Texts,             \* what a server may write behind +OK and -ERR
  MaxTries,          \* logins a client tries
  Pipelined,         \* TRUE: the client does not wait for its answers
  UserAnswers        \* TRUE in it: USER may be accepted, FALSE: refused

Eol == <<"\n">>
Ok == <<"+", "o", "k">>
Err == <<"-", "e", "r", "r">>
UserWord == <<"u", "s", "e", "r", " ">>
PassWord == <<"p", "a", "s", "s", " ">>
Capa == <<"c", "a", "p", "a">>

ASSUME SnifferAssumption ==
  /\ CredentialsSize \in 1..255 /\ Pop3Buff \in Nat /\ MaxTries \in Nat
  /\ \A w \in {Eol, Ok, Err, UserWord, PassWord, Capa} : w \in Seq(Symbol)
  /\ Logins \subseteq [user : Seq(Symbol), pass : Seq(Symbol)]
  /\ Texts \subseteq Seq(Symbol)
  /\ Pipelined \in BOOLEAN /\ UserAnswers \subseteq BOOLEAN

VARIABLES
  sniffer,   \* struct pop3_sniffer; user and pass are what was stored of them
  pending,   \* what is in its buffer
  logged,    \* what log_pop3_sniff has printed
  phase,     \* what the client does next
  login,     \* what it is trying
  asked,     \* its commands that the server has not answered
  tries      \* history: each login, the verdict, and whether it was looked at
vars == <<sniffer, pending, logged, phase, login, asked, tries>>

-----------------------------------------------------------------------------
(* pop3_sniffer.c *)

\* c is the character of the word w behind the first i; behind the last one is
\* the terminator.
Matches(w, i, c) == i < Len(w) /\ w[i + 1] = c
Dec(n) == (n - 1) % 256      \* of a uint8_t

ReadOkMsg(s, c) ==
  IF ~Matches(Ok, s.read, c) THEN [s EXCEPT !.state = "POP3_FINISH"]
  ELSE IF Dec(s.remaining) = 0
       THEN [s EXCEPT !.state = "POP3_USER_COMMAND", !.read = 0, !.remaining = Len(UserWord)]
       ELSE [s EXCEPT !.read = @ + 1, !.remaining = Dec(@)]

\* Mutant: a mismatch sets only read back.
ReadCommandKeepsRemaining(s, c, w, next) ==
  IF ~Matches(w, s.read, c) THEN [s EXCEPT !.read = 0]
  ELSE IF Dec(s.remaining) = 0
       THEN [s EXCEPT !.state = next, !.read = 0, !.remaining = 0]
       ELSE [s EXCEPT !.read = @ + 1, !.remaining = Dec(@)]

\* A mismatch starts over behind the character, if anything had matched.
ReadCommand(s, c, w, next) ==
  IF ~Matches(w, s.read, c)
  THEN IF s.read = 0 THEN s ELSE [s EXCEPT !.read = 0, !.remaining = Len(w)]
  ELSE IF Dec(s.remaining) = 0
       THEN [s EXCEPT !.state = next, !.read = 0, !.remaining = 0]
       ELSE [s EXCEPT !.read = @ + 1, !.remaining = Dec(@)]

\* The characters stored in a field: the first n, and one behind them.
Kept(field, n) == SubSeq(field, 1, n)
Stored(field, n, c) == Append(Kept(field, n), c)

\* Mutant: the field may be filled once more than it has room.
ReadUserPastEnd(s, c) ==
  IF c \in {"\n", "\r"}
  THEN [s EXCEPT !.state = "POP3_PASS_COMMAND", !.user = Kept(@, s.read), !.read = 0,
                 !.remaining = Len(PassWord), !.check_read = 0]
  ELSE IF s.read <= CredentialsSize
       THEN [s EXCEPT !.user = Stored(@, s.read, c), !.read = @ + 1]
       ELSE s

ReadUser(s, c) ==
  IF c \in {"\n", "\r"}
  THEN [s EXCEPT !.state = "POP3_PASS_COMMAND", !.user = Kept(@, s.read), !.read = 0,
                 !.remaining = Len(PassWord), !.check_read = 0]
  ELSE IF s.read < CredentialsSize
       THEN [s EXCEPT !.user = Stored(@, s.read, c), !.read = @ + 1]
       ELSE s

\* Mutant: the index of the password is used on in the answer.
ReadPassKeepsIndex(s, c) ==
  IF c \in {"\n", "\r"}
  THEN [s EXCEPT !.state = "POP3_CHECK_CREDS", !.pass = Kept(@, s.read), !.check_read = 0]
  ELSE IF s.read < CredentialsSize
       THEN [s EXCEPT !.pass = Stored(@, s.read, c), !.read = @ + 1]
       ELSE s

ReadPass(s, c) ==
  IF c \in {"\n", "\r"}
  THEN [s EXCEPT !.state = "POP3_CHECK_CREDS", !.pass = Kept(@, s.read), !.read = 0,
                 !.check_read = 0]
  ELSE IF s.read < CredentialsSize
       THEN [s EXCEPT !.pass = Stored(@, s.read, c), !.read = @ + 1]
       ELSE s

\* Mutants: a refusal is not noticed; the blank behind +OK is waited for.
CheckResponseOkOnly(s, c) ==
  IF Matches(Ok, s.read, c)
  THEN [s EXCEPT !.read = @ + 1,
                 !.state = IF s.read + 1 = Len(Ok) THEN "POP3_SNIFF_SUCCESSFUL" ELSE @]
  ELSE s

CheckResponseLate(s, c) ==
  IF Matches(Ok, s.read, c)
  THEN [s EXCEPT !.read = @ + 1,
                 !.state = IF s.read = Len(Ok) THEN "POP3_SNIFF_SUCCESSFUL" ELSE @]
  ELSE IF Matches(Err, s.check_read, c)
  THEN [s EXCEPT !.check_read = @ + 1,
                 !.state = IF s.check_read + 1 = Len(Err) THEN "POP3_USER_COMMAND" ELSE @]
  ELSE s

\* After -ERR the search for USER starts with what read and remaining are:
\* the latter is 0 since PASS was found.
CheckResponse(s, c) ==
  IF Matches(Ok, s.read, c)
  THEN [s EXCEPT !.read = @ + 1,
                 !.state = IF s.read + 1 = Len(Ok) THEN "POP3_SNIFF_SUCCESSFUL" ELSE @]
  ELSE IF Matches(Err, s.check_read, c)
  THEN [s EXCEPT !.check_read = @ + 1,
                 !.state = IF s.check_read + 1 = Len(Err) THEN "POP3_USER_COMMAND" ELSE @]
  ELSE s

Final == {"POP3_FINISH", "POP3_SNIFF_SUCCESSFUL"}

ParsePop3Sniffer(s, c) ==
  CASE s.state = "POP3_INIT" -> ReadOkMsg(s, c)
    [] s.state = "POP3_USER_COMMAND" -> ReadCommand(s, c, UserWord, "POP3_READ_USER")
    [] s.state = "POP3_READ_USER" -> ReadUser(s, c)
    [] s.state = "POP3_PASS_COMMAND" -> ReadCommand(s, c, PassWord, "POP3_READ_PASS")
    [] s.state = "POP3_READ_PASS" -> ReadPass(s, c)
    [] s.state = "POP3_CHECK_CREDS" -> CheckResponse(s, c)
    [] s.state \in Final -> s

\* One turn of the loop of pop3_sniffer_consume.  It runs until the buffer is
\* empty or the state is final, before anything else happens.
Consume ==
  /\ pending # << >>
  /\ sniffer' = ParsePop3Sniffer(sniffer, Head(pending))
  /\ pending' = IF sniffer'.state \in Final THEN << >> ELSE Tail(pending)
  /\ logged' = IF sniffer'.state = "POP3_SNIFF_SUCCESSFUL"
               THEN Append(logged, [user |-> sniffer'.user, pass |-> sniffer'.pass])
               ELSE logged
  /\ UNCHANGED <<phase, login, asked, tries>>

\* sniff_pop3: copy_read and copy_write hand over what recv returned from the
\* origin and what send took for it; what the buffer has no room for is lost.
Heard(chars) == IF Len(chars) <= Pop3Buff THEN chars ELSE SubSeq(chars, 1, Pop3Buff)
Sniff(chars) ==
  /\ pending = << >>
  /\ pending' = IF sniffer.state \in Final THEN << >> ELSE Heard(chars)
  /\ UNCHANGED <<sniffer, logged>>

-----------------------------------------------------------------------------
(* The client and the server of the dialogue *)

Init ==
  /\ sniffer = [state |-> "POP3_INIT", read |-> 0, remaining |-> Len(Ok), check_read |-> 0,
                user |-> << >>, pass |-> << >>]
  /\ pending = << >>
  /\ logged = << >>
  /\ phase = "greeting"
  /\ login \in Logins
  /\ asked = << >>
  /\ tries = << >>

\* A server of another protocol says something else.
Greet(line) ==
  /\ phase = "greeting"
  /\ Sniff(line \o Eol)
  /\ phase' = IF line = Ok THEN "user" ELSE "over"
  /\ UNCHANGED <<login, asked, tries>>

MaySend == Pipelined \/ asked = << >>

SendUser(l) ==
  /\ phase = "user" /\ MaySend
  /\ Sniff(UserWord \o l.user \o Eol)
  /\ phase' = "pass" /\ login' = l
  /\ asked' = Append(asked, "USER")
  /\ UNCHANGED tries

SendPass ==
  /\ phase = "pass" /\ MaySend
  /\ Sniff(PassWord \o login.pass \o Eol)
  /\ phase' = "sent"
  /\ asked' = Append(asked, "PASS")
  /\ UNCHANGED <<login, tries>>

SendOther ==
  /\ phase \in {"user", "pass", "in"} /\ asked = << >>
  /\ Sniff(Capa \o Eol)
  /\ asked' = <<"CAPA">>
  /\ UNCHANGED <<phase, login, tries>>

\* The credentials in the sniffer's fields, cut to their size.
Cut(s) == IF Len(s) <= CredentialsSize THEN s ELSE SubSeq(s, 1, CredentialsSize)
Credentials(l) == [user |-> Cut(l.user), pass |-> Cut(l.pass)]
LookedAt ==
  /\ sniffer.state = "POP3_CHECK_CREDS"
  /\ [user |-> sniffer.user, pass |-> sniffer.pass] = Credentials(login)

AnswerUser(ok, text) ==
  /\ asked # << >> /\ Head(asked) = "USER" /\ ok \in UserAnswers
  /\ Sniff((IF ok THEN Ok ELSE Err) \o text \o Eol)
  /\ phase' = IF ok \/ phase = "sent" THEN phase ELSE "user"
  /\ asked' = Tail(asked)
  /\ UNCHANGED <<login, tries>>

AnswerPass(ok, text) ==
  /\ asked # << >> /\ Head(asked) = "PASS"
  /\ Sniff((IF ok THEN Ok ELSE Err) \o text \o Eol)
  /\ tries' = Append(tries, [login |-> login, ok |-> ok, looked |-> LookedAt])
  /\ phase' = CASE ok -> "in" [] ~ok /\ Len(tries') < MaxTries -> "user" [] OTHER -> "over"
  /\ asked' = Tail(asked)
  /\ UNCHANGED login

AnswerOther(text) ==
  /\ asked # << >> /\ Head(asked) = "CAPA"
  /\ Sniff(Ok \o text \o Eol)
  /\ asked' = Tail(asked)
  /\ UNCHANGED <<phase, login, tries>>

\* The word w is not in s, and s does not end like the beginning of it.
Quiet(s, w) ==
  /\ \A i \in 0..(Len(s) - Len(w)) : \E j \in 1..Len(w) : s[i + j] # w[j]
  /\ s # << >> => \A j \in 1..Len(w) : s[Len(s)] # w[j]

\* The dialogue of a client that waits and a server that accepts every USER, in
\* lines that the sniffer's buffer has room for, and where nothing but the two
\* commands looks like them.
PlainDialogue ==
  /\ ~Pipelined /\ UserAnswers \subseteq {TRUE}
  /\ \A l \in Logins : \A f \in {l.user, l.pass} :
       /\ Len(UserWord) + Len(f) + 1 <= Pop3Buff
       /\ \A i \in 1..Len(f) : f[i] \notin {"\n", "\r"}
       /\ Quiet(f \o Eol, UserWord)
  /\ \A text \in Texts :
       /\ Quiet(Heard(Ok \o text \o Eol), UserWord)
       /\ Quiet(Heard(Ok \o text \o Eol), PassWord)
       /\ Quiet(Heard(Err \o text \o Eol), UserWord)

Over == pending = << >> /\ phase = "over" /\ UNCHANGED vars

Client == (\E l \in Logins : SendUser(l)) \/ SendPass \/ SendOther
Server ==
  \/ \E line \in {Ok, Err, Capa} : Greet(line)
  \/ \E ok \in BOOLEAN, text \in Texts : AnswerUser(ok, text) \/ AnswerPass(ok, text)
  \/ \E text \in Texts : AnswerOther(text)

Next == Consume \/ Client \/ Server \/ Over

Spec == Init /\ [][Next]_vars

-----------------------------------------------------------------------------
(* Properties *)

SnifferState == {"POP3_INIT", "POP3_USER_COMMAND", "POP3_READ_USER", "POP3_PASS_COMMAND",
                 "POP3_READ_PASS", "POP3_CHECK_CREDS"} \cup Final
Field == {f \in Seq(Symbol) : Len(f) <= CredentialsSize}

\* The ranges of the sniffer: no field holds more characters than it has room
\* for.  (The terminator of a full field is stored one behind it.)
TypeOK ==
  /\ sniffer \in [state : SnifferState, read : 0..255, remaining : 0..255,
                  check_read : 0..255, user : Field, pass : Field]
  /\ pending \in Seq(Symbol)

\* No comparison reads behind the terminator of its word, although -ERR leaves
\* remaining at 0, from where it wraps to 255 and no longer counts the word:
\* the terminator, which no character equals, is then what stops the index.
IndexWithinWord ==
  /\ sniffer.state = "POP3_INIT" => sniffer.read <= Len(Ok)
  /\ sniffer.state = "POP3_USER_COMMAND" => sniffer.read <= Len(UserWord)
  /\ sniffer.state = "POP3_PASS_COMMAND" => sniffer.read <= Len(PassWord)
  /\ sniffer.state = "POP3_CHECK_CREDS" =>
       sniffer.read <= Len(Ok) /\ sniffer.check_read <= Len(Err)

LastTry == tries[Len(tries)]

\* What is logged are the credentials of the login the server has accepted,
\* at most once, whatever was refused before.
LoggedWereAccepted ==
  logged = << >> \/ (tries # << >> /\ LastTry.ok /\ logged = <<Credentials(LastTry.login)>>)

\* An accepted login is logged if, and only if, the sniffer had its two
\* commands when the answer came.
LoggedIffLookedAt ==
  pending = << >> /\ tries # << >> => (logged # << >> <=> LastTry.ok /\ LastTry.looked)

\* The first login is never missed, and no two in a row are.  One may be: after
\* -ERR remaining is 0, so that the next USER is read past its last character.
NeverMissesTwo ==
  \A i \in DOMAIN tries : ~tries[i].looked => i > 1 /\ tries[i - 1].looked
=============================================================================
