----------------------------- MODULE AdminParsers -----------------------------
(***************************************************************************)
(* The parsers of the monitoring protocol, src/src/admin_auth_parser.c and *)
(* src/src/admin_request_parser.c, one byte at a time.  The memory a       *)
(* parser fills is a sequence, whose length is the parser's index.         *)
(***************************************************************************)
EXTENDS Integers, Sequences, SequencesExt

CONSTANT Null     \* a pointer that was not set

Space == 32
Newline == 10
Digits == 48..57
Digit(n) == 48 + n

-----------------------------------------------------------------------------
(* admin_auth_parser.c: length and user, length and password *)

AuthParserInit ==
  [state |-> "reading_user_len", remaining |-> 0, user |-> << >>, password |-> << >>]

FeedAuth(p, c) ==
  CASE p.state \in {"reading_user_len", "reading_pass_len"} /\ c = 0 ->
         [p EXCEPT !.state = "bad_syntax"]
    [] p.state = "reading_user_len" /\ c > 0 ->
         [p EXCEPT !.state = "reading_user", !.remaining = c]
    [] p.state = "reading_user" ->
         [p EXCEPT !.user = Append(@, c),
                   !.state = IF Len(p.user) + 1 = p.remaining THEN "reading_pass_len" ELSE @]
    [] p.state = "reading_pass_len" /\ c > 0 ->
         [p EXCEPT !.state = "reading_pass", !.remaining = c]
    [] p.state = "reading_pass" ->
         [p EXCEPT !.password = Append(@, c),
                   !.state = IF Len(p.password) + 1 = p.remaining THEN "auth_done" ELSE @]
    [] OTHER -> p

-----------------------------------------------------------------------------
(* admin_request_parser.c: a digit, arguments behind spaces, a newline *)

\* cmd_selected is what the command before has left.
RequestParserInit(cmd) ==
  [state |-> "reading_cmd", cmd_selected |-> cmd,
   user |-> Null, password |-> Null, new_buff_size |-> Null]

FeedCommand(p, c) ==
  [p EXCEPT !.cmd_selected = c,
            !.state = CASE c = Digit(1) -> "reading_metrics_cmd"
                        [] c = Digit(2) -> "reading_add_user_cmd"
                        [] c = Digit(3) -> "reading_list_user_cmd"
                        [] c = Digit(4) -> "reading_change_buff_size_cmd"
                        [] OTHER -> "invalid_cmd"]

FeedUser(p, c) ==
  CASE c = Space -> [p EXCEPT !.password = << >>, !.state = "reading_pass"]
    [] c = Newline -> [p EXCEPT !.state = "invalid_cmd"]
    [] OTHER -> [p EXCEPT !.user = Append(@, c)]

FeedPass(p, c) ==
  CASE c = Space -> [p EXCEPT !.state = "invalid_cmd"]
    [] c = Newline -> [p EXCEPT !.state = "done"]
    [] OTHER -> [p EXCEPT !.password = Append(@, c)]

FeedSize(p, c) ==
  CASE c = Newline -> [p EXCEPT !.state = "done"]
    [] c \in Digits -> [p EXCEPT !.new_buff_size = Append(@, c)]
    [] OTHER -> [p EXCEPT !.state = "invalid_cmd"]

FeedRequest(p, c) ==
  CASE p.state = "reading_cmd" -> FeedCommand(p, c)
    [] p.state = "reading_add_user_cmd" ->
         IF c = Space THEN [p EXCEPT !.user = << >>, !.state = "reading_user"]
         ELSE [p EXCEPT !.state = "invalid_cmd"]
    [] p.state = "reading_user" -> FeedUser(p, c)
    [] p.state = "reading_pass" -> FeedPass(p, c)
    [] p.state = "reading_change_buff_size_cmd" ->
         IF c = Space THEN [p EXCEPT !.new_buff_size = << >>, !.state = "reading_buff_size"]
         ELSE [p EXCEPT !.state = "invalid_cmd"]
    [] p.state = "reading_buff_size" -> FeedSize(p, c)
    [] p.state \in {"reading_metrics_cmd", "reading_list_user_cmd"} ->
         [p EXCEPT !.state = IF c = Newline THEN "done" ELSE "invalid_cmd"]
    [] OTHER -> p

-----------------------------------------------------------------------------
(* admin_consume_auth_buffer and admin_consume_req_buffer: the parser after *)
(* the bytes, and how many of them the loop has taken.  An invalid command  *)
(* does not break it.  (Sets of one element make TLC evaluate a parser      *)
(* once.)                                                                   *)

AuthFinal == {"auth_done", "bad_syntax"}

AuthFed(p, bytes) ==
  LET run[i \in 0..Len(bytes)] ==
        IF i = 0 THEN [pars |-> p, taken |-> 0]
        ELSE CHOOSE r \in {IF before.pars.state \in AuthFinal THEN before
                           ELSE [pars |-> FeedAuth(before.pars, bytes[i]), taken |-> i] :
                             before \in {run[i - 1]}} : TRUE
  IN run[Len(bytes)]

RequestFed(p, bytes) ==
  LET run[i \in 0..Len(bytes)] ==
        IF i = 0 THEN [pars |-> p, taken |-> 0]
        ELSE CHOOSE r \in {IF before.pars.state = "done" THEN before
                           ELSE [pars |-> FeedRequest(before.pars, bytes[i]), taken |-> i] :
                             before \in {run[i - 1]}} : TRUE
  IN run[Len(bytes)]
=============================================================================
