------------------------------ MODULE MCMonitor ------------------------------
(***************************************************************************)
(* One user at the start, room for one more; names as long as they may be  *)
(* and longer; sizes on both sides of the limits; messages that are wrong  *)
(* in each place where a parser looks.                                     *)
(***************************************************************************)
EXTENDS Monitor

MCAdminUser == [name |-> <<97>>, pass |-> <<98>>]
MCInitialUsers == <<[name |-> <<117>>, pass |-> <<118>>]>>

\* a:b as the client sends it, with the newline that it does not count; a:c;
\* no user; no password.
Good == <<1, 97, 1, 98, 10>>
Bad == <<1, 97, 1, 99>>
Logins == {Good, Bad, <<0>>, <<1, 97, 0>>}

\* "1", "2 x y", "2 xx y", "2 x y z", "2 x", "3", "4 5", "4 9", "4 69" (a 5 in
\* the width of the instance), "4 x", "5"
Add == <<50, 32, 120, 32, 121, 10>>
Users == <<51, 10>>
Resize == <<52, 32, 53, 10>>
Commands ==
  {Add, Users, Resize, <<49, 10>>, <<50, 32, 120, 120, 32, 121, 10>>,
   <<50, 32, 120, 32, 121, 32, 122, 10>>, <<50, 32, 120, 10>>, <<52, 32, 57, 10>>,
   <<52, 32, 54, 57, 10>>, <<52, 32, 120, 10>>, <<53, 10>>}

\* The messages above are of the kind that clients send.
ASSUME Typed == PlainClients

\* What the digits of a number stand for, of numbers of up to three digits:
\* wrapping at each digit is wrapping once.
ASSUME Positional ==
  \A n \in 0..3 : \A d \in [1..n -> {48, 49, 52, 57}] :
    Value(d) = SumFunction([i \in 1..n |-> (d[i] - 48) * 10^(n - i)]) % SizeMod

\* One client with everything, two that change the same state, three that come
\* and go, of whom two find room or all.
MCVisits ==
  {[who |-> {1}, room |-> 1, logins |-> Logins, commands |-> Commands],
   [who |-> {1, 2}, room |-> 2, logins |-> {Good}, commands |-> {Add, Users}],
   [who |-> {1, 2, 3}, room |-> 2, logins |-> {Bad}, commands |-> {}],
   [who |-> {1, 2, 3}, room |-> 3, logins |-> {Bad}, commands |-> {}]}
=============================================================================
