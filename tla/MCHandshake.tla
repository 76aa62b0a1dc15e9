----------------------------- MODULE MCHandshake -----------------------------
(***************************************************************************)
(* The streams of the small instance: every way each message can be right  *)
(* or wrong, a name that is longer and one that is shorter than its        *)
(* password, every kind of address, and data behind the request.           *)
(***************************************************************************)
EXTENDS HandshakeParsers

MCUsers == {<< <<97, 98>>, <<99>> >>, << <<97>>, <<98, 99>> >>}

RefusedGreetings == {<<4>>, <<5, 0>>, <<5, 1, 9>>}
OpenGreetings == {<<5, 1, 0>>, <<5, 2, 9, 0>>}
AuthGreetings == {<<5, 1, 2>>, <<5, 3, 2, 9, 0>>}

Auths == {<<1, 2, 97, 98, 1, 99>>, <<1, 1, 97, 2, 98, 99>>,
          <<1, 2, 97, 98, 2, 99, 99>>, <<2>>, <<1, 0>>, <<1, 1, 97, 0>>}

Requests == {<<5, 1, 0, 1, 10, 0, 0, 1, 0, 80>>,
             <<5, 1, 0, 3, 2, 120, 121, 255, 255>>,
             <<5, 1, 0, 3, 0, 0, 80>>,
             <<5, 1, 0, 4>> \o [i \in 1..16 |-> i] \o <<1, 187>>,
             <<4>>, <<5, 2>>, <<5, 1, 1>>, <<5, 1, 0, 2>>}

Tails == {<< >>, <<5, 1>>}

MCStreams ==
  {g \o t : g \in RefusedGreetings, t \in Tails}
  \cup {g \o r \o t : g \in OpenGreetings, r \in Requests, t \in Tails}
  \cup {g \o a \o r \o t : g \in AuthGreetings, a \in Auths, r \in Requests, t \in Tails}
=============================================================================
