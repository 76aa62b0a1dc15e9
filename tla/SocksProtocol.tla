---------------------------- MODULE SocksProtocol ----------------------------
(***************************************************************************)
(* What the proxy promises its clients, without selector, descriptors or   *)
(* threads: every client goes through the phases of RFC 1928 in order, is  *)
(* never granted a link that is known to have failed, has its bytes passed *)
(* on only over a link, and no more than MaxConn clients are served at a   *)
(* time.                                                                   *)
(***************************************************************************)
EXTENDS Naturals, FiniteSets

CONSTANTS Conn, MaxConn

VARIABLES
  phase,     \* where the dialogue with each client is
  link       \* the connection to the origin of each client
vars == <<phase, link>>

Init == phase = [c \in Conn |-> "idle"] /\ link = [c \in Conn |-> "none"]

Served == {c \in Conn : phase[c] # "idle"}

Arrive(c) ==
  /\ phase[c] = "idle" /\ Cardinality(Served) < MaxConn
  /\ phase' = [phase EXCEPT ![c] = "greeting"]
  /\ UNCHANGED link

\* "welcome": the client is about to be told that it may send its request.
\* "leaving": it was refused, and only its disconnection can follow.
Edge ==
  {<<"greeting", "auth">>, <<"greeting", "welcome">>, <<"greeting", "leaving">>,
   <<"auth", "welcome">>, <<"auth", "leaving">>, <<"welcome", "request">>,
   <<"request", "connecting">>, <<"request", "granting">>, <<"request", "leaving">>,
   <<"connecting", "granting">>, <<"connecting", "leaving">>,
   <<"granting", "relaying">>}

\* "request" to "granting": there was no descriptor for a link, and the client
\* is told otherwise; it goes from there without being served.
Advance(c, p) ==
  /\ <<phase[c], p>> \in Edge
  /\ p = "granting" =>
       link[c] \in IF phase[c] = "request" THEN {"none"} ELSE {"pending", "up"}
  /\ p = "relaying" => link[c] # "none"
  /\ phase' = [phase EXCEPT ![c] = p]
  /\ UNCHANGED link

\* A connection attempt starts, the first one or after one that failed.
Dial(c, l) ==
  /\ phase[c] \in {"request", "connecting"} /\ link[c] \in {"none", "refused"}
  /\ link' = [link EXCEPT ![c] = l]
  /\ \E p \in {"connecting", "leaving"} :
       /\ p = "leaving" => l = "refused"
       /\ phase' = [phase EXCEPT ![c] = p]

Answer(c, l) ==
  /\ link[c] = "pending"
  /\ link' = [link EXCEPT ![c] = l]
  /\ UNCHANGED phase

Leave(c) ==
  /\ phase[c] # "idle"
  /\ phase' = [phase EXCEPT ![c] = "idle"]
  /\ link' = [link EXCEPT ![c] = "none"]

Shutdown == phase' = [c \in Conn |-> "idle"] /\ link' = [c \in Conn |-> "none"]

Next ==
  \/ Shutdown
  \/ \E c \in Conn :
       \/ Arrive(c) \/ Leave(c)
       \/ \E e \in Edge : Advance(c, e[2])
       \/ \E l \in {"pending", "up", "refused"} : Dial(c, l)
       \/ \E l \in {"up", "refused"} : Answer(c, l)

Spec == Init /\ [][Next]_vars
=============================================================================
