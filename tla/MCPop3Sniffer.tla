---------------------------- MODULE MCPop3Sniffer ----------------------------
(***************************************************************************)
(* Names that are shorter and longer than the fields, and that begin like  *)
(* the words that are looked for; answers with and without a u in them,    *)
(* and one that is longer than the sniffer's buffer.                       *)
(***************************************************************************)
EXTENDS Pop3Sniffer

MCSymbol == {"a", "b", "c", "e", "k", "n", "o", "p", "r", "s", "u", "+", "-", " ", "\n"}

MCLogins ==
  {[user |-> <<"a">>, pass |-> <<"u", "s">>],
   [user |-> <<"u", "s", "e", "r", "s">>, pass |-> <<"p", "a", "s", "s">>]}

MCTexts == {<< >>, <<" ", "n", "o">>, <<" ", "b", "u", "a">>, [i \in 1..12 |-> "c"]}

\* The dialogue is one that the theorems are about.
ASSUME Plain == PlainDialogue
=============================================================================
