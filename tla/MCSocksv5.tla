------------------------------ MODULE MCSocksv5 ------------------------------
(* Small instances of Socksv5: connections are interchangeable. *)
EXTENDS Socksv5, TLC

Symmetry == Permutations(Conn)
=============================================================================
