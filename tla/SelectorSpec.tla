----------------------------- MODULE SelectorSpec -----------------------------
(***************************************************************************)
(* What src/headers/selector.h offers its callers: a table of descriptors, *)
(* changed by one call at a time.  Socksv5 rests on this table.            *)
(***************************************************************************)
EXTENDS SelectorTable

CONSTANT Owner     \* attachments

VARIABLE table

Fd == 0..(ItemsMax - 1)

Init == table = [fd \in Fd |-> Unused]

Registers(fd, i, o) == CanRegister(table, fd) /\ table' = Register(table, fd, i, o)
Unregisters(fd) == Used(table, fd) /\ table' = Unregister(table, {fd})
SetsInterest(fd, i) == Used(table, fd) /\ table' = SetInterest(table, fd, i)
Adds(fd, op) == Used(table, fd) /\ table' = Additive(table, fd, op)
Removes(fd, op) == Used(table, fd) /\ table' = Reduction(table, fd, op)

Next ==
  \E fd \in Fd :
    \/ \E i \in Interest : SetsInterest(fd, i) \/ \E o \in Owner : Registers(fd, i, o)
    \/ Unregisters(fd)
    \/ \E op \in {"OP_READ", "OP_WRITE"} : Adds(fd, op) \/ Removes(fd, op)

Spec == Init /\ [][Next]_table
=============================================================================
