---------------------------- MODULE SelectorTable ----------------------------
(***************************************************************************)
(* The item table of src/src/selector.c: for every registered descriptor   *)
(* the attachment it belongs to and the operations it is interested in.    *)
(* A table is a function from descriptors to items; the callers hold it in *)
(* a variable and replace it by the value these operators return.          *)
(***************************************************************************)
EXTENDS Integers

CONSTANT ItemsMax      \* ITEMS_MAX_SIZE, FD_SETSIZE: 1024

ASSUME ItemsMaxAssumption == ItemsMax \in Nat

NoFd == -1
Nobody == "nobody"
Interest == SUBSET {"OP_READ", "OP_WRITE"}
Unused == [owner |-> Nobody, interest |-> {}]

ValidFd(fd) == fd >= 0 /\ fd < ItemsMax                   \* ~INVALID_FD
Used(t, fd) == fd \in DOMAIN t /\ ValidFd(fd) /\ t[fd].owner # Nobody

\* selector_register succeeds: neither SELECTOR_IARGS nor SELECTOR_FDINUSE
CanRegister(t, fd) == ValidFd(fd) /\ ~Used(t, fd)
Register(t, fd, i, o) == [t EXCEPT ![fd] = [owner |-> o, interest |-> i]]

\* Mutant: item_init is forgotten, the attachment stays in the table.
UnregisterKeeps(t, fds) ==
  [fd \in DOMAIN t |-> IF fd \in fds THEN [t[fd] EXCEPT !.interest = {}] ELSE t[fd]]

Unregister(t, fds) == [fd \in DOMAIN t |-> IF fd \in fds THEN Unused ELSE t[fd]]

\* Mutant: the operations are added to those already of interest.
SetInterestAdds(t, fd, i) == [t EXCEPT ![fd].interest = @ \cup i]

\* selector_set_interest and its two incremental forms, on a used item
SetInterest(t, fd, i) == [t EXCEPT ![fd].interest = i]
Additive(t, fd, i) == [t EXCEPT ![fd].interest = @ \cup {i}]
Reduction(t, fd, i) == [t EXCEPT ![fd].interest = @ \ {i}]
=============================================================================
