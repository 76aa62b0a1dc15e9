---------------------------- MODULE SelectorArray ----------------------------
(***************************************************************************)
(* src/src/selector.c inside: the array of items, the sets that pselect    *)
(* is given, and the walk over the array, in which callbacks register,     *)
(* unregister and change the interest of any descriptor.                   *)
(***************************************************************************)
EXTENDS Integers

CONSTANTS
  ItemsMax,          \* ITEMS_MAX_SIZE
  InitialElements,   \* the argument of selector_new; main.c gives ITEMS_MAX_SIZE
  Owner              \* attachments

Op == {"OP_READ", "OP_WRITE"}
FdUnused == -1
NoData == "no data"

ASSUME ArrayAssumption ==
  ItemsMax \in Nat \ {0} /\ InitialElements \in 0..ItemsMax /\ NoData \notin Owner
  /\ "nobody" \notin Owner

VARIABLES
  fds,                  \* the array
  fd_size,
  max_fd,
  master_r, master_w,   \* what is of interest
  slave_r, slave_w,     \* what pselect has left of them
  walking,              \* handle_iteration is running,
  n, i, turn,           \* its bound, its index and the handler it is about to call
  due                   \* history: what pselect reported, was neither handled nor
                        \* changed since
table == <<fds, fd_size, max_fd, master_r, master_w>>
walk == <<slave_r, slave_w, walking, n, i, turn>>
vars == <<table, walk, due>>

-----------------------------------------------------------------------------
(* The array *)

ItemInit == [fd |-> FdUnused, interest |-> {}, data |-> NoData]
ItemUsed(item) == item.fd # FdUnused
Used(fd) == fd \in DOMAIN fds /\ ItemUsed(fds[fd])
Fd == 0..(ItemsMax - 1)                                    \* ~INVALID_FD

PowersOf2 == {2^b : b \in 0..ItemsMax}
Least(S) == CHOOSE m \in S : \A x \in S : m <= x

\* Mutant: a shift less, and no slack.
NextCapacityBelow(k) == Least({p \in PowersOf2 : k < 2 * p} \cup {ItemsMax})

\* The power of two above, but ItemsMax at most, and one more.
NextCapacity(k) == Least({p \in PowersOf2 : k < p} \cup {ItemsMax}) + 1

\* ensure_capacity, of which fd_size is what stays
EnsureCapacity(k) == IF k < fd_size THEN fd_size ELSE NextCapacity(k)
Grown(size) == [k \in 0..(size - 1) |-> IF k \in DOMAIN fds THEN fds[k] ELSE ItemInit]

\* items_max_fd; last is the highest one so far
ItemsMaxFd(items, last) ==
  IF \A fd \in 0..last : ~ItemUsed(items[fd]) THEN 0
  ELSE CHOOSE m \in 0..last : /\ ItemUsed(items[m])
                              /\ \A fd \in 0..last : ItemUsed(items[fd]) => fd <= m

\* items_update_fdset_for_fd
UpdateFdset(item) ==
  /\ master_r' = (master_r \ {item.fd})
                   \cup (IF ItemUsed(item) /\ "OP_READ" \in item.interest THEN {item.fd} ELSE {})
  /\ master_w' = (master_w \ {item.fd})
                   \cup (IF ItemUsed(item) /\ "OP_WRITE" \in item.interest THEN {item.fd} ELSE {})

-----------------------------------------------------------------------------
(* The calls.  One that returns an error changes nothing. *)

\* What was reported of other descriptors is still due, and of this one what is
\* still of interest.
StillDue(fd, interest) == {d \in due : d[1] # fd \/ d[2] \in interest}

Register(fd, interest, data) ==
  LET size == IF fd > fd_size THEN EnsureCapacity(fd) ELSE fd_size
      item == [fd |-> fd, interest |-> interest, data |-> data]
  IN /\ ~Used(fd)
     /\ fd_size' = size
     /\ fds' = [Grown(size) EXCEPT ![fd] = item]
     /\ max_fd' = IF fd > max_fd THEN fd ELSE max_fd
     /\ UpdateFdset(item)
     /\ UNCHANGED <<walk, due>>

\* Mutant: the item is initialised before the sets are updated.
UnregisterClearsLate(fd) ==
  /\ Used(fd)
  /\ UpdateFdset(ItemInit)
  /\ fds' = [fds EXCEPT ![fd] = ItemInit]
  /\ max_fd' = ItemsMaxFd(fds', max_fd)
  /\ due' = StillDue(fd, {})
  /\ UNCHANGED <<fd_size, walk>>

\* Mutant: the highest descriptor is not looked for.
UnregisterKeepsMax(fd) ==
  /\ Used(fd)
  /\ UpdateFdset([fds[fd] EXCEPT !.interest = {}])
  /\ fds' = [fds EXCEPT ![fd] = ItemInit]
  /\ due' = StillDue(fd, {})
  /\ UNCHANGED <<fd_size, max_fd, walk>>

\* Mutant: memset without item_init, which leaves an item that is in use.
UnregisterZeroes(fd) ==
  /\ Used(fd)
  /\ UpdateFdset([fds[fd] EXCEPT !.interest = {}])
  /\ fds' = [fds EXCEPT ![fd] = [ItemInit EXCEPT !.fd = 0]]
  /\ max_fd' = ItemsMaxFd(fds', max_fd)
  /\ due' = StillDue(fd, {})
  /\ UNCHANGED <<fd_size, walk>>

Unregister(fd) ==
  /\ Used(fd)
  /\ UpdateFdset([fds[fd] EXCEPT !.interest = {}])
  /\ fds' = [fds EXCEPT ![fd] = ItemInit]
  /\ max_fd' = ItemsMaxFd(fds', max_fd)
  /\ due' = StillDue(fd, {})
  /\ UNCHANGED <<fd_size, walk>>

ChangeInterest(fd, interest) ==
  /\ Used(fd)
  /\ fds' = [fds EXCEPT ![fd].interest = interest]
  /\ UpdateFdset([fds[fd] EXCEPT !.interest = interest])
  /\ due' = StillDue(fd, interest)
  /\ UNCHANGED <<fd_size, max_fd, walk>>

SetInterest(fd, interest) == ChangeInterest(fd, interest)

\* selector_set_interest_additive: a first interest, or a second one
Additive(fd, op) ==
  ChangeInterest(fd, CASE fds[fd].interest = {} -> {op}
                       [] fds[fd].interest = Op \ {op} -> Op
                       [] OTHER -> fds[fd].interest)

\* selector_set_interest_reduction: one of two, or the only one
Reduction(fd, op) ==
  ChangeInterest(fd, CASE fds[fd].interest = Op -> Op \ {op}
                       [] fds[fd].interest = {op} -> {}
                       [] OTHER -> fds[fd].interest)

-----------------------------------------------------------------------------
(* selector_select and handle_iteration *)

\* Mutant: one descriptor less.
BoundBelow == max_fd - 1

\* int n = s->max_fd
Bound == max_fd

\* pselect(max_fd + 1, ...) reports some of what is of interest.
Select(r, w) ==
  /\ ~walking
  /\ r \in SUBSET (master_r \cap 0..max_fd) /\ w \in SUBSET (master_w \cap 0..max_fd)
  /\ slave_r' = r /\ slave_w' = w
  /\ walking' = TRUE /\ n' = Bound /\ i' = 0 /\ turn' = "OP_READ"
  /\ due' = (r \X {"OP_READ"}) \cup (w \X {"OP_WRITE"})
  /\ UNCHANGED table

Handled(op, slave) ==
  due' = IF i \in slave /\ op \in fds[i].interest THEN due \ {<<i, op>>} ELSE due

VisitRead ==
  /\ walking /\ i <= n /\ turn = "OP_READ"
  /\ IF ItemUsed(fds[i]) THEN Handled("OP_READ", slave_r) /\ turn' = "OP_WRITE" /\ UNCHANGED i
     ELSE i' = i + 1 /\ UNCHANGED <<turn, due>>
  /\ UNCHANGED <<table, slave_r, slave_w, walking, n>>

VisitWrite ==
  /\ walking /\ i <= n /\ turn = "OP_WRITE"
  /\ Handled("OP_WRITE", slave_w)
  /\ i' = i + 1 /\ turn' = "OP_READ"
  /\ UNCHANGED <<table, slave_r, slave_w, walking, n>>

EndIteration ==
  /\ walking /\ i > n
  /\ walking' = FALSE /\ slave_r' = {} /\ slave_w' = {} /\ n' = 0 /\ i' = 0
  /\ UNCHANGED <<table, turn, due>>

-----------------------------------------------------------------------------
Init ==
  /\ fd_size = NextCapacity(InitialElements)
  /\ fds = [k \in 0..(fd_size - 1) |-> ItemInit]
  /\ max_fd = 0
  /\ master_r = {} /\ master_w = {} /\ slave_r = {} /\ slave_w = {}
  /\ walking = FALSE /\ n = 0 /\ i = 0 /\ turn = "OP_READ"
  /\ due = {}

Call(fd) ==
  \/ \E interest \in SUBSET Op : SetInterest(fd, interest)
                                 \/ \E data \in Owner : Register(fd, interest, data)
  \/ Unregister(fd)
  \/ \E op \in Op : Additive(fd, op) \/ Reduction(fd, op)

Next ==
  \/ \E fd \in Fd : Call(fd)
  \/ \E r, w \in SUBSET Fd : Select(r, w)
  \/ VisitRead \/ VisitWrite \/ EndIteration

Spec == Init /\ [][Next]_vars

-----------------------------------------------------------------------------
(* Properties *)

TypeOK ==
  /\ fd_size \in Nat
  /\ fds \in [0..(fd_size - 1) -> [fd : Fd \cup {FdUnused}, interest : SUBSET Op,
                                   data : Owner \cup {NoData}]]
  /\ max_fd \in Fd /\ n \in Fd /\ i \in 0..ItemsMax
  /\ master_r \subseteq Fd /\ master_w \subseteq Fd
  /\ slave_r \subseteq Fd /\ slave_w \subseteq Fd
  /\ walking \in BOOLEAN /\ turn \in Op
  /\ due \subseteq Fd \X Op

\* No index of the array reaches its size, although selector_register compares
\* the descriptor with > where the last element is at fd_size - 1.
InBounds == max_fd < fd_size /\ n < fd_size

\* The sets that pselect is given are exactly the interests in the array,
\* through any sequence of calls.
MasterExact ==
  /\ master_r = {fd \in Fd : Used(fd) /\ "OP_READ" \in fds[fd].interest}
  /\ master_w = {fd \in Fd : Used(fd) /\ "OP_WRITE" \in fds[fd].interest}

\* max_fd is the highest registered descriptor: pselect watches all of them,
\* and no more than it has to.
MaxFdExact ==
  /\ \A fd \in Fd : Used(fd) => fd <= max_fd
  /\ max_fd # 0 => Used(max_fd)

\* Whatever callbacks register, unregister and change during the walk, it
\* passes over no descriptor that was reported and is still of interest.
NonePassedOver == (walking => i <= n) \/ due = {}

\* The array implements the table of SelectorTable.
TableOf ==
  [fd \in Fd |-> IF Used(fd) THEN [owner |-> fds[fd].data, interest |-> fds[fd].interest]
                 ELSE [owner |-> "nobody", interest |-> {}]]
Abstract == INSTANCE SelectorSpec WITH table <- TableOf
TableRefined == Abstract!Spec
=============================================================================
