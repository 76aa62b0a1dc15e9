------------------------ MODULE SelectorArray_proofs ------------------------
(* Proofs about the selector's array, for every number of descriptors and   *)
(* of attachments, given an array that has room for all descriptors.         *)
EXTENDS SelectorArray, WellFoundedInduction, TLAPS

-----------------------------------------------------------------------------
(* The highest descriptor *)

\* Every set of naturals that is not empty has a least element.
LEMMA LeastExists ==
  ASSUME NEW T \in SUBSET Nat, T # {}
  PROVE  \E x \in T : \A y \in T : x <= y
<1> DEFINE R == OpToRel(<, Nat)
<1>1. IsWellFoundedOn(R, Nat)
  BY NatLessThanWellFounded
<1>2. \A x, y \in Nat : y < x => <<y, x>> \in R
  BY DEF OpToRel
<1> HIDE DEF R
<1>3. PICK x \in T : \A y \in T : ~ (<<y, x>> \in R)
  BY <1>1, WFMin
<1>4. \A y \in T : ~ (y < x)
  BY <1>2, <1>3
<1>5. \A y \in T : x <= y
  BY <1>4
<1> QED
  BY <1>5

\* Of some of the first descriptors one is the highest.
LEMMA HighestExists ==
  ASSUME NEW last \in Nat, NEW T \in SUBSET (0..last), T # {}
  PROVE  \E m \in T : \A x \in T : x <= m
<1> DEFINE D == {last - x : x \in T}
<1>1. D \in SUBSET Nat /\ D # {}
  <2>1. \A x \in T : x \in Nat /\ last - x \in Nat
    OBVIOUS
  <2>2. PICK x \in T : TRUE
    OBVIOUS
  <2>3. last - x \in D
    OBVIOUS
  <2> QED
    BY <2>1, <2>3
<1>2. PICK d \in D : \A y \in D : d <= y
  BY <1>1, LeastExists
<1>3. PICK m \in T : d = last - m
  BY <1>2
<1>4. \A x \in T : last - m <= last - x
  BY <1>2, <1>3
<1>5. \A x \in T : x <= m
  BY <1>4
<1> QED
  BY <1>5

\* items_max_fd returns the highest used item up to the last one, or 0.
LEMMA ItemsMaxFdHighest ==
  ASSUME NEW items, NEW last \in Nat
  PROVE  /\ ItemsMaxFd(items, last) \in 0..last
         /\ \A fd \in 0..last : ItemUsed(items[fd]) => fd <= ItemsMaxFd(items, last)
         /\ ItemsMaxFd(items, last) # 0 => ItemUsed(items[ItemsMaxFd(items, last)])
<1> DEFINE T == {fd \in 0..last : ItemUsed(items[fd])}
<1>1. CASE \A fd \in 0..last : ~ItemUsed(items[fd])
  BY <1>1 DEF ItemsMaxFd
<1>2. CASE ~ \A fd \in 0..last : ~ItemUsed(items[fd])
  <2>1. T # {} /\ T \in SUBSET (0..last)
    BY <1>2
  <2>2. PICK h \in T : \A x \in T : x <= h
    BY <2>1, HighestExists
  <2>3. \E m \in 0..last : /\ ItemUsed(items[m])
                           /\ \A fd \in 0..last : ItemUsed(items[fd]) => fd <= m
    BY <2>2
  <2> QED
    BY <1>2, <2>3 DEF ItemsMaxFd
<1> QED
  BY <1>1, <1>2

-----------------------------------------------------------------------------
(* The invariant *)

\* The array that main.c asks for, which registration never has to grow.
FullArray == InitialElements = ItemsMax

LEMMA Roomy ==
  ASSUME FullArray PROVE NextCapacity(InitialElements) = ItemsMax + 1
<1> USE ArrayAssumption
<1> DEFINE S == {p \in PowersOf2 : ItemsMax < p} \cup {ItemsMax}
<1>1. PowersOf2 \subseteq Int
  BY DEF PowersOf2
<1>2. \A x \in S : x \in Int /\ ItemsMax <= x
  BY <1>1
<1>3. ItemsMax \in S
  OBVIOUS
<1> HIDE DEF S
<1>4. Least(S) \in S /\ \A x \in S : Least(S) <= x
  BY <1>2, <1>3 DEF Least
<1>5. Least(S) = ItemsMax
  <2>1. Least(S) \in Int /\ ItemsMax <= Least(S) /\ Least(S) <= ItemsMax
    BY <1>2, <1>3, <1>4
  <2> HIDE DEF Least
  <2> QED
    BY <2>1
<1> QED
  BY <1>5 DEF FullArray, NextCapacity, S

\* Every item is at the index of its descriptor.
Slots == \A k \in 0..(fd_size - 1) : fds[k].fd \in {k, FdUnused}

\* What is due lies ahead of the walk, and is still of interest.
DueAhead ==
  walking => \A fd \in Fd, op \in Op : <<fd, op>> \in due =>
    /\ Used(fd) /\ op \in fds[fd].interest
    /\ fd \in (IF op = "OP_READ" THEN slave_r ELSE slave_w)
    /\ fd <= n /\ i <= fd
    /\ i = fd => turn = "OP_READ" \/ op = "OP_WRITE"

Rested == ~walking => due = {}

IInv ==
  /\ TypeOK /\ fd_size >= ItemsMax
  /\ Slots /\ MasterExact /\ MaxFdExact /\ DueAhead /\ Rested

LEMMA InitIInv ==
  ASSUME FullArray, Init PROVE IInv
<1> USE ArrayAssumption DEF Init, Fd
<1>1. fd_size \in Nat /\ fd_size >= ItemsMax
  BY Roomy
<1>2. TypeOK
  <2>1. ItemInit \in [fd : Fd \cup {FdUnused}, interest : SUBSET Op, data : Owner \cup {NoData}]
    BY DEF ItemInit
  <2>2. 0 \in Fd /\ 0 \in 0..ItemsMax /\ turn \in Op
    BY DEF Op
  <2> QED
    BY <1>1, <2>1, <2>2 DEF TypeOK
<1>3. \A fd \in Fd : ~Used(fd)
  BY <1>1 DEF Used, ItemUsed, ItemInit
<1>4. Slots
  BY <1>1 DEF Slots, ItemInit
<1>5. MasterExact /\ MaxFdExact
  BY <1>3 DEF MasterExact, MaxFdExact
<1> QED
  BY <1>1, <1>2, <1>4, <1>5 DEF IInv, DueAhead, Rested

\* What a state of the invariant says of one descriptor.
LEMMA UsedSlot ==
  ASSUME IInv, NEW fd \in Fd
  PROVE  /\ fd \in 0..(fd_size - 1) /\ fd_size \in Nat /\ DOMAIN fds = 0..(fd_size - 1)
         /\ Used(fd) <=> fds[fd].fd # FdUnused
         /\ Used(fd) => fds[fd].fd = fd
<1> USE ArrayAssumption
<1>1. fd_size \in Nat /\ fd_size >= ItemsMax /\ DOMAIN fds = 0..(fd_size - 1)
  BY DEF IInv, TypeOK
<1>2. fd \in 0..(fd_size - 1)
  BY <1>1 DEF Fd
<1>3. fds[fd].fd \in {fd, FdUnused}
  BY <1>2 DEF IInv, Slots
<1> QED
  BY <1>1, <1>2, <1>3 DEF Used, ItemUsed

\* The part of the invariant that speaks of the table alone.
TableInv ==
  /\ fd_size \in Nat /\ fd_size >= ItemsMax
  /\ fds \in [0..(fd_size - 1) -> [fd : Fd \cup {FdUnused}, interest : SUBSET Op,
                                   data : Owner \cup {NoData}]]
  /\ max_fd \in Fd /\ master_r \subseteq Fd /\ master_w \subseteq Fd
  /\ Slots /\ MasterExact /\ MaxFdExact

WalkInv ==
  /\ n \in Fd /\ i \in 0..ItemsMax /\ slave_r \subseteq Fd /\ slave_w \subseteq Fd
  /\ walking \in BOOLEAN /\ turn \in Op /\ due \subseteq Fd \X Op
  /\ DueAhead /\ Rested

LEMMA InTwo == IInv <=> TableInv /\ WalkInv
BY DEF IInv, TypeOK, TableInv, WalkInv

LEMMA InTwoNext == IInv' <=> TableInv' /\ WalkInv'
BY DEF IInv, TypeOK, TableInv, WalkInv, Fd

\* The masters follow the item that update_fdset was called for, when no other
\* item has changed.
LEMMA MasterFollows ==
  ASSUME IInv, NEW fd \in Fd, NEW item,
         item.fd = fd, item.interest \in SUBSET Op, UpdateFdset(item),
         DOMAIN fds' = DOMAIN fds,
         \A k \in DOMAIN fds : k # fd => fds'[k] = fds[k],
         \/ ItemUsed(fds'[fd]) /\ fds'[fd].interest = item.interest
         \/ ~ItemUsed(fds'[fd]) /\ item.interest = {}
  PROVE  MasterExact'
<1> USE ArrayAssumption
<1>1. fd \in DOMAIN fds /\ fd # FdUnused
  BY UsedSlot DEF Fd, FdUnused
<1>2. ItemUsed(item)
  BY <1>1 DEF ItemUsed
<1>3. \A k \in Fd : k # fd => (Used(k)' <=> Used(k))
  BY DEF Used, ItemUsed
<1>4. Used(fd)' <=> ItemUsed(fds'[fd])
  BY <1>1 DEF Used, ItemUsed
<1>5. \A k \in Fd : k # fd /\ Used(k) => fds'[k] = fds[k]
  BY DEF Used
<1>6. \A k \in Fd : k \in master_r' <=> Used(k)' /\ "OP_READ" \in fds'[k].interest
  BY <1>2, <1>3, <1>4, <1>5 DEF UpdateFdset, IInv, MasterExact
<1>7. \A k \in Fd : k \in master_w' <=> Used(k)' /\ "OP_WRITE" \in fds'[k].interest
  BY <1>2, <1>3, <1>4, <1>5 DEF UpdateFdset, IInv, MasterExact
<1>8. master_r' \subseteq Fd /\ master_w' \subseteq Fd
  BY DEF UpdateFdset, IInv, TypeOK
<1> QED
  BY <1>6, <1>7, <1>8 DEF MasterExact

LEMMA RegisterStep ==
  ASSUME IInv, NEW fd \in Fd, NEW interest \in SUBSET Op, NEW data \in Owner,
         Register(fd, interest, data)
  PROVE  IInv'
<1> USE ArrayAssumption
<1> DEFINE item == [fd |-> fd, interest |-> interest, data |-> data]
<1>1. fd \in 0..(fd_size - 1) /\ fd_size \in Nat /\ DOMAIN fds = 0..(fd_size - 1) /\ ~(fd > fd_size)
  BY UsedSlot DEF Fd
<1>2. fd_size' = fd_size
  BY <1>1 DEF Register
<1>3. fds' = [fds EXCEPT ![fd] = item]
  <2>1. fds' = [Grown(fd_size) EXCEPT ![fd] = item]
    BY <1>1 DEF Register
  <2>2. fds \in [0..(fd_size - 1) -> [fd : Fd \cup {FdUnused}, interest : SUBSET Op,
                                    data : Owner \cup {NoData}]]
    BY DEF IInv, TypeOK
  <2>3. Grown(fd_size) = fds
    BY <1>1, <2>2 DEF Grown
  <2> QED
    BY <2>1, <2>3
<1>4. DOMAIN fds' = DOMAIN fds /\ fds'[fd] = item /\ \A k \in DOMAIN fds : k # fd => fds'[k] = fds[k]
  BY <1>1, <1>3
<1>5. ~Used(fd) /\ UpdateFdset(item) /\ max_fd' = (IF fd > max_fd THEN fd ELSE max_fd)
      /\ UNCHANGED <<walk, due>>
  BY DEF Register
<1>6. ItemUsed(item) /\ item.fd = fd /\ item.interest = interest
  BY DEF ItemUsed, Fd, FdUnused
<1>7. MasterExact'
  BY <1>4, <1>5, <1>6, MasterFollows
<1>8. \A k \in Fd : Used(k)' <=> k = fd \/ Used(k)
  BY <1>1, <1>4, <1>6 DEF Used, ItemUsed
<1>9. MaxFdExact' /\ max_fd' \in Fd
  <2>1. max_fd \in Fd /\ fd \in Nat /\ max_fd \in Nat
    BY DEF IInv, TypeOK, Fd
  <2>2. \A k \in Fd : Used(k)' => k <= max_fd'
    <3>1. \A k \in Fd : Used(k) => k <= max_fd
      BY DEF IInv, MaxFdExact
    <3> QED
      BY <1>5, <1>8, <2>1, <3>1 DEF Fd
  <2>3. max_fd' # 0 => max_fd' = fd \/ Used(max_fd')
    <3>1. max_fd # 0 => Used(max_fd)
      BY DEF IInv, MaxFdExact
    <3> QED
      BY <1>5, <3>1
  <2>4. max_fd' \in Fd
    BY <1>5, <2>1
  <2>5. max_fd' # 0 => (Used(max_fd))'
    <3>1. max_fd' # 0 => (ItemUsed(fds'[max_fd']) /\ max_fd' \in DOMAIN fds')
      BY <1>1, <1>4, <1>6, <2>3 DEF Used
    <3> QED
      BY <3>1 DEF Used, ItemUsed
  <2> QED
    BY <2>2, <2>4, <2>5 DEF MaxFdExact, Fd
<1>10. TableInv'
  <2>1. fds' \in [0..(fd_size' - 1) -> [fd : Fd \cup {FdUnused}, interest : SUBSET Op,
                                      data : Owner \cup {NoData}]]
    BY <1>2, <1>3 DEF IInv, TypeOK
  <2>2. Slots'
    BY <1>1, <1>2, <1>4, <1>6 DEF Slots, IInv
  <2>3. master_r' \subseteq Fd /\ master_w' \subseteq Fd
    BY <1>7 DEF MasterExact, Fd
  <2> QED
    BY <1>2, <1>7, <1>9, <2>1, <2>2, <2>3 DEF TableInv, IInv, TypeOK
<1>11. WalkInv'
  <2>1. WalkInv
    BY InTwo
  <2>2. \A k \in Fd : Used(k) => Used(k)' /\ fds'[k] = fds[k]
    BY <1>4, <1>5, <1>8 DEF Used
  <2>3. DueAhead'
    BY <1>5, <2>1, <2>2 DEF WalkInv, DueAhead, walk, Fd
  <2> QED
    BY <1>5, <2>1, <2>3 DEF WalkInv, Rested, walk, Fd
<1> QED
  BY <1>10, <1>11, InTwoNext

\* What stays due when an item changes is still ahead and of interest.
LEMMA DueStays ==
  ASSUME IInv, NEW fd \in Fd, NEW interest \in SUBSET Op,
         due' = StillDue(fd, interest), UNCHANGED walk,
         DOMAIN fds' = DOMAIN fds,
         \A k \in DOMAIN fds : k # fd => fds'[k] = fds[k],
         interest # {} => Used(fd)' /\ fds'[fd].interest = interest
  PROVE  WalkInv'
<1>1. WalkInv
  BY InTwo
<1>2. due' \subseteq due
  BY DEF StillDue
<1>3. \A k \in Fd, op \in Op : <<k, op>> \in due' => k # fd \/ op \in interest
  BY DEF StillDue
<1>4. \A k \in Fd : k # fd /\ Used(k) => Used(k)' /\ fds'[k] = fds[k]
  BY DEF Used
<1>5. DueAhead'
  <2> SUFFICES ASSUME walking', NEW k \in Fd, NEW op \in Op, <<k, op>> \in due'
               PROVE  /\ Used(k)' /\ op \in fds'[k].interest
                      /\ k \in (IF op = "OP_READ" THEN slave_r ELSE slave_w)
                      /\ k <= n /\ i <= k
                      /\ i = k => turn = "OP_READ" \/ op = "OP_WRITE"
    BY DEF DueAhead, walk, Fd
  <2>1. walking /\ <<k, op>> \in due
    BY <1>2 DEF walk
  <2>2. /\ Used(k) /\ op \in fds[k].interest
        /\ k \in (IF op = "OP_READ" THEN slave_r ELSE slave_w)
        /\ k <= n /\ i <= k
        /\ i = k => turn = "OP_READ" \/ op = "OP_WRITE"
    BY <1>1, <2>1 DEF WalkInv, DueAhead
  <2>3. Used(k)' /\ op \in fds'[k].interest
    BY <1>3, <1>4, <2>2
  <2> QED
    BY <2>2, <2>3
<1> QED
  BY <1>1, <1>2, <1>5 DEF WalkInv, Rested, walk, Fd

LEMMA UnregisterStep ==
  ASSUME IInv, NEW fd \in Fd, Unregister(fd)
  PROVE  IInv'
<1> USE ArrayAssumption
<1> DEFINE item == [fds[fd] EXCEPT !.interest = {}]
<1>1. /\ fd \in 0..(fd_size - 1) /\ fd_size \in Nat /\ DOMAIN fds = 0..(fd_size - 1)
      /\ fds[fd].fd = fd
  BY UsedSlot DEF Unregister
<1>2. /\ fds' = [fds EXCEPT ![fd] = ItemInit] /\ UpdateFdset(item) /\ UNCHANGED <<fd_size, walk>>
      /\ max_fd' = ItemsMaxFd(fds', max_fd) /\ due' = StillDue(fd, {})
  BY DEF Unregister
<1>3. fds \in [0..(fd_size - 1) -> [fd : Fd \cup {FdUnused}, interest : SUBSET Op,
                                  data : Owner \cup {NoData}]]
  BY DEF IInv, TypeOK
<1>4. item.fd = fd /\ item.interest = {}
  BY <1>1, <1>3
<1>5. /\ DOMAIN fds' = DOMAIN fds /\ fds'[fd] = ItemInit
      /\ \A k \in DOMAIN fds : k # fd => fds'[k] = fds[k]
  BY <1>1, <1>2, <1>3
<1>6. ~ItemUsed(ItemInit)
  BY DEF ItemUsed, ItemInit
<1>7. MasterExact'
  BY ZenonT(40), <1>2, <1>4, <1>5, <1>6, MasterFollows
<1>8. \A k \in Fd : Used(k)' <=> k # fd /\ Used(k)
  BY <1>5, <1>6 DEF Used
<1>9. \A k \in Fd : Used(k)' <=> ItemUsed(fds'[k])
  <2>1. \A k \in Fd : k \in DOMAIN fds'
    BY <1>5, UsedSlot
  <2> QED
    BY <2>1 DEF Used, ItemUsed
<1>10. MaxFdExact' /\ max_fd' \in Fd
  <2>1. max_fd \in Fd /\ max_fd \in Nat /\ \A k \in Fd : Used(k) => k <= max_fd
    BY DEF IInv, TypeOK, Fd, MaxFdExact
  <2>2. /\ max_fd' \in 0..max_fd
        /\ \A k \in 0..max_fd : ItemUsed(fds'[k]) => k <= max_fd'
        /\ max_fd' # 0 => ItemUsed(fds'[max_fd'])
    BY <1>2, <2>1, ItemsMaxFdHighest
  <2>3. max_fd' \in Fd
    BY <2>1, <2>2 DEF Fd
  <2>4. \A k \in Fd : Used(k)' => k <= max_fd'
    BY <1>8, <1>9, <2>1, <2>2 DEF Fd
  <2>5. max_fd' # 0 => (Used(max_fd))'
    <3>1. max_fd' \in DOMAIN fds'
      BY <1>5, <2>3, UsedSlot
    <3> QED
      BY <2>2, <3>1 DEF Used, ItemUsed
  <2> QED
    BY <2>3, <2>4, <2>5 DEF MaxFdExact, Fd
<1>11. TableInv'
  <2>1. ItemInit \in [fd : Fd \cup {FdUnused}, interest : SUBSET Op, data : Owner \cup {NoData}]
    BY DEF ItemInit
  <2>2. fds' \in [0..(fd_size' - 1) -> [fd : Fd \cup {FdUnused}, interest : SUBSET Op,
                                      data : Owner \cup {NoData}]]
    BY <1>2, <1>3, <2>1
  <2>3. Slots'
    BY <1>1, <1>2, <1>5 DEF Slots, IInv, ItemInit
  <2>4. master_r' \subseteq Fd /\ master_w' \subseteq Fd
    BY <1>7 DEF MasterExact, Fd
  <2> QED
    BY <1>2, <1>7, <1>10, <2>2, <2>3, <2>4 DEF TableInv, IInv, TypeOK
<1>12. WalkInv'
  BY <1>2, <1>5, DueStays
<1> QED
  BY <1>11, <1>12, InTwoNext

LEMMA ChangeStep ==
  ASSUME IInv, NEW fd \in Fd, NEW interest \in SUBSET Op, ChangeInterest(fd, interest)
  PROVE  IInv'
<1> USE ArrayAssumption
<1> DEFINE item == [fds[fd] EXCEPT !.interest = interest]
<1>1. /\ fd \in 0..(fd_size - 1) /\ fd_size \in Nat /\ DOMAIN fds = 0..(fd_size - 1)
      /\ fds[fd].fd = fd /\ Used(fd)
  BY UsedSlot DEF ChangeInterest
<1>2. /\ fds' = [fds EXCEPT ![fd].interest = interest] /\ UpdateFdset(item)
      /\ UNCHANGED <<fd_size, max_fd, walk>> /\ due' = StillDue(fd, interest)
  BY DEF ChangeInterest
<1>3. fds \in [0..(fd_size - 1) -> [fd : Fd \cup {FdUnused}, interest : SUBSET Op,
                                  data : Owner \cup {NoData}]]
  BY DEF IInv, TypeOK
<1>4. item.fd = fd /\ item.interest = interest
  BY <1>1, <1>3
<1>5. /\ DOMAIN fds' = DOMAIN fds /\ fds'[fd] = item
      /\ \A k \in DOMAIN fds : k # fd => fds'[k] = fds[k]
  BY <1>1, <1>2, <1>3
<1>6. ItemUsed(item)
  BY <1>4 DEF ItemUsed, Fd, FdUnused
<1>7. MasterExact'
  <2>1. ItemUsed(fds'[fd]) /\ fds'[fd].interest = item.interest
    BY <1>5, <1>6
  <2> HIDE DEF item
  <2> QED
    BY <1>2, <1>4, <1>5, <2>1, MasterFollows
<1>8. \A k \in DOMAIN fds : fds'[k].fd = fds[k].fd
  BY <1>1, <1>4, <1>5
<1>9. \A k : Used(k)' <=> Used(k)
  BY <1>5, <1>8 DEF Used, ItemUsed
<1>10. MaxFdExact'
  <2>1. MaxFdExact /\ max_fd' = max_fd
    BY <1>2 DEF IInv
  <2>2. (Used(max_fd))' <=> Used(max_fd)
    BY <1>2, <1>5, <1>8 DEF Used, ItemUsed
  <2> QED
    BY <1>9, <2>1, <2>2 DEF MaxFdExact, Fd
<1>11. TableInv'
  <2>1. fds' \in [0..(fd_size' - 1) -> [fd : Fd \cup {FdUnused}, interest : SUBSET Op,
                                      data : Owner \cup {NoData}]]
    BY <1>2, <1>3
  <2>2. Slots'
    BY <1>1, <1>2, <1>8 DEF Slots, IInv
  <2>3. master_r' \subseteq Fd /\ master_w' \subseteq Fd
    BY <1>7 DEF MasterExact, Fd
  <2> QED
    BY <1>2, <1>7, <1>10, <2>1, <2>2, <2>3 DEF TableInv, IInv, TypeOK
<1>12. WalkInv'
  <2>1. Used(fd)' /\ fds'[fd].interest = interest
    BY <1>1, <1>4, <1>5, <1>9
  <2> QED
    BY <1>2, <1>5, <2>1, DueStays
<1> QED
  BY <1>11, <1>12, InTwoNext

\* Each call keeps the invariant.
LEMMA CallStep ==
  ASSUME IInv, NEW fd \in Fd, Call(fd)
  PROVE  IInv'
<1>1. ASSUME NEW interest \in SUBSET Op, SetInterest(fd, interest) PROVE IInv'
  BY <1>1, ChangeStep DEF SetInterest
<1>2. ASSUME NEW interest \in SUBSET Op, NEW data \in Owner, Register(fd, interest, data)
      PROVE IInv'
  BY <1>2, RegisterStep
<1>3. CASE Unregister(fd)
  BY <1>3, UnregisterStep
<1>4. ASSUME NEW op \in Op, Additive(fd, op) PROVE IInv'
  <2>1. PICK interest : interest \in SUBSET Op /\ ChangeInterest(fd, interest)
    <3>1. Used(fd)
      BY <1>4 DEF Additive, ChangeInterest
    <3>2. fds[fd].interest \in SUBSET Op
      BY UsedSlot DEF IInv, TypeOK
    <3> QED
      BY <1>4, <3>2 DEF Additive
  <2> QED
    BY <2>1, ChangeStep
<1>5. ASSUME NEW op \in Op, Reduction(fd, op) PROVE IInv'
  <2>1. PICK interest : interest \in SUBSET Op /\ ChangeInterest(fd, interest)
    <3>2. fds[fd].interest \in SUBSET Op
      BY UsedSlot DEF IInv, TypeOK
    <3> QED
      BY <1>5, <3>2 DEF Reduction
  <2> QED
    BY <2>1, ChangeStep
<1> QED
  BY <1>1, <1>2, <1>3, <1>4, <1>5 DEF Call

\* The table's part depends on the table alone.
LEMMA TableStays ==
  ASSUME IInv, UNCHANGED table PROVE TableInv'
<1>1. TableInv
  BY InTwo
<1>2. \A k : Used(k)' <=> Used(k)
  BY DEF table, Used, ItemUsed
<1>3. (Used(max_fd))' <=> Used(max_fd)
  BY DEF table, Used, ItemUsed
<1>4. Slots' /\ MasterExact' /\ MaxFdExact'
  BY <1>1, <1>2, <1>3 DEF TableInv, table, Slots, MasterExact, MaxFdExact, Fd
<1> QED
  BY <1>1, <1>4 DEF TableInv, table

LEMMA SelectStep ==
  ASSUME IInv, NEW r, NEW w, Select(r, w) PROVE IInv'
<1> USE ArrayAssumption
<1>1. /\ UNCHANGED table /\ slave_r' = r /\ slave_w' = w
      /\ walking' = TRUE /\ n' = max_fd /\ i' = 0 /\ turn' = "OP_READ"
      /\ due' = (r \X {"OP_READ"}) \cup (w \X {"OP_WRITE"})
      /\ r \subseteq master_r /\ w \subseteq master_w
      /\ r \subseteq 0..max_fd /\ w \subseteq 0..max_fd
  BY DEF Select, Bound
<1>2. max_fd \in Fd /\ r \subseteq Fd /\ w \subseteq Fd
  BY <1>1 DEF IInv, TypeOK
<1>3. \A fd : Used(fd)' <=> Used(fd)
  BY <1>1 DEF table, Used, ItemUsed
<1>4. /\ \A fd \in r : Used(fd) /\ "OP_READ" \in fds[fd].interest
      /\ \A fd \in w : Used(fd) /\ "OP_WRITE" \in fds[fd].interest
  BY <1>1 DEF IInv, MasterExact
<1>5. DueAhead'
  <2> SUFFICES ASSUME NEW fd \in Fd, NEW op \in Op, <<fd, op>> \in due'
               PROVE  /\ Used(fd) /\ op \in fds[fd].interest
                      /\ fd \in (IF op = "OP_READ" THEN r ELSE w)
                      /\ fd <= max_fd /\ 0 <= fd
    BY <1>1, <1>3 DEF DueAhead, table, Fd
  <2>1. (fd \in r /\ op = "OP_READ") \/ (fd \in w /\ op = "OP_WRITE")
    BY <1>1
  <2> QED
    BY <1>1, <1>4, <2>1 DEF Fd
<1>6. WalkInv'
  <2>1. due' \subseteq Fd \X Op
    BY <1>1, <1>2 DEF Op
  <2> QED
    BY <1>1, <1>2, <1>5, <2>1 DEF WalkInv, Rested, Fd, Op
<1> QED
  BY <1>1, <1>6, TableStays, InTwoNext

\* A handler that runs takes its event from what is due.
LEMMA VisitStep ==
  ASSUME IInv, VisitRead \/ VisitWrite PROVE IInv'
<1> USE ArrayAssumption
<1>1. /\ UNCHANGED table /\ UNCHANGED <<slave_r, slave_w, walking, n>>
      /\ walking /\ i <= n /\ turn \in Op
  BY DEF VisitRead, VisitWrite, Op
<1>2. WalkInv /\ n \in Nat /\ i \in Nat /\ n < ItemsMax /\ i \in Fd
  BY <1>1, InTwo DEF WalkInv, Fd
<1>3. \A fd : Used(fd)' <=> Used(fd)
  BY <1>1 DEF table, Used, ItemUsed
<1>4. Used(i) <=> ItemUsed(fds[i])
  BY <1>2, UsedSlot DEF Used
<1>5. due' \subseteq due
  BY DEF VisitRead, VisitWrite, Handled
<1>6. \/ turn = "OP_READ" /\ turn' = "OP_WRITE" /\ i' = i /\ <<i, "OP_READ">> \notin due'
      \/ turn = "OP_READ" /\ turn' = "OP_READ" /\ i' = i + 1 /\ ~Used(i)
      \/ turn = "OP_WRITE" /\ turn' = "OP_READ" /\ i' = i + 1 /\ <<i, "OP_WRITE">> \notin due'
  <2>1. <<i, turn>> \in due => /\ turn \in fds[i].interest
                              /\ i \in (IF turn = "OP_READ" THEN slave_r ELSE slave_w)
    BY <1>1, <1>2 DEF WalkInv, DueAhead
  <2>2. CASE VisitRead
    BY <1>4, <2>1, <2>2 DEF VisitRead, Handled
  <2>3. CASE VisitWrite
    BY <2>1, <2>3 DEF VisitWrite, Handled
  <2> QED
    BY <2>2, <2>3
<1>7. DueAhead'
  <2> SUFFICES ASSUME NEW fd \in Fd, NEW op \in Op, <<fd, op>> \in due'
               PROVE  /\ Used(fd) /\ op \in fds[fd].interest
                      /\ fd \in (IF op = "OP_READ" THEN slave_r ELSE slave_w)
                      /\ fd <= n /\ i' <= fd
                      /\ i' = fd => turn' = "OP_READ" \/ op = "OP_WRITE"
    BY <1>1, <1>3 DEF DueAhead, table, Fd
  <2>1. /\ Used(fd) /\ op \in fds[fd].interest
        /\ fd \in (IF op = "OP_READ" THEN slave_r ELSE slave_w)
        /\ fd <= n /\ i <= fd
        /\ i = fd => turn = "OP_READ" \/ op = "OP_WRITE"
    BY <1>1, <1>2, <1>5 DEF WalkInv, DueAhead
  <2>2. fd \in Nat
    BY DEF Fd
  <2> QED
    BY <1>2, <1>6, <2>1, <2>2 DEF Op
<1>8. WalkInv'
  BY <1>1, <1>2, <1>5, <1>6, <1>7 DEF WalkInv, Rested, Fd, Op
<1> QED
  BY <1>1, <1>8, TableStays, InTwoNext

\* At the end of the walk nothing is due any more.
LEMMA NothingDue ==
  ASSUME IInv, walking, i > n PROVE due = {}
<1>1. WalkInv
  BY InTwo
<1>2. \A fd \in Fd, op \in Op : <<fd, op>> \notin due
  <2> SUFFICES ASSUME NEW fd \in Fd, NEW op \in Op, <<fd, op>> \in due PROVE FALSE
    OBVIOUS
  <2>1. fd <= n /\ i <= fd
    BY <1>1 DEF WalkInv, DueAhead
  <2>2. fd \in Int /\ n \in Int /\ i \in Int
    BY <1>1 DEF WalkInv, Fd
  <2> QED
    BY <2>1, <2>2
<1> QED
  BY <1>1, <1>2 DEF WalkInv

LEMMA EndStep ==
  ASSUME IInv, EndIteration PROVE IInv'
<1> USE ArrayAssumption
<1>1. UNCHANGED table /\ due' = {}
  BY NothingDue DEF EndIteration
<1>2. WalkInv'
  <2>1. WalkInv
    BY InTwo
  <2> QED
    <3>1. /\ walking' = FALSE /\ slave_r' = {} /\ slave_w' = {} /\ n' = 0 /\ i' = 0
          /\ turn' = turn
      BY DEF EndIteration
    <3>2. 0 \in Fd /\ 0 \in 0..ItemsMax /\ turn \in Op
      BY <2>1 DEF Fd, WalkInv
    <3>3. DueAhead' /\ Rested'
      BY <1>1, <3>1 DEF DueAhead, Rested
    <3> QED
      BY <1>1, <3>1, <3>2, <3>3 DEF WalkInv, Fd
<1> QED
  BY <1>1, <1>2, TableStays, InTwoNext

LEMMA StepIInv ==
  ASSUME IInv, [Next]_vars PROVE IInv'
<1>1. ASSUME NEW fd \in Fd, Call(fd) PROVE IInv'
  BY <1>1, CallStep
<1>2. ASSUME NEW r, NEW w, Select(r, w) PROVE IInv'
  BY <1>2, SelectStep
<1>3. CASE VisitRead \/ VisitWrite
  BY <1>3, VisitStep
<1>4. CASE EndIteration
  BY <1>4, EndStep
<1>5. CASE UNCHANGED vars
  BY <1>5 DEF vars, table, walk, IInv, TypeOK, Slots, MasterExact, MaxFdExact, DueAhead, Rested,
              Used, ItemUsed, Fd
<1> QED
  BY <1>1, <1>2, <1>3, <1>4, <1>5 DEF Next

\* The invariant, of such an array.
LEMMA Inductive ==
  FullArray => (Spec => []IInv)
<1>1. FullArray /\ Init => IInv
  BY InitIInv
<1>2. IInv /\ [Next]_vars => IInv'
  BY StepIInv
<1> QED
  BY <1>1, <1>2, PTL DEF Spec

-----------------------------------------------------------------------------
(* Theorems *)

\* The ranges of the array, the sets and the walk, for any number of
\* descriptors and attachments.
THEOREM TypeCorrect ==
  FullArray => (Spec => []TypeOK)
<1>1. IInv => TypeOK
  BY DEF IInv
<1> QED
  BY <1>1, Inductive, PTL

\* No access to fds by selector_register, items_max_fd or handle_iteration is
\* outside the array.
THEOREM InBoundsCorrect ==
  FullArray => (Spec => []InBounds)
<1>1. IInv => InBounds
  BY ArrayAssumption DEF IInv, TypeOK, InBounds, Fd
<1> QED
  BY <1>1, Inductive, PTL

\* What pselect is given are the interests in the array.
THEOREM MasterExactCorrect ==
  FullArray => (Spec => []MasterExact)
<1>1. IInv => MasterExact
  BY DEF IInv
<1> QED
  BY <1>1, Inductive, PTL

\* max_fd is the highest registered descriptor.
THEOREM MaxFdExactCorrect ==
  FullArray => (Spec => []MaxFdExact)
<1>1. IInv => MaxFdExact
  BY DEF IInv
<1> QED
  BY <1>1, Inductive, PTL

\* handle_iteration passes over nothing that was reported and is still of
\* interest.
THEOREM NonePassedOverCorrect ==
  FullArray => (Spec => []NonePassedOver)
<1>1. IInv => NonePassedOver
  <2>1. IInv => (walking => n \in Int /\ i \in Int)
    BY DEF IInv, TypeOK, Fd
  <2> QED
    BY <2>1, NothingDue DEF NonePassedOver
<1> QED
  BY <1>1, Inductive, PTL

-----------------------------------------------------------------------------
(* The array implements the table *)

LEMMA InitRefined ==
  ASSUME FullArray, Init PROVE Abstract!Init
<1>1. \A fd \in Fd : ~Used(fd)
  BY DEF Init, Used, ItemUsed, ItemInit
<1>2. TableOf = [fd \in Fd |-> [owner |-> "nobody", interest |-> {}]]
  BY <1>1 DEF TableOf
<1> QED
  BY <1>2 DEF Abstract!Init, Abstract!Fd, Abstract!Unused, Abstract!Nobody, Fd

\* A descriptor is used in the table as it is in the array.
LEMMA UsedRefined ==
  ASSUME IInv, NEW fd \in Fd
  PROVE  Abstract!Used(TableOf, fd) <=> Used(fd)
<1>1. Used(fd) => fds[fd].data \in Owner \cup {NoData}
  BY UsedSlot DEF IInv, TypeOK
<1>2. NoData # "nobody" /\ "nobody" \notin Owner
  BY ArrayAssumption DEF NoData
<1>3. fd >= 0 /\ fd < ItemsMax
  BY ArrayAssumption DEF Fd
<1> QED
  BY <1>1, <1>2, <1>3 DEF Abstract!Used, Abstract!ValidFd, Abstract!Nobody, TableOf

\* A new table that differs in one item.
LEMMA OneItem ==
  ASSUME NEW fd \in Fd, NEW item,
         \A k \in Fd : k # fd => (Used(k)' <=> Used(k)),
         \A k \in Fd : k # fd /\ Used(k) => fds'[k] = fds[k],
         item = IF Used(fd)' THEN [owner |-> fds'[fd].data, interest |-> fds'[fd].interest]
                ELSE [owner |-> "nobody", interest |-> {}]
  PROVE  TableOf' = [TableOf EXCEPT ![fd] = item]
<1> DEFINE ItemOf(k) == IF Used(k) THEN [owner |-> fds[k].data, interest |-> fds[k].interest]
                        ELSE [owner |-> "nobody", interest |-> {}]
           ItemNext(k) == IF Used(k)' THEN [owner |-> fds'[k].data, interest |-> fds'[k].interest]
                          ELSE [owner |-> "nobody", interest |-> {}]
<1>1. TableOf = [k \in Fd |-> ItemOf(k)] /\ TableOf' = [k \in Fd |-> ItemNext(k)]
  BY DEF TableOf, Fd
<1>2. \A k \in Fd : k # fd => ItemNext(k) = ItemOf(k)
  OBVIOUS
<1>3. ItemNext(fd) = item
  OBVIOUS
<1> HIDE DEF ItemOf, ItemNext
<1> QED
  BY <1>1, <1>2, <1>3

LEMMA RegisterRefined ==
  ASSUME IInv, NEW fd \in Fd, NEW interest \in SUBSET Op, NEW data \in Owner,
         Register(fd, interest, data)
  PROVE  Abstract!Registers(fd, interest, data)
<1> DEFINE item == [fd |-> fd, interest |-> interest, data |-> data]
<1>1. /\ fd \in 0..(fd_size - 1) /\ fd_size \in Nat /\ DOMAIN fds = 0..(fd_size - 1)
      /\ ~(fd > fd_size) /\ ~Used(fd)
  BY UsedSlot DEF Fd, Register
<1>2. fds' = [fds EXCEPT ![fd] = item]
  <2>1. fds' = [Grown(fd_size) EXCEPT ![fd] = item]
    BY <1>1 DEF Register
  <2>2. fds = [k \in DOMAIN fds |-> fds[k]]
    BY DEF IInv, TypeOK
  <2>3. Grown(fd_size) = fds
    BY <1>1, <2>2 DEF Grown
  <2> QED
    BY <2>1, <2>3
<1>3. /\ DOMAIN fds' = DOMAIN fds /\ fds'[fd] = item
      /\ \A k \in DOMAIN fds : k # fd => fds'[k] = fds[k]
  BY <1>1, <1>2
<1>4. Used(fd)'
  BY <1>1, <1>3 DEF Used, ItemUsed, Fd, FdUnused
<1>5. TableOf' = [TableOf EXCEPT ![fd] = [owner |-> data, interest |-> interest]]
  <2>1. \A k \in Fd : k # fd => (Used(k)' <=> Used(k))
    BY <1>3 DEF Used
  <2>2. \A k \in Fd : k # fd /\ Used(k) => fds'[k] = fds[k]
    BY <1>3 DEF Used
  <2> DEFINE row == [owner |-> data, interest |-> interest]
  <2>3. row = IF Used(fd)' THEN [owner |-> fds'[fd].data, interest |-> fds'[fd].interest]
              ELSE [owner |-> "nobody", interest |-> {}]
    BY <1>3, <1>4
  <2> HIDE DEF row
  <2>4. TableOf' = [TableOf EXCEPT ![fd] = row]
    BY <2>1, <2>2, <2>3, OneItem
  <2> QED
    BY <2>4 DEF row
<1>6. Abstract!CanRegister(TableOf, fd)
  BY <1>1, UsedRefined, ArrayAssumption DEF Abstract!CanRegister, Abstract!ValidFd, Fd
<1> QED
  BY <1>5, <1>6 DEF Abstract!Registers, Abstract!Register

LEMMA UnregisterRefined ==
  ASSUME IInv, NEW fd \in Fd, Unregister(fd)
  PROVE  Abstract!Unregisters(fd)
<1>1. Used(fd) /\ fds' = [fds EXCEPT ![fd] = ItemInit] /\ fd \in DOMAIN fds
  BY UsedSlot DEF Unregister
<1>2. /\ DOMAIN fds' = DOMAIN fds /\ fds'[fd] = ItemInit
      /\ \A k \in DOMAIN fds : k # fd => fds'[k] = fds[k]
  BY <1>1
<1>3. ~Used(fd)'
  BY <1>2 DEF Used, ItemUsed, ItemInit
<1>4. TableOf' = [TableOf EXCEPT ![fd] = [owner |-> "nobody", interest |-> {}]]
  <2>1. \A k \in Fd : k # fd => (Used(k)' <=> Used(k))
    BY <1>2 DEF Used
  <2>2. \A k \in Fd : k # fd /\ Used(k) => fds'[k] = fds[k]
    BY <1>2 DEF Used
  <2> DEFINE item == [owner |-> "nobody", interest |-> {}]
  <2>3. item = IF Used(fd)' THEN [owner |-> fds'[fd].data, interest |-> fds'[fd].interest]
               ELSE [owner |-> "nobody", interest |-> {}]
    BY <1>3
  <2> HIDE DEF item
  <2>4. TableOf' = [TableOf EXCEPT ![fd] = item]
    BY <2>1, <2>2, <2>3, OneItem
  <2> QED
    BY <2>4 DEF item
<1>5. TableOf' = Abstract!Unregister(TableOf, {fd})
  <2>1. DOMAIN TableOf = Fd
    BY DEF TableOf
  <2>2. [TableOf EXCEPT ![fd] = [owner |-> "nobody", interest |-> {}]]
          = [k \in DOMAIN TableOf |-> IF k \in {fd} THEN [owner |-> "nobody", interest |-> {}]
                                     ELSE TableOf[k]]
    BY <2>1
  <2> QED
    BY <1>4, <2>2 DEF Abstract!Unregister, Abstract!Unused, Abstract!Nobody
<1> QED
  BY <1>1, <1>5, UsedRefined DEF Abstract!Unregisters

\* A change of interest is the same change of the table.
LEMMA ChangeRefined ==
  ASSUME IInv, NEW fd \in Fd, NEW interest \in SUBSET Op, ChangeInterest(fd, interest)
  PROVE  /\ Abstract!Used(TableOf, fd) /\ TableOf[fd].interest = fds[fd].interest
         /\ TableOf' = [TableOf EXCEPT ![fd].interest = interest]
<1>1. Used(fd) /\ fds' = [fds EXCEPT ![fd].interest = interest] /\ fd \in DOMAIN fds
  BY UsedSlot DEF ChangeInterest
<1>2. fds[fd] \in [fd : Fd \cup {FdUnused}, interest : SUBSET Op, data : Owner \cup {NoData}]
  BY UsedSlot DEF IInv, TypeOK
<1>3. /\ DOMAIN fds' = DOMAIN fds
      /\ fds'[fd].interest = interest /\ fds'[fd].data = fds[fd].data /\ fds'[fd].fd = fds[fd].fd
      /\ \A k \in DOMAIN fds : k # fd => fds'[k] = fds[k]
  BY <1>1, <1>2
<1>4. Used(fd)'
  BY <1>1, <1>3 DEF Used, ItemUsed
<1>5. TableOf' = [TableOf EXCEPT ![fd] = [owner |-> fds[fd].data, interest |-> interest]]
  <2>1. \A k \in Fd : k # fd => (Used(k)' <=> Used(k))
    BY <1>3 DEF Used
  <2>2. \A k \in Fd : k # fd /\ Used(k) => fds'[k] = fds[k]
    BY <1>3 DEF Used
  <2> DEFINE item == [owner |-> fds[fd].data, interest |-> interest]
  <2>3. item = IF Used(fd)' THEN [owner |-> fds'[fd].data, interest |-> fds'[fd].interest]
               ELSE [owner |-> "nobody", interest |-> {}]
    BY <1>3, <1>4
  <2> HIDE DEF item
  <2>4. TableOf' = [TableOf EXCEPT ![fd] = item]
    BY <2>1, <2>2, <2>3, OneItem
  <2> QED
    BY <2>4 DEF item
<1>6. TableOf[fd] = [owner |-> fds[fd].data, interest |-> fds[fd].interest]
  BY <1>1 DEF TableOf
<1>7. [TableOf[fd] EXCEPT !.interest = interest] = [owner |-> fds[fd].data, interest |-> interest]
  BY <1>6
<1>8. TableOf' = [TableOf EXCEPT ![fd].interest = interest]
  <2>1. [TableOf EXCEPT ![fd].interest = interest]
          = [TableOf EXCEPT ![fd] = [TableOf[fd] EXCEPT !.interest = interest]]
    OBVIOUS
  <2> QED
    BY <1>5, <1>7, <2>1
<1>9. TableOf[fd].interest = fds[fd].interest
  BY <1>6
<1> QED
  BY <1>1, <1>8, <1>9, UsedRefined

LEMMA StepRefined ==
  ASSUME IInv, [Next]_vars
  PROVE  [Abstract!Next]_TableOf
<1>1. ASSUME NEW fd \in Fd, NEW interest \in SUBSET Op, SetInterest(fd, interest)
      PROVE Abstract!SetsInterest(fd, interest)
  BY <1>1, ChangeRefined DEF SetInterest, Abstract!SetsInterest, Abstract!SetInterest
<1>2. ASSUME NEW fd \in Fd, NEW op \in Op, Additive(fd, op)
      PROVE Abstract!Adds(fd, op)
  <2>1. fds[fd].interest \in SUBSET Op
    BY UsedSlot DEF IInv, TypeOK
  <2>2. ChangeInterest(fd, fds[fd].interest \cup {op})
    <3>1. (CASE fds[fd].interest = {} -> {op} [] fds[fd].interest = Op \ {op} -> Op
             [] OTHER -> fds[fd].interest) = fds[fd].interest \cup {op}
      BY <2>1 DEF Op
    <3> QED
      BY <1>2, <3>1 DEF Additive
  <2> QED
    BY <2>1, <2>2, ChangeRefined DEF Abstract!Adds, Abstract!Additive
<1>3. ASSUME NEW fd \in Fd, NEW op \in Op, Reduction(fd, op)
      PROVE Abstract!Removes(fd, op)
  <2>1. fds[fd].interest \in SUBSET Op
    BY UsedSlot DEF IInv, TypeOK
  <2>2. ChangeInterest(fd, fds[fd].interest \ {op})
    <3>1. (CASE fds[fd].interest = Op -> Op \ {op} [] fds[fd].interest = {op} -> {}
             [] OTHER -> fds[fd].interest) = fds[fd].interest \ {op}
      BY <2>1 DEF Op
    <3> QED
      BY <1>3, <3>1 DEF Reduction
  <2> QED
    BY <2>1, <2>2, ChangeRefined DEF Abstract!Removes, Abstract!Reduction
<1>4. ASSUME NEW fd \in Fd, Call(fd) PROVE Abstract!Next
  <2> USE DEF Op, Abstract!Fd, Abstract!Interest, Fd
  <2>1. ASSUME NEW interest \in SUBSET Op, SetInterest(fd, interest) PROVE Abstract!Next
    BY <1>1, <2>1 DEF Abstract!Next
  <2>2. ASSUME NEW interest \in SUBSET Op, NEW data \in Owner, Register(fd, interest, data)
        PROVE Abstract!Next
    BY <2>2, RegisterRefined DEF Abstract!Next
  <2>3. CASE Unregister(fd)
    BY <2>3, UnregisterRefined DEF Abstract!Next
  <2>4. ASSUME NEW op \in Op, Additive(fd, op) \/ Reduction(fd, op) PROVE Abstract!Next
    BY <1>2, <1>3, <2>4 DEF Abstract!Next
  <2> QED
    BY <1>4, <2>1, <2>2, <2>3, <2>4 DEF Call
<1>5. CASE UNCHANGED table
  <2>1. \A fd : Used(fd)' <=> Used(fd)
    BY <1>5 DEF table, Used, ItemUsed
  <2>2. UNCHANGED TableOf
    BY <1>5, <2>1 DEF TableOf, table, Fd
  <2> QED
    BY <2>2
<1>6. CASE UNCHANGED vars
  BY <1>5, <1>6 DEF vars
<1>7. CASE VisitRead \/ VisitWrite \/ EndIteration \/ \E r, w \in SUBSET Fd : Select(r, w)
  BY <1>5, <1>7 DEF VisitRead, VisitWrite, EndIteration, Select
<1> QED
  BY <1>4, <1>6, <1>7 DEF Next

\* The array behaves as the table that Socksv5 rests on.
THEOREM TableRefinedCorrect ==
  FullArray => (Spec => TableRefined)
<1>1. FullArray /\ Init => Abstract!Init
  BY InitRefined
<1>2. IInv /\ [Next]_vars => [Abstract!Next]_TableOf
  BY StepRefined
<1> QED
  BY <1>1, <1>2, Inductive, PTL DEF Spec, TableRefined, Abstract!Spec

=============================================================================
