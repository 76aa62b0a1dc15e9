--------------------------- MODULE Monitor_proofs ---------------------------
(***************************************************************************)
(* Proofs about the monitoring server, for any number of administrators    *)
(* and whatever bytes they send, in whatever parts: the list of structs is *)
(* what the indexes in the structs say; and that the server does what      *)
(* MonitorService promises to clients like src/client/client.c.            *)
(***************************************************************************)
EXTENDS Monitor, FiniteSetTheorems, SequenceTheorems, WellFoundedInduction, TLAPS

Octet == 0..255

AuthPars ==
  [state : {"reading_user_len", "reading_user", "reading_pass_len", "reading_pass",
            "auth_done", "bad_syntax"},
   remaining : Octet, user : Seq(Octet), password : Seq(Octet)]

RequestPars ==
  [state : {"reading_cmd", "reading_metrics_cmd", "reading_add_user_cmd", "reading_list_user_cmd",
            "reading_change_buff_size_cmd", "reading_user", "reading_pass", "reading_buff_size",
            "done", "invalid_cmd"},
   cmd_selected : Octet,
   user : Seq(Octet) \cup {Null}, password : Seq(Octet) \cup {Null},
   new_buff_size : Seq(Digits) \cup {Null}]

\* The states of the request's parser in which each argument is there, and the
\* command that leads to each state.
RequestSound(p) ==
  /\ p \in RequestPars
  /\ p.state = "reading_metrics_cmd" => p.cmd_selected = Digit(1)
  /\ p.state \in {"reading_add_user_cmd", "reading_user", "reading_pass"} =>
       p.cmd_selected = Digit(2)
  /\ p.state = "reading_list_user_cmd" => p.cmd_selected = Digit(3)
  /\ p.state \in {"reading_change_buff_size_cmd", "reading_buff_size"} =>
       p.cmd_selected = Digit(4)
  /\ p.state = "reading_user" => p.user \in Seq(Octet)
  /\ p.state = "reading_pass" => p.password \in Seq(Octet)
  /\ p.password \in Seq(Octet) => p.user \in Seq(Octet)
  /\ p.state = "reading_buff_size" => p.new_buff_size \in Seq(Digits)
  /\ p.state = "done" =>
       /\ p.cmd_selected \in {Digit(1), Digit(2), Digit(3), Digit(4)}
       /\ p.cmd_selected = Digit(2) => p.password \in Seq(Octet)
       /\ p.cmd_selected = Digit(4) => p.new_buff_size \in Seq(Digits)

Struct ==
  [state : {"CLOSED", "ADMIN_AUTH", "ADMIN_REQUEST"},
   interest : {"none", "OP_READ", "OP_WRITE"},
   next : Admin \cup {Null}, list_index : Nat,
   auth : AuthPars, req : RequestPars, rb : Seq(Octet),
   wb : {<< >>, <<Says("rest")>>}]

\* The list: each index up to the number of structs is that of one struct, and
\* each struct leads to the one with the next index.
Chain ==
  /\ \A a \in Open : adm[a].list_index < Cardinality(Open)
  /\ \A a, b \in Open : adm[a].list_index = adm[b].list_index => a = b
  /\ \A n \in Nat : n < Cardinality(Open) => \E a \in Open : adm[a].list_index = n
  /\ IF Open = {} THEN first = Null ELSE first \in Open /\ adm[first].list_index = 0
  /\ \A a \in Open :
       IF adm[a].list_index + 1 = Cardinality(Open) THEN adm[a].next = Null
       ELSE adm[a].next \in Open /\ adm[adm[a].next].list_index = adm[a].list_index + 1

\* What memory holds that was copied behind its end may be garbage.
Table == Seq([name : Seq(Octet), pass : Seq(Octet \cup {Garbage})])

MonitorInv ==
  /\ visit \in Visits
  /\ first \in Admin \cup {Null} /\ adm \in [Admin -> Struct]
  /\ users \in Table /\ Len(users) <= MaxUsers
  /\ buffSize \in MinBufferSize..MaxBuffSize
  /\ server \in {"up", "hung", "crashed"}
  /\ sent \in [Admin -> Seq(Octet)]
  /\ left \subseteq Open
  /\ \A a \in Admin : /\ adm[a].state = "CLOSED" <=> adm[a].interest = "none"
                      /\ RequestSound(adm[a].req)
  /\ server = "up" => Chain

-----------------------------------------------------------------------------
(* Induction, which the library offers for an operator, here for a set *)

Below == {p \in Nat \X Nat : p[1] < p[2]}

\* Every set of numbers has a least one.
LEMMA Least ==
  ASSUME NEW S \in SUBSET Nat, S # {}
  PROVE  \E m \in S : \A n \in S : m <= n
<1>1. IsWellFoundedOn(Below, Nat)
  BY NatLessThanWellFounded DEF OpToRel, Below
<1>2. PICK m \in S : \A n \in S : <<n, m>> \notin Below
  BY <1>1, WFMin
<1>3. \A n \in S : ~ (n < m)
  BY <1>2 DEF Below
<1> QED
  BY <1>3

\* What holds at 0, and of each number's successor, holds up to l.
LEMMA UpTo ==
  ASSUME NEW l \in Nat, NEW S, 0 \in S, \A n \in 0..(l - 1) : n \in S => n + 1 \in S
  PROVE  l \in S
<1> SUFFICES ASSUME l \notin S PROVE FALSE
  OBVIOUS
<1> DEFINE T == {n \in Nat : n \notin S}
<1>1. PICK m \in T : \A n \in T : m <= n
  BY Least
<1>2. m \in Nat /\ m # 0 /\ m <= l /\ m \notin S
  BY <1>1
<1>3. m - 1 \in Nat /\ m - 1 \in 0..(l - 1) /\ (m - 1) + 1 = m
  BY <1>2
<1>4. m - 1 \notin T
  BY <1>1, <1>2, <1>3
<1> QED
  BY <1>2, <1>3, <1>4

\* Min is the least number of a set.
LEMMA MinIs ==
  ASSUME NEW S \in SUBSET Nat, S # {}
  PROVE  Min(S) \in S /\ \A n \in S : Min(S) <= n
BY Least DEF Min

-----------------------------------------------------------------------------
(* A loop of l turns, of which each takes what the one before has left *)

\* f is what the turns leave, from r on, if turn i makes g[i][x] of x.
Turns(f, r, g, l) == f = [i \in 0..l |-> IF i = 0 THEN r ELSE g[i][f[i - 1]]]

\* There is such a sequence of turns, whatever its length.
LEMMA TurnsExist ==
  ASSUME NEW r, NEW g, NEW l \in Nat
  PROVE  \E f : Turns(f, r, g, l)
<1> DEFINE S == {n \in Nat : \E f : Turns(f, r, g, n)}
<1>1. 0 \in S
  <2> DEFINE f == [i \in 0..0 |-> r]
  <2>1. Turns(f, r, g, 0)
    BY DEF Turns
  <2> QED
    BY <2>1
<1>2. ASSUME NEW n \in 0..(l - 1), n \in S PROVE n + 1 \in S
  <2>1. PICK f : Turns(f, r, g, n)
    BY <1>2
  <2> DEFINE h == [i \in 0..(n + 1) |-> IF i <= n THEN f[i] ELSE g[i][f[n]]]
  <2>2. \A i \in 0..n : f[i] = IF i = 0 THEN r ELSE g[i][f[i - 1]]
    BY <2>1 DEF Turns
  <2>3. \A i \in 0..(n + 1) : h[i] = IF i = 0 THEN r ELSE g[i][h[i - 1]]
    <3> TAKE i \in 0..(n + 1)
    <3>1. CASE i \in 1..n
      <4>1. h[i] = f[i] /\ h[i - 1] = f[i - 1]
        BY <3>1
      <4> QED
        BY <2>2, <3>1, <4>1
    <3>2. CASE i = 0
      BY <2>2, <3>2
    <3>3. CASE i = n + 1
      <4>1. h[i] = g[i][f[n]] /\ h[i - 1] = f[n]
        BY <3>3
      <4> QED
        BY <3>3, <4>1
    <3> QED
      BY <3>1, <3>2, <3>3
  <2>4. h = [i \in 0..(n + 1) |-> h[i]]
    OBVIOUS
  <2> HIDE DEF h
  <2>5. Turns(h, r, g, n + 1)
    BY <2>3, <2>4 DEF Turns
  <2> QED
    BY <2>5
<1> QED
  <2> HIDE DEF S
  <2>1. l \in S
    BY <1>1, <1>2, UpTo
  <2> QED
    BY <2>1 DEF S

\* What each turn keeps, from R[i - 1] to R[i], holds of what a turn leaves.
LEMMA TurnsKeep ==
  ASSUME NEW r, NEW g, NEW l \in Nat, NEW R, NEW f, Turns(f, r, g, l), r \in R[0],
         \A i \in 1..l : \A x \in R[i - 1] : g[i][x] \in R[i]
  PROVE  \A n \in 0..l : f[n] \in R[n]
<1> TAKE n \in 0..l
<1> DEFINE S == {i \in 0..n : f[i] \in R[i]}
<1>1. f[0] = r /\ \A i \in 1..l : f[i] = g[i][f[i - 1]]
  BY DEF Turns
<1>2. 0 \in S
  BY <1>1
<1>3. ASSUME NEW i \in 0..(n - 1), i \in S PROVE i + 1 \in S
  <2>1. i + 1 \in 1..l /\ i + 1 \in 0..n /\ (i + 1) - 1 = i
    OBVIOUS
  <2> QED
    BY <1>1, <1>3, <2>1
<1>4. n \in S
  <2> HIDE DEF S
  <2> QED
    BY <1>2, <1>3, UpTo
<1> QED
  BY <1>4

\* One turn of admin_consume_auth_buffer.
AuthTurn(r, s, i) ==
  IF r.pars.state \in AuthFinal THEN r ELSE [pars |-> FeedAuth(r.pars, s[i]), taken |-> i]

\* What every turn keeps, AuthFed keeps.
LEMMA AuthFedKeeps ==
  ASSUME NEW p, NEW s, Len(s) \in Nat, NEW R, [pars |-> p, taken |-> 0] \in R[0],
         \A i \in 1..Len(s) : \A r \in R[i - 1] : AuthTurn(r, s, i) \in R[i]
  PROVE  AuthFed(p, s) \in R[Len(s)]
<1> DEFINE l == Len(s)
           X == UNION {R[i] : i \in 0..l}
           r0 == [pars |-> p, taken |-> 0]
           g == [i \in 1..l |-> [x \in X |-> AuthTurn(x, s, i)]]
           Body(f) ==
             [i \in 0..Len(s) |->
                IF i = 0 THEN [pars |-> p, taken |-> 0]
                ELSE CHOOSE r \in {IF before.pars.state \in AuthFinal THEN before
                                   ELSE [pars |-> FeedAuth(before.pars, s[i]), taken |-> i] :
                                     before \in {f[i - 1]}} : TRUE]
           run == CHOOSE f : f = Body(f)
<1>1. AuthFed(p, s) = run[l]
  BY DEF AuthFed
<1>2. ASSUME NEW f, NEW i \in 0..l
      PROVE  Body(f)[i] = IF i = 0 THEN r0 ELSE AuthTurn(f[i - 1], s, i)
  <2>1. {IF before.pars.state \in AuthFinal THEN before
         ELSE [pars |-> FeedAuth(before.pars, s[i]), taken |-> i] : before \in {f[i - 1]}}
          = {AuthTurn(f[i - 1], s, i)}
    BY DEF AuthTurn
  <2> QED
    BY <2>1
<1>3. \A i \in 1..l : \A x \in R[i - 1] : x \in X /\ g[i][x] = AuthTurn(x, s, i)
  <2> TAKE i \in 1..l
  <2>1. i - 1 \in 0..l
    OBVIOUS
  <2> QED
    BY <2>1
<1>4. ASSUME NEW f, f = Body(f) PROVE \A n \in 0..l : f[n] \in R[n]
  <2> DEFINE S == {i \in 0..l : f[i] \in R[i]}
  <2> SUFFICES ASSUME NEW n \in 0..l PROVE n \in S
    OBVIOUS
  <2>1. \A i \in 0..l : f[i] = IF i = 0 THEN r0 ELSE AuthTurn(f[i - 1], s, i)
    <3> HIDE DEF Body
    <3> QED
      BY <1>2, <1>4
  <2>2. 0 \in S
    BY <2>1
  <2>3. ASSUME NEW i \in 0..(n - 1), i \in S PROVE i + 1 \in S
    <3>1. i + 1 \in 1..l /\ i + 1 \in 0..l /\ (i + 1) - 1 = i
      OBVIOUS
    <3> QED
      BY <2>1, <2>3, <3>1
  <2> HIDE DEF S
  <2> QED
    BY <2>2, <2>3, UpTo
<1>5. \E f : f = Body(f)
  <2> HIDE DEF X, g, r0, Body
  <2>1. PICK f : Turns(f, r0, g, l)
    BY TurnsExist
  <2>2. \A i \in 1..l : \A x \in R[i - 1] : g[i][x] \in R[i]
    BY <1>3
  <2>3. \A n \in 0..l : f[n] \in R[n]
    BY <2>1, <2>2, TurnsKeep DEF r0
  <2>4. \A i \in 0..l : f[i] = Body(f)[i]
    <3> TAKE i \in 0..l
    <3>1. f[i] = IF i = 0 THEN r0 ELSE g[i][f[i - 1]]
      BY <2>1 DEF Turns
    <3>2. CASE i = 0
      BY <1>2, <3>1, <3>2
    <3>3. CASE i # 0
      <4>1. i \in 1..l /\ i - 1 \in 0..l
        BY <3>3
      <4> QED
        BY <1>2, <1>3, <2>3, <3>1, <3>3, <4>1
    <3> QED
      BY <3>2, <3>3
  <2>5. f = [i \in 0..l |-> f[i]]
    BY <2>1 DEF Turns
  <2>6. Body(f) = [i \in 0..l |-> Body(f)[i]]
    BY DEF Body
  <2> QED
    BY <2>4, <2>5, <2>6
<1>6. run = Body(run)
  <2> HIDE DEF Body
  <2> QED
    BY <1>5
<1> QED
  <2> HIDE DEF run, Body
  <2>1. l \in 0..l
    OBVIOUS
  <2> QED
    BY <1>1, <1>4, <1>6, <2>1
\* One turn of admin_consume_req_buffer.
RequestTurn(r, s, i) ==
  IF r.pars.state = "done" THEN r ELSE [pars |-> FeedRequest(r.pars, s[i]), taken |-> i]

\* What every turn keeps, RequestFed keeps.
LEMMA RequestFedKeeps ==
  ASSUME NEW p, NEW s, Len(s) \in Nat, NEW R, [pars |-> p, taken |-> 0] \in R[0],
         \A i \in 1..Len(s) : \A r \in R[i - 1] : RequestTurn(r, s, i) \in R[i]
  PROVE  RequestFed(p, s) \in R[Len(s)]
<1> DEFINE l == Len(s)
           X == UNION {R[i] : i \in 0..l}
           r0 == [pars |-> p, taken |-> 0]
           g == [i \in 1..l |-> [x \in X |-> RequestTurn(x, s, i)]]
           Body(f) ==
             [i \in 0..Len(s) |->
                IF i = 0 THEN [pars |-> p, taken |-> 0]
                ELSE CHOOSE r \in {IF before.pars.state = "done" THEN before
                                   ELSE [pars |-> FeedRequest(before.pars, s[i]), taken |-> i] :
                                     before \in {f[i - 1]}} : TRUE]
           run == CHOOSE f : f = Body(f)
<1>1. RequestFed(p, s) = run[l]
  BY DEF RequestFed
<1>2. ASSUME NEW f, NEW i \in 0..l
      PROVE  Body(f)[i] = IF i = 0 THEN r0 ELSE RequestTurn(f[i - 1], s, i)
  <2>1. {IF before.pars.state = "done" THEN before
         ELSE [pars |-> FeedRequest(before.pars, s[i]), taken |-> i] : before \in {f[i - 1]}}
          = {RequestTurn(f[i - 1], s, i)}
    BY DEF RequestTurn
  <2> QED
    BY <2>1
<1>3. \A i \in 1..l : \A x \in R[i - 1] : x \in X /\ g[i][x] = RequestTurn(x, s, i)
  <2> TAKE i \in 1..l
  <2>1. i - 1 \in 0..l
    OBVIOUS
  <2> QED
    BY <2>1
<1>4. ASSUME NEW f, f = Body(f) PROVE \A n \in 0..l : f[n] \in R[n]
  <2> DEFINE S == {i \in 0..l : f[i] \in R[i]}
  <2> SUFFICES ASSUME NEW n \in 0..l PROVE n \in S
    OBVIOUS
  <2>1. \A i \in 0..l : f[i] = IF i = 0 THEN r0 ELSE RequestTurn(f[i - 1], s, i)
    <3> HIDE DEF Body
    <3> QED
      BY <1>2, <1>4
  <2>2. 0 \in S
    BY <2>1
  <2>3. ASSUME NEW i \in 0..(n - 1), i \in S PROVE i + 1 \in S
    <3>1. i + 1 \in 1..l /\ i + 1 \in 0..l /\ (i + 1) - 1 = i
      OBVIOUS
    <3> QED
      BY <2>1, <2>3, <3>1
  <2> HIDE DEF S
  <2> QED
    BY <2>2, <2>3, UpTo
<1>5. \E f : f = Body(f)
  <2> HIDE DEF X, g, r0, Body
  <2>1. PICK f : Turns(f, r0, g, l)
    BY TurnsExist
  <2>2. \A i \in 1..l : \A x \in R[i - 1] : g[i][x] \in R[i]
    BY <1>3
  <2>3. \A n \in 0..l : f[n] \in R[n]
    BY <2>1, <2>2, TurnsKeep DEF r0
  <2>4. \A i \in 0..l : f[i] = Body(f)[i]
    <3> TAKE i \in 0..l
    <3>1. f[i] = IF i = 0 THEN r0 ELSE g[i][f[i - 1]]
      BY <2>1 DEF Turns
    <3>2. CASE i = 0
      BY <1>2, <3>1, <3>2
    <3>3. CASE i # 0
      <4>1. i \in 1..l /\ i - 1 \in 0..l
        BY <3>3
      <4> QED
        BY <1>2, <1>3, <2>3, <3>1, <3>3, <4>1
    <3> QED
      BY <3>2, <3>3
  <2>5. f = [i \in 0..l |-> f[i]]
    BY <2>1 DEF Turns
  <2>6. Body(f) = [i \in 0..l |-> Body(f)[i]]
    BY DEF Body
  <2> QED
    BY <2>4, <2>5, <2>6
<1>6. run = Body(run)
  <2> HIDE DEF Body
  <2> QED
    BY <1>5
<1> QED
  <2> HIDE DEF run, Body
  <2>1. l \in 0..l
    OBVIOUS
  <2> QED
    BY <1>1, <1>4, <1>6, <2>1

\* The number that digits are is one.
LEMMA ValueIsInt ==
  ASSUME NEW s \in Seq(Digits)
  PROVE  Value(s) \in Int
<1> DEFINE l == Len(s)
           W(x) == x % SizeMod
           g == [i \in 1..l |-> [x \in Int |-> W(10 * x + (s[i] - Digit(0)))]]
           R == [i \in 0..l |-> Int]
           Body(f) == [i \in 0..Len(s) |->
                            IF i = 0 THEN 0 ELSE W(10 * f[i - 1] + (s[i] - Digit(0)))]
           value == CHOOSE f : f = Body(f)
<1>1. l \in Nat /\ \A i \in 1..l : s[i] \in Int
  <2>1. l \in Nat
    BY LenProperties
  <2>2. \A i \in 1..l : s[i] \in Digits
    BY ElementOfSeq
  <2> QED
    BY <2>1, <2>2 DEF Digits
<1>2. Value(s) = value[l]
  BY DEF Value
<1>0. \A x \in Int : W(x) \in Int
  BY MonitorAssumption
<1> HIDE DEF W
<1>3. \E f : f = Body(f)
  <2> HIDE DEF Body
  <2>1. PICK f : Turns(f, 0, g, l)
    BY <1>1, TurnsExist
  <2>2. \A i \in 1..l : \A x \in R[i - 1] : 
           g[i][x] \in R[i] /\ g[i][x] = W(10 * x + (s[i] - Digit(0)))
    <3> TAKE i \in 1..l
    <3>1. R[i - 1] = Int /\ R[i] = Int
      BY <1>1
    <3>2. \A x \in Int : 10 * x + (s[i] - Digit(0)) \in Int
      BY <1>1 DEF Digit
    <3> QED
      BY <1>0, <1>1, <3>1, <3>2
  <2>3. \A n \in 0..l : f[n] \in Int
    <3>1. 0 \in R[0]
      BY <1>1
    <3> HIDE DEF g, l
    <3>2. \A i \in 1..l : \A x \in R[i - 1] : g[i][x] \in R[i]
      BY <2>2
    <3>4. \A n \in 0..l : f[n] \in R[n]
      <4> HIDE DEF R
      <4> QED
        BY <1>1, <2>1, <3>1, <3>2, TurnsKeep
    <3> QED
      BY <3>4
  <2>4. \A i \in 0..l : f[i] = IF i = 0 THEN 0 ELSE W(10 * f[i - 1] + (s[i] - Digit(0)))
    <3> TAKE i \in 0..l
    <3>1. f[i] = IF i = 0 THEN 0 ELSE g[i][f[i - 1]]
      BY <2>1 DEF Turns
    <3>2. CASE i # 0
      <4>1. i \in 1..l /\ i - 1 \in 0..l
        BY <1>1, <3>2
      <4>2. f[i - 1] \in R[i - 1]
        BY <2>3, <4>1
      <4> HIDE DEF g, R
      <4> QED
        BY <2>2, <3>1, <3>2, <4>1, <4>2
    <3> QED
      BY <3>1, <3>2
  <2>5. f = [i \in 0..l |-> f[i]]
    BY <2>1 DEF Turns
  <2>6. Body(f) = [i \in 0..l |-> f[i]]
    BY <2>4 DEF Body
  <2> QED
    BY <2>5, <2>6
<1>4. value = Body(value)
  <2> HIDE DEF Body
  <2> QED
    BY <1>3
<1>5. \A i \in 0..l :
        value[i] = IF i = 0 THEN 0 ELSE W(10 * value[i - 1] + (s[i] - Digit(0)))
  <2> HIDE DEF value
  <2> QED
    BY <1>4
<1> QED
  <2> HIDE DEF value
  <2> DEFINE S == {i \in 0..l : value[i] \in Int}
  <2>1. 0 \in S
    BY <1>1, <1>5
  <2>2. ASSUME NEW i \in 0..(l - 1), i \in S PROVE i + 1 \in S
    <3>1. i + 1 \in 1..l /\ i + 1 \in 0..l /\ (i + 1) - 1 = i
      BY <1>1
    <3>2. value[i + 1] = W(10 * value[i] + (s[i + 1] - Digit(0)))
      BY <1>5, <3>1
    <3>3. \A v, d \in Int : 10 * v + (d - Digit(0)) \in Int
      BY DEF Digit
    <3> QED
      BY <1>0, <1>1, <2>2, <3>1, <3>2, <3>3
  <2>3. l \in S
    <3> HIDE DEF S
    <3> QED
      BY <1>1, <2>1, <2>2, UpTo
  <2> QED
    BY <1>2, <2>3

-----------------------------------------------------------------------------
(* The types of what a buffer makes of a parser *)

\* A byte more leaves the parser of the credentials one.
LEMMA AuthFeeds ==
  ASSUME NEW p \in AuthPars, NEW c \in Octet
  PROVE  FeedAuth(p, c) \in AuthPars
<1>1. p.user \in Seq(Octet) /\ p.password \in Seq(Octet)
  BY DEF AuthPars
<1>2. Append(p.user, c) \in Seq(Octet) /\ Append(p.password, c) \in Seq(Octet)
  BY <1>1, AppendProperties
<1> QED
  BY <1>1, <1>2 DEF AuthPars, FeedAuth, Octet

\* The buffers of the struct after a part of what was sent.
LEMMA AuthFedIn ==
  ASSUME NEW p \in AuthPars, NEW s \in Seq(Octet)
  PROVE  AuthFed(p, s).pars \in AuthPars /\ AuthFed(p, s).taken \in 0..Len(s)
<1> DEFINE R == [i \in 0..Len(s) |-> [pars : AuthPars, taken : 0..i]]
<1>1. Len(s) \in Nat /\ \A i \in 1..Len(s) : s[i] \in Octet
  BY LenProperties, ElementOfSeq
<1>2. [pars |-> p, taken |-> 0] \in R[0]
  BY <1>1
<1>3. ASSUME NEW i \in 1..Len(s), NEW r \in R[i - 1] PROVE AuthTurn(r, s, i) \in R[i]
  <2>1. i - 1 \in 0..Len(s) /\ i \in 0..Len(s) /\ (0..(i - 1)) \subseteq 0..i /\ i \in 0..i
    BY <1>1
  <2>2. r \in [pars : AuthPars, taken : 0..(i - 1)]
    BY <1>3, <2>1
  <2>3. FeedAuth(r.pars, s[i]) \in AuthPars
    BY <1>1, <2>2, AuthFeeds
  <2> HIDE DEF AuthPars
  <2>4. AuthTurn(r, s, i) \in [pars : AuthPars, taken : 0..i]
    BY <2>1, <2>2, <2>3 DEF AuthTurn
  <2> QED
    BY <2>1, <2>4
<1>4. AuthFed(p, s) \in R[Len(s)]
  <2> HIDE DEF R
  <2> QED
    BY <1>1, <1>2, <1>3, AuthFedKeeps
<1> QED
  BY <1>1, <1>4

\* A byte more leaves the parser of a command sound.
LEMMA RequestFeeds ==
  ASSUME NEW p, RequestSound(p), NEW c \in Octet
  PROVE  RequestSound(FeedRequest(p, c))
<1>1. /\ p \in RequestPars
      /\ p.user \in Seq(Octet) => Append(p.user, c) \in Seq(Octet)
      /\ p.password \in Seq(Octet) => Append(p.password, c) \in Seq(Octet)
      /\ p.new_buff_size \in Seq(Digits) /\ c \in Digits =>
           Append(p.new_buff_size, c) \in Seq(Digits)
      /\ << >> \in Seq(Octet) /\ << >> \in Seq(Digits)
  BY AppendProperties, EmptySeq DEF RequestSound
<1>2. /\ Digit(1) # Digit(2) /\ Digit(1) # Digit(3) /\ Digit(1) # Digit(4) /\ Digit(2) # Digit(3)
      /\ Digit(2) # Digit(4) /\ Digit(3) # Digit(4)
  BY DEF Digit
<1>3. CASE p.state = "reading_cmd"
  BY <1>1, <1>2, <1>3 DEF FeedRequest, FeedCommand, RequestSound, RequestPars
<1>4. CASE p.state = "reading_user"
  <2>1. FeedRequest(p, c) = FeedUser(p, c) /\ p.user \in Seq(Octet)
    BY <1>4 DEF FeedRequest, RequestSound
  <2>2. CASE c = Space
    BY <1>1, <1>4, <2>1, <2>2 DEF FeedUser, RequestSound, RequestPars
  <2>3. CASE c = Newline /\ c # Space
    BY <1>1, <1>4, <2>1, <2>3 DEF FeedUser, RequestSound, RequestPars
  <2>4. CASE c # Space /\ c # Newline
    BY <1>1, <1>4, <2>1, <2>4 DEF FeedUser, RequestSound, RequestPars
  <2> QED
    BY <2>2, <2>3, <2>4
<1>5. CASE p.state = "reading_pass"
  BY <1>1, <1>2, <1>5 DEF FeedRequest, FeedPass, RequestSound, RequestPars
<1>6. CASE p.state = "reading_buff_size"
  BY <1>1, <1>2, <1>6 DEF FeedRequest, FeedSize, RequestSound, RequestPars
<1>7. CASE p.state \notin {"reading_cmd", "reading_user", "reading_pass", "reading_buff_size"}
  <2>1. CASE p.state = "reading_add_user_cmd"
    BY <1>1, <1>2, <2>1 DEF FeedRequest, RequestSound, RequestPars
  <2>2. CASE p.state = "reading_change_buff_size_cmd"
    BY <1>1, <1>2, <2>2 DEF FeedRequest, RequestSound, RequestPars
  <2>3. CASE p.state \in {"reading_metrics_cmd", "reading_list_user_cmd"}
    BY <1>1, <1>2, <2>3 DEF FeedRequest, RequestSound, RequestPars
  <2>4. CASE p.state \in {"done", "invalid_cmd"}
    <3>1. FeedRequest(p, c) = p
      BY <2>4 DEF FeedRequest
    <3> QED
      BY <3>1
  <2> QED
    BY <1>1, <1>7, <2>1, <2>2, <2>3, <2>4 DEF RequestPars
<1> QED
  BY <1>3, <1>4, <1>5, <1>6, <1>7

\* So does a buffer.
LEMMA RequestFedIn ==
  ASSUME NEW p, RequestSound(p), NEW s \in Seq(Octet)
  PROVE  RequestSound(RequestFed(p, s).pars) /\ RequestFed(p, s).taken \in 0..Len(s)
<1> DEFINE Sound == {q \in RequestPars : RequestSound(q)}
           R == [i \in 0..Len(s) |-> [pars : Sound, taken : 0..i]]
<1>1. Len(s) \in Nat /\ \A i \in 1..Len(s) : s[i] \in Octet
  BY LenProperties, ElementOfSeq
<1>2. p \in Sound /\ \A q \in Sound : \A c \in Octet : FeedRequest(q, c) \in Sound
  <2>1. p \in Sound
    BY DEF RequestSound
  <2>2. ASSUME NEW q \in Sound, NEW c \in Octet PROVE FeedRequest(q, c) \in Sound
    <3>1. RequestSound(FeedRequest(q, c))
      BY <2>2, RequestFeeds
    <3> QED
      BY <3>1 DEF RequestSound
  <2> QED
    BY <2>1, <2>2
<1> HIDE DEF Sound
<1>3. [pars |-> p, taken |-> 0] \in R[0]
  BY <1>1, <1>2
<1>4. ASSUME NEW i \in 1..Len(s), NEW r \in R[i - 1] PROVE RequestTurn(r, s, i) \in R[i]
  <2>1. i - 1 \in 0..Len(s) /\ i \in 0..Len(s) /\ (0..(i - 1)) \subseteq 0..i /\ i \in 0..i
    BY <1>1
  <2>2. r \in [pars : Sound, taken : 0..(i - 1)]
    BY <1>4, <2>1
  <2>3. FeedRequest(r.pars, s[i]) \in Sound
    BY <1>1, <1>2, <2>2
  <2>4. RequestTurn(r, s, i) \in [pars : Sound, taken : 0..i]
    BY <2>1, <2>2, <2>3 DEF RequestTurn
  <2> QED
    BY <2>1, <2>4
<1>5. RequestFed(p, s) \in R[Len(s)]
  <2> HIDE DEF R
  <2> QED
    BY <1>1, <1>3, <1>4, RequestFedKeeps
<1> QED
  BY <1>1, <1>5 DEF Sound

\* A parser that starts anew is sound.
LEMMA RequestStarts ==
  ASSUME NEW c \in Octet
  PROVE  RequestSound(RequestParserInit(c))
BY EmptySeq DEF RequestSound, RequestParserInit, RequestPars

-----------------------------------------------------------------------------
(* What a command makes of the users and of the size *)

\* What a string is up to its terminator.
LEMMA CStringIn ==
  ASSUME NEW s \in Seq(Octet)
  PROVE  CString(s) \in Seq(Octet)
<1> DEFINE Z == {i \in DOMAIN s : s[i] = 0}
<1>1. Len(s) \in Nat /\ DOMAIN s = 1..Len(s) /\ \A i \in 1..Len(s) : s[i] \in Octet
  BY LenProperties, ElementOfSeq
<1>2. CASE Z # {}
  <2>1. Z \in SUBSET Nat /\ Z \subseteq 1..Len(s)
    BY <1>1
  <2>2. Min(Z) \in Z
    <3> HIDE DEF Z
    <3> QED
      BY <1>2, <2>1, MinIs
  <2>3. Min(Z) \in 1..Len(s)
    BY <2>1, <2>2
  <2>4. Min(Z) - 1 \in Int /\ \A i \in 1..(Min(Z) - 1) : s[i] \in Octet
    <3> HIDE DEF Z
    <3> QED
      BY <1>1, <2>3
  <2>5. SubSeq(s, 1, Min(Z) - 1) \in Seq(Octet)
    <3> HIDE DEF Z
    <3> QED
      BY <2>4, SubSeqProperties
  <2> QED
    BY <1>2, <2>5 DEF CString
<1>3. CASE Z = {}
  BY <1>3 DEF CString
<1> QED
  BY <1>2, <1>3

\* The table of users and the size within their limits.
Limits(u, size) ==
  /\ u \in Table /\ Len(u) <= MaxUsers
  /\ size \in MinBufferSize..MaxBuffSize

\* add_user keeps the table within its limit.
LEMMA AddUserLimits ==
  ASSUME users \in Table, Len(users) <= MaxUsers,
         NEW name \in Seq(Octet), NEW pass \in Seq(Octet \cup {Garbage})
  PROVE  AddUser(name, pass).users \in Table /\ Len(AddUser(name, pass).users) <= MaxUsers
<1>1. MaxUsers \in Nat
  BY MonitorAssumption
<1> DEFINE u == [name |-> name, pass |-> pass]
<1>2. /\ Append(users, u) \in Table /\ Len(Append(users, u)) = Len(users) + 1
      /\ Len(users) \in Nat
  <2>1. u \in [name : Seq(Octet), pass : Seq(Octet \cup {Garbage})]
    OBVIOUS
  <2> QED
    BY <2>1, AppendProperties, LenProperties DEF Table
<1> QED
  BY <1>1, <1>2 DEF AddUser

\* change_buffer_size keeps the size within its limits.
LEMMA SetBuffSizeLimits ==
  ASSUME buffSize \in MinBufferSize..MaxBuffSize, NEW n \in Int
  PROVE  SetBuffSize(n).size \in MinBufferSize..MaxBuffSize
BY MonitorAssumption DEF SetBuffSize

\* What memory holds in place of a field, or behind it.
LEMMA WrittenIn ==
  ASSUME NEW p, NEW f \in Seq(Octet), NEW x \in Written(p, f)
  PROVE  x \in Seq(Octet \cup {Garbage})
<1> DEFINE G == Octet \cup {Garbage}
           pad == [i \in 1..(MaxCredentialsLen + 1) |-> Garbage]
<1>1. f \in Seq(G)
  BY SeqMonotonic
<1>2. << >> \in Seq(G) /\ <<Garbage>> \in Seq(G) /\ pad \in Seq(G)
  <2>1. MaxCredentialsLen + 1 \in Nat
    BY MonitorAssumption
  <2> QED
    BY <2>1
<1>3. \A rest \in {<< >>, <<Garbage>>, pad} : f \o rest \in Seq(G)
  BY <1>1, <1>2, ConcatProperties
<1> QED
  BY <1>1, <1>3 DEF Written

\* Whatever a command was made of, the limits stand.
LEMMA OutcomesLimits ==
  ASSUME NEW p, RequestSound(p), ~Crashes(p), Limits(users, buffSize), NEW o \in Outcomes(p)
  PROVE  Limits(o.users, o.size)
<1>1. CASE p.state = "invalid_cmd"
  <2>1. \E r : o = Outcome(r, users, buffSize)
    BY <1>1 DEF Outcomes, Digit
  <2>2. o.users = users /\ o.size = buffSize
    BY <2>1 DEF Outcome
  <2> QED
    BY <2>2
<1>2. CASE p.state # "invalid_cmd" /\ p.cmd_selected = Digit(1)
  <2>1. \E r : o = Outcome(r, users, buffSize)
    BY <1>2 DEF Outcomes, Digit
  <2>2. o.users = users /\ o.size = buffSize
    BY <2>1 DEF Outcome
  <2> QED
    BY <2>2
<1>3. CASE p.state # "invalid_cmd" /\ p.cmd_selected = Digit(2)
  <2>1. p.password \in Seq(Octet) /\ p.user \in Seq(Octet)
    BY <1>3 DEF Crashes, RequestSound, RequestPars
  <2>2. PICK pass \in Written(p, p.password) :
          o = Outcome(Says(AddUser(CString(p.user), pass).ret), AddUser(CString(p.user), pass).users, buffSize)
    BY <1>3 DEF Outcomes, Digit
  <2>3. pass \in Seq(Octet \cup {Garbage}) /\ CString(p.user) \in Seq(Octet)
    BY <2>1, <2>2, WrittenIn, CStringIn
  <2>4. o.users = AddUser(CString(p.user), pass).users /\ o.size = buffSize
    BY <2>2 DEF Outcome
  <2> QED
    BY <2>3, <2>4, AddUserLimits DEF Limits
<1>4. CASE p.state # "invalid_cmd" /\ p.cmd_selected = Digit(3)
  <2>1. \E r : o = Outcome(r, users, buffSize)
    BY <1>4 DEF Outcomes, Digit
  <2>2. o.users = users /\ o.size = buffSize
    BY <2>1 DEF Outcome
  <2> QED
    BY <2>2
<1>5. CASE p.state # "invalid_cmd" /\ p.cmd_selected = Digit(4)
  <2> DEFINE N == IF p.state = "done" THEN {Value(p.new_buff_size)}
                  ELSE {MinBufferSize - 1, MaxBuffSize}
  <2>1. PICK n \in N : o = Outcome(Says(SetBuffSize(n).ret), users, SetBuffSize(n).size)
    BY <1>5 DEF Outcomes, Digit
  <2>2. n \in Int
    <3>1. CASE p.state = "done"
      BY <1>5, <3>1, ValueIsInt DEF RequestSound
    <3>2. CASE p.state # "done"
      BY <3>2, MonitorAssumption
    <3> QED
      BY <3>1, <3>2
  <2> HIDE DEF N
  <2>3. o.users = users /\ o.size = SetBuffSize(n).size
    BY <2>1 DEF Outcome
  <2> QED
    BY <2>2, <2>3, SetBuffSizeLimits DEF Limits
<1>6. CASE p.state # "invalid_cmd" /\ p.cmd_selected \notin {Digit(1), Digit(2), Digit(3), Digit(4)}
  <2>1. \E r : o = Outcome(r, users, buffSize)
    BY <1>6 DEF Outcomes, Digit
  <2>2. o.users = users /\ o.size = buffSize
    BY <2>1 DEF Outcome
  <2> QED
    BY <2>2
<1> QED
  BY <1>1, <1>2, <1>3, <1>4, <1>5, <1>6

-----------------------------------------------------------------------------
(* The list *)

\* The number of structs on the list is one, and no more than there are.
LEMMA OpenIsFinite ==
  /\ IsFiniteSet(Open) /\ Cardinality(Open) \in Nat /\ Cardinality(Admin) \in Nat
  /\ Cardinality(Open) <= Cardinality(Admin)
  /\ Cardinality(Open) = 0 <=> Open = {}
<1>1. Open \in SUBSET Admin /\ IsFiniteSet(Admin)
  BY MonitorAssumption DEF Open
<1>2. IsFiniteSet(Open) /\ Cardinality(Open) <= Cardinality(Admin)
  BY <1>1, FS_Subset
<1> QED
  BY <1>1, <1>2, FS_CardinalityType, FS_EmptySet

\* What as many hops lead to is the struct of that index, and Null behind the
\* last one.
LEMMA HopIs ==
  ASSUME Chain, adm \in [Admin -> Struct]
  PROVE  /\ \A n \in Nat : n < Cardinality(Open) =>
                             Hop[n] \in Open /\ adm[Hop[n]].list_index = n
         /\ \A n \in Nat : n >= Cardinality(Open) => Hop[n] = Null
         /\ \A a \in Open : adm[a].list_index \in Nat /\ Hop[adm[a].list_index] = a
<1> DEFINE k == Cardinality(Open)
           At(n) == CHOOSE a \in Open : adm[a].list_index = n
           g == [n \in Nat |-> IF n < k THEN At(n) ELSE Null]
           Body(f) == [n \in Nat |-> IF n = 0 THEN first
                                         ELSE IF f[n - 1] = Null THEN Null ELSE adm[f[n - 1]].next]
<1>1. k \in Nat /\ (k = 0 <=> Open = {}) /\ Null \notin Open
  BY OpenIsFinite, MonitorAssumption DEF Open
<1>2. \A a \in Open : adm[a].list_index \in Nat
  BY DEF Open, Struct
<1>3. \A n \in Nat : n < k => At(n) \in Open /\ adm[At(n)].list_index = n
  BY DEF Chain
<1>4. \A n \in Nat : \A a \in Open : n < k /\ adm[a].list_index = n => a = At(n)
  BY <1>3 DEF Chain
<1>5. \A n \in Nat : /\ n < k => g[n] = At(n) /\ g[n] \in Open /\ adm[g[n]].list_index = n
                     /\ n >= k => g[n] = Null
  BY <1>1, <1>3
<1>6. \A n \in Nat : g[n] = IF n = 0 THEN first
                            ELSE IF g[n - 1] = Null THEN Null ELSE adm[g[n - 1]].next
  <2> TAKE n \in Nat
  <2> HIDE DEF g, At, k
  <2>1. CASE n = 0
    <3>1. CASE k = 0
      BY <1>1, <1>5, <2>1, <3>1 DEF Chain
    <3>2. CASE k # 0
      <4>1. first \in Open /\ adm[first].list_index = 0 /\ 0 < k
        BY <1>1, <3>2 DEF Chain
      <4> QED
        BY <1>4, <1>5, <2>1, <4>1
    <3> QED
      BY <3>1, <3>2
  <2>2. CASE n # 0
    <3>1. n - 1 \in Nat /\ (n - 1) + 1 = n
      BY <2>2
    <3>2. CASE n - 1 >= k
      <4>1. n >= k
        BY <1>1, <3>2
      <4> QED
        BY <1>5, <2>2, <3>1, <3>2, <4>1
    <3>3. CASE n - 1 < k
      <4> DEFINE b == g[n - 1]
      <4>1. b \in Open /\ adm[b].list_index = n - 1 /\ b # Null
        BY <1>1, <1>5, <3>1, <3>3
      <4>2. IF n = k THEN adm[b].next = Null
            ELSE adm[b].next \in Open /\ adm[adm[b].next].list_index = n
        BY <3>1, <4>1 DEF Chain, k
      <4> HIDE DEF b
      <4>3. CASE n = k
        BY <1>1, <1>5, <2>2, <4>1, <4>2, <4>3 DEF b
      <4>4. CASE n # k
        <5>1. n < k
          BY <1>1, <3>1, <3>3, <4>4
        <5> QED
          BY <1>4, <1>5, <2>2, <4>1, <4>2, <4>4, <5>1 DEF b
      <4> QED
        BY <4>3, <4>4
    <3> QED
      BY <1>1, <3>1, <3>2, <3>3
  <2> QED
    BY <2>1, <2>2
<1>7. g = Body(g)
  BY <1>6
<1>8. Hop = CHOOSE f : f = Body(f)
  BY DEF Hop
<1>9. Hop = Body(Hop)
  <2> HIDE DEF g, Body
  <2> QED
    BY <1>7, <1>8
<1>10. \A n \in Nat : Hop[n] = IF n = 0 THEN first
                               ELSE IF Hop[n - 1] = Null THEN Null ELSE adm[Hop[n - 1]].next
  BY <1>9
<1>11. \A n \in Nat : Hop[n] = g[n]
  <2> TAKE n \in Nat
  <2> DEFINE S == {i \in Nat : Hop[i] = g[i]}
  <2> HIDE DEF g
  <2>1. 0 \in S
    BY <1>6, <1>10
  <2>2. ASSUME NEW i \in 0..(n - 1), i \in S PROVE i + 1 \in S
    <3>1. i + 1 \in Nat /\ i \in Nat /\ i + 1 # 0 /\ (i + 1) - 1 = i
      OBVIOUS
    <3> QED
      BY <1>6, <1>10, <2>2, <3>1
  <2>3. n \in S
    <3> HIDE DEF S
    <3> QED
      BY <2>1, <2>2, UpTo
  <2> QED
    BY <2>3
<1> HIDE DEF g
<1>12. \A a \in Open : Hop[adm[a].list_index] = a
  <2> TAKE a \in Open
  <2> DEFINE n == adm[a].list_index
  <2>1. n \in Nat /\ n < k
    BY <1>2 DEF Chain
  <2>2. a = At(n)
    BY <1>4, <2>1
  <2>3. Hop[n] = At(n)
    <3> HIDE DEF At, n
    <3> QED
      BY <1>5, <1>11, <2>1
  <2> QED
    BY <2>2, <2>3
<1> HIDE DEF At
<1>13. ASSUME NEW n \in Nat, n < k PROVE Hop[n] \in Open /\ adm[Hop[n]].list_index = n
  BY <1>5, <1>11, <1>13
<1>14. ASSUME NEW n \in Nat, n >= k PROVE Hop[n] = Null
  BY <1>5, <1>11, <1>14
<1> QED
  BY <1>2, <1>12, <1>13, <1>14

\* The last hop that leads to a struct.
LEMMA LastHopIs ==
  ASSUME Chain, adm \in [Admin -> Struct], Open # {}
  PROVE  /\ LastHop \in Nat /\ LastHop + 1 = Cardinality(Open)
         /\ Hop[LastHop] \in Open /\ adm[Hop[LastHop]].list_index = LastHop
<1> DEFINE k == Cardinality(Open)
           L == {n \in 0..Cardinality(Admin) : Hop[n] # Null /\ adm[Hop[n]].next = Null}
<1>1. k \in Nat /\ k # 0 /\ k - 1 \in 0..Cardinality(Admin) /\ Null \notin Open
  BY OpenIsFinite, MonitorAssumption DEF Open
<1>2. L \in SUBSET Nat /\ \A n \in L : n = k - 1
  <2> SUFFICES ASSUME NEW n \in L PROVE n \in Nat /\ n = k - 1
    OBVIOUS
  <2>1. n \in Nat /\ Hop[n] # Null /\ adm[Hop[n]].next = Null
    BY OpenIsFinite
  <2>2. n < k
    BY <1>1, <2>1, HopIs
  <2>3. Hop[n] \in Open /\ adm[Hop[n]].list_index = n
    BY <2>1, <2>2, HopIs
  <2>4. n + 1 = k
    BY <1>1, <2>1, <2>3 DEF Chain
  <2> QED
    BY <1>1, <2>1, <2>4
<1>3. k - 1 \in L
  <2>1. k - 1 \in Nat /\ k - 1 < k /\ (k - 1) + 1 = k
    BY <1>1
  <2>2. Hop[k - 1] \in Open /\ adm[Hop[k - 1]].list_index = k - 1
    BY <2>1, HopIs
  <2>3. adm[Hop[k - 1]].next = Null
    BY <2>1, <2>2 DEF Chain
  <2> QED
    BY <1>1, <2>2, <2>3
<1>4. LastHop = k - 1
  <2>1. LastHop = Min(L)
    BY DEF LastHop
  <2> HIDE DEF L
  <2>2. Min(L) \in L
    BY <1>2, <1>3, MinIs
  <2> QED
    BY <1>2, <2>1, <2>2
<1>5. LastHop \in Nat /\ LastHop < k /\ LastHop + 1 = k
  BY <1>1, <1>4
<1> QED
  BY <1>5, HopIs

\* The same of a set O of structs with the indexes ix, the pointers nx and the
\* head f, k of them.
Linked(O, ix, nx, f, k) ==
  /\ \A a \in O : ix[a] < k
  /\ \A a, b \in O : ix[a] = ix[b] => a = b
  /\ \A n \in Nat : n < k => \E a \in O : ix[a] = n
  /\ IF O = {} THEN f = Null ELSE f \in O /\ ix[f] = 0
  /\ \A a \in O : IF ix[a] + 1 = k THEN nx[a] = Null
                   ELSE nx[a] \in O /\ ix[nx[a]] = ix[a] + 1

Indexes == [a \in Admin |-> adm[a].list_index]
Nexts == [a \in Admin |-> adm[a].next]

\* The list says of the structs what Chain says.
LEMMA ChainIsLinked == Chain <=> Linked(Open, Indexes, Nexts, first, Cardinality(Open))
<1>1. \A a \in Open : Indexes[a] = adm[a].list_index /\ Nexts[a] = adm[a].next
  BY DEF Indexes, Nexts, Open
<1>2. ASSUME Chain PROVE Linked(Open, Indexes, Nexts, first, Cardinality(Open))
  BY <1>1, <1>2 DEF Chain, Linked
<1>3. ASSUME Linked(Open, Indexes, Nexts, first, Cardinality(Open)) PROVE Chain
  BY <1>1, <1>3 DEF Chain, Linked
<1> QED
  BY <1>2, <1>3

\* The same of the next state.
LEMMA LinkedIsChainNext ==
  ASSUME Linked(Open', Indexes', Nexts', first', Cardinality(Open'))
  PROVE  Chain'
<1>1. \A a \in Open' : Indexes'[a] = adm'[a].list_index /\ Nexts'[a] = adm'[a].next
  BY DEF Indexes, Nexts, Open
<1> QED
  BY <1>1 DEF Chain, Linked

\* A list of one.
LEMMA LinkedOne ==
  ASSUME NEW a, NEW ix, NEW nx, ix[a] = 0, nx[a] = Null
  PROVE  Linked({a}, ix, nx, a, 1)
BY DEF Linked

\* One more behind the last one, z.
LEMMA LinkedAppend ==
  ASSUME NEW O, NEW a, a \notin O, NEW ix, NEW nx, NEW f, NEW k \in Nat,
         Linked(O, ix, nx, f, k), \A b \in O : ix[b] \in Nat,
         NEW z \in O, ix[z] + 1 = k,
         NEW jx, NEW mx, jx[a] = k, mx[a] = Null, mx[z] = a,
         \A b \in O : jx[b] = ix[b] /\ (b # z => mx[b] = nx[b])
  PROVE  Linked(O \cup {a}, jx, mx, f, k + 1)
<1>1. \A b \in O \cup {a} : jx[b] < k + 1
  BY DEF Linked
<1>2. \A b, c \in O \cup {a} : jx[b] = jx[c] => b = c
  BY DEF Linked
<1>3. ASSUME NEW n \in Nat, n < k + 1 PROVE \E b \in O \cup {a} : jx[b] = n
  <2>1. CASE n = k
    BY <2>1
  <2>2. CASE n # k
    <3>1. n < k
      BY <1>3, <2>2
    <3>2. PICK b \in O : ix[b] = n
      BY <3>1 DEF Linked
    <3> QED
      BY <3>2
  <2> QED
    BY <2>1, <2>2
<1>4. f \in O /\ jx[f] = 0
  BY DEF Linked
<1>5. ASSUME NEW b \in O \cup {a}
      PROVE  IF jx[b] + 1 = k + 1 THEN mx[b] = Null
             ELSE mx[b] \in O \cup {a} /\ jx[mx[b]] = jx[b] + 1
  <2>1. CASE b = a
    BY <2>1
  <2>2. CASE b = z
    BY <2>2 DEF Linked
  <2>3. CASE b \in O /\ b # z
    <3>1. ix[b] # ix[z] /\ ix[b] \in Nat /\ ix[z] \in Nat /\ ix[b] < k
      BY <2>3 DEF Linked
    <3>2. ix[b] + 1 # k /\ ix[b] + 1 # k + 1
      BY <3>1
    <3>3. nx[b] \in O /\ ix[nx[b]] = ix[b] + 1
      BY <2>3, <3>2 DEF Linked
    <3> QED
      BY <2>3, <3>2, <3>3
  <2> QED
    BY <1>5, <2>1, <2>2, <2>3
<1> QED
  BY <1>1, <1>2, <1>3, <1>4, <1>5 DEF Linked

\* The last one taken away, which z led to.
LEMMA LinkedCut ==
  ASSUME NEW O, NEW a \in O, NEW ix, NEW nx, NEW f, NEW k \in Nat,
         Linked(O, ix, nx, f, k), \A b \in O : ix[b] \in Nat,
         ix[a] + 1 = k, NEW z \in O, z # a, ix[z] + 1 = ix[a],
         NEW jx, NEW mx, mx[z] = Null,
         \A b \in O \ {a} : jx[b] = ix[b] /\ (b # z => mx[b] = nx[b])
  PROVE  Linked(O \ {a}, jx, mx, f, k - 1)
<1>1. \A b \in O \ {a} : ix[b] # ix[a] /\ ix[b] < k - 1
  <2> TAKE b \in O \ {a}
  <2>1. ix[b] # ix[a] /\ ix[b] < k /\ ix[b] \in Nat /\ ix[a] \in Nat
    BY DEF Linked
  <2> QED
    BY <2>1
<1>2. \A b, c \in O \ {a} : jx[b] = jx[c] => b = c
  BY DEF Linked
<1>3. ASSUME NEW n \in Nat, n < k - 1 PROVE \E b \in O \ {a} : jx[b] = n
  <2>1. n < k /\ n + 1 # k
    BY <1>3
  <2>2. PICK b \in O : ix[b] = n
    BY <2>1 DEF Linked
  <2> QED
    BY <2>1, <2>2
<1>4. f \in O \ {a} /\ jx[f] = 0
  <2>1. f \in O /\ ix[f] = 0
    BY DEF Linked
  <2>2. ix[a] # 0
    <3>1. ix[z] \in Nat
      OBVIOUS
    <3> QED
      BY <3>1
  <2> QED
    BY <2>1, <2>2
<1>5. ASSUME NEW b \in O \ {a}
      PROVE  IF jx[b] + 1 = k - 1 THEN mx[b] = Null
             ELSE mx[b] \in O \ {a} /\ jx[mx[b]] = jx[b] + 1
  <2>1. jx[b] = ix[b] /\ ix[b] \in Nat /\ ix[z] \in Nat /\ ix[a] \in Nat /\ ix[b] < k - 1
    BY <1>1
  <2>2. CASE b = z
    BY <2>1, <2>2
  <2>3. CASE b # z
    <3>1. ix[b] # ix[z]
      BY <2>3 DEF Linked
    <3>2. ix[b] + 1 # k /\ ix[b] + 1 # k - 1 /\ ix[b] + 1 # ix[a]
      <4>1. \A x, y, w, m \in Nat : w + 1 = m /\ y + 1 = w /\ x # y /\ x < m - 1
                                   => x + 1 # m /\ x + 1 # m - 1 /\ x + 1 # w
        OBVIOUS
      <4> QED
        BY <2>1, <3>1, <4>1
    <3>3. nx[b] \in O /\ ix[nx[b]] = ix[b] + 1
      BY <3>2 DEF Linked
    <3>4. nx[b] # a
      BY <3>2, <3>3
    <3> QED
      BY <2>1, <2>3, <3>2, <3>3, <3>4
  <2> QED
    BY <2>2, <2>3
<1> QED
  BY <1>1, <1>2, <1>3, <1>4, <1>5 DEF Linked

\* A step that changes no struct's place on the list keeps it.
LEMMA ListKept ==
  ASSUME Chain, first' = first,
         \A a \in Admin : /\ adm'[a].next = adm[a].next /\ adm'[a].list_index = adm[a].list_index
                          /\ adm'[a].state = "CLOSED" <=> adm[a].state = "CLOSED"
  PROVE  Chain' /\ Open' = Open
<1>1. Open' = Open
  BY DEF Open
<1>2. Open \subseteq Admin
  BY DEF Open
<1>3. \A a \in Open : /\ adm'[a].next = adm[a].next /\ adm'[a].list_index = adm[a].list_index
  BY <1>2
<1> QED
  BY <1>1, <1>3 DEF Chain

\* A struct that was closed, and one that was just opened.
LEMMA Fresh ==
  LET new == [Closed EXCEPT !.state = "ADMIN_AUTH", !.interest = "OP_READ"]
  IN /\ Closed \in Struct /\ new \in Struct
     /\ Closed.state = "CLOSED" /\ Closed.interest = "none" /\ Closed.req = RequestParserInit(0)
     /\ Closed.next = Null
     /\ new.state = "ADMIN_AUTH" /\ new.interest = "OP_READ" /\ new.next = Null
     /\ new.list_index = 0 /\ new.req = RequestParserInit(0) /\ new.rb = << >>
<1>1. /\ AuthParserInit \in AuthPars /\ RequestParserInit(0) \in RequestPars
      /\ << >> \in Seq(Octet)
  <2>1. 0 \in Octet /\ << >> \in Seq(Octet)
    BY EmptySeq DEF Octet
  <2>2. RequestSound(RequestParserInit(0))
    BY <2>1, RequestStarts
  <2> QED
    BY <2>1, <2>2 DEF AuthParserInit, AuthPars, RequestSound
<1> QED
  BY <1>1 DEF Closed, Struct

\* Who comes is appended.
LEMMA NewAdminAppends ==
  ASSUME Chain, adm \in [Admin -> Struct], first \in Admin \cup {Null},
         NEW a \in Admin \ Open, NewAdmin(a)
  PROVE  /\ adm' \in [Admin -> Struct] /\ first' \in Admin \cup {Null}
         /\ Open' = Open \cup {a} /\ Chain'
         /\ adm'[a].state = "ADMIN_AUTH" /\ adm'[a].interest = "OP_READ"
         /\ adm'[a].req = RequestParserInit(0) /\ adm'[a].rb = << >>
         /\ \A b \in Admin \ {a} : /\ adm'[b].state = adm[b].state
                                    /\ adm'[b].interest = adm[b].interest
                                    /\ adm'[b].req = adm[b].req
<1> DEFINE new == [Closed EXCEPT !.state = "ADMIN_AUTH", !.interest = "OP_READ"]
           k == Cardinality(Open)
<1>1. /\ new \in Struct /\ new.state = "ADMIN_AUTH" /\ new.interest = "OP_READ" /\ new.next = Null
      /\ new.list_index = 0 /\ new.req = RequestParserInit(0) /\ new.rb = << >>
  BY Fresh
<1>2. /\ Cardinality(Open \cup {a}) = k + 1 /\ k \in Nat /\ Open \subseteq Admin
      /\ (k = 0 <=> Open = {}) /\ a \in Admin /\ a \notin Open
  BY OpenIsFinite, FS_AddElement DEF Open
<1> HIDE DEF new
<1>3. CASE first = Null
  <2>1. first' = a /\ adm' = [adm EXCEPT ![a] = new]
    BY <1>3 DEF NewAdmin, new
  <2>2. Open = {} /\ k = 0
    BY <1>2, <1>3, MonitorAssumption DEF Chain
  <2>3. /\ adm' \in [Admin -> Struct] /\ adm'[a] = new
        /\ \A b \in Admin \ {a} : adm'[b] = adm[b]
    BY <1>1, <1>2, <2>1
  <2>4. Open' = {a}
    <3>1. \A b \in Admin : adm'[b].state # "CLOSED" <=> b = a
      BY <1>1, <2>2, <2>3 DEF Open
    <3> QED
      BY <1>2, <3>1 DEF Open
  <2>5. Chain'
    <3>1. Cardinality(Open') = 1 /\ Open' # {}
      <4>1. Open \cup {a} = {a}
        BY <2>2
      <4> QED
        BY <1>2, <2>2, <2>4, <4>1
    <3>2. Indexes'[a] = 0 /\ Nexts'[a] = Null
      BY <1>1, <1>2, <2>3 DEF Indexes, Nexts
    <3>3. Linked({a}, Indexes', Nexts', a, 1)
      BY <3>2, LinkedOne
    <3>4. Linked(Open', Indexes', Nexts', first', Cardinality(Open'))
      BY <2>1, <2>4, <3>1, <3>3
    <3> QED
      BY <3>4, LinkedIsChainNext
  <2> QED
    BY <1>1, <1>2, <2>1, <2>2, <2>3, <2>4, <2>5
<1>4. CASE first # Null
  <2> DEFINE z == Hop[LastHop]
             last == [new EXCEPT !.list_index = LastHop + 1]
  <2>1. first' = first /\ adm' = [adm EXCEPT ![z].next = a, ![a] = last]
    BY <1>4 DEF NewAdmin, new
  <2>2. Open # {}
    BY <1>4 DEF Chain
  <2>3. LastHop + 1 = k /\ LastHop \in Nat /\ z \in Open /\ adm[z].list_index = LastHop
    BY <2>2, LastHopIs
  <2>4. last \in Struct /\ last.state = "ADMIN_AUTH" /\ last.interest = "OP_READ"
        /\ last.next = Null /\ last.list_index = k /\ last.req = RequestParserInit(0)
        /\ last.rb = << >>
    BY <1>1, <1>2, <2>3 DEF Struct
  <2> HIDE DEF last, z
  <2>5. z # a /\ z \in Admin
    BY <1>2, <2>3
  <2>6. /\ adm'[a] = last /\ adm'[z] = [adm[z] EXCEPT !.next = a]
        /\ \A b \in Admin \ {a, z} : adm'[b] = adm[b]
        /\ DOMAIN adm' = Admin
    BY <1>2, <2>1, <2>5
  <2>7. /\ adm'[z] \in Struct /\ adm'[z].next = a /\ adm'[z].list_index = adm[z].list_index
        /\ adm'[z].state = adm[z].state /\ adm'[z].interest = adm[z].interest
        /\ adm'[z].req = adm[z].req
    <3>1. adm[z] \in Struct
      BY <2>5
    <3> QED
      BY <1>2, <2>6, <3>1 DEF Struct
  <2>8. adm' \in [Admin -> Struct]
    <3>1. \A b \in Admin : adm'[b] \in Struct
      BY <2>4, <2>6, <2>7
    <3>2. adm' = [adm EXCEPT ![z] = adm'[z], ![a] = adm'[a]]
      BY <1>2, <2>1, <2>5, <2>6
    <3> QED
      BY <1>2, <2>5, <3>1, <3>2
  <2>9. \A b \in Admin : b # a => /\ adm'[b].state = adm[b].state
                                  /\ adm'[b].interest = adm[b].interest
                                  /\ adm'[b].req = adm[b].req
                                  /\ adm'[b].list_index = adm[b].list_index
                                  /\ (b # z => adm'[b].next = adm[b].next)
    BY <2>6, <2>7
  <2>10. Open' = Open \cup {a}
    <3>1. \A b \in Admin : adm'[b].state # "CLOSED" <=> (adm[b].state # "CLOSED" \/ b = a)
      BY <2>4, <2>6, <2>9
    <3> QED
      BY <1>2, <3>1 DEF Open
  <2>11. Chain'
    <3>1. \A b \in Open : b \in Admin /\ b # a /\ adm[b].list_index \in Nat
      BY <1>2 DEF Struct
    <3>2. /\ Linked(Open, Indexes, Nexts, first, k)
          /\ \A b \in Open : Indexes[b] \in Nat
          /\ Indexes[z] + 1 = k
      BY <2>3, <2>5, <3>1, ChainIsLinked DEF Indexes
    <3>3. /\ Indexes'[a] = k /\ Nexts'[a] = Null /\ Nexts'[z] = a
          /\ \A b \in Open : Indexes'[b] = Indexes[b] /\ (b # z => Nexts'[b] = Nexts[b])
      BY <1>2, <2>4, <2>5, <2>6, <2>7, <2>9, <3>1 DEF Indexes, Nexts
    <3>4. k \in Nat /\ a \notin Open /\ z \in Open
      BY <1>2, <2>3
    <3>5. Cardinality(Open') = k + 1
      BY <1>2, <2>10
    <3> HIDE DEF k
    <3>6. Linked(Open \cup {a}, Indexes', Nexts', first, k + 1)
      BY <3>2, <3>3, <3>4, LinkedAppend
    <3>7. Linked(Open', Indexes', Nexts', first', Cardinality(Open'))
      BY <2>1, <2>10, <3>5, <3>6
    <3> QED
      BY <3>7, LinkedIsChainNext
  <2> QED
    BY <2>1, <2>4, <2>6, <2>8, <2>9, <2>10, <2>11
<1> QED
  BY <1>3, <1>4

\* Who goes has nobody behind it, or the loop over those behind it hangs.
LEMMA DestroyCuts ==
  ASSUME Chain, adm \in [Admin -> Struct], first \in Admin \cup {Null}, server = "up",
         sent \in [Admin -> Seq(Octet)], NEW ad \in Open, Destroy(ad)
  PROVE  /\ adm' \in [Admin -> Struct] /\ first' \in Admin \cup {Null}
         /\ sent' \in [Admin -> Seq(Octet)] /\ left' = left \ {ad}
         /\ \/ server' = "hung" /\ Open' = Open
            \/ server' = "up" /\ Open' = Open \ {ad} /\ Chain'
         /\ \A b \in Admin : \/ /\ adm'[b].state = adm[b].state
                               /\ adm'[b].interest = adm[b].interest
                               /\ adm'[b].req = adm[b].req
                            \/ /\ adm'[b].state = "CLOSED" /\ adm'[b].interest = "none"
                               /\ adm'[b].req = RequestParserInit(0)
<1> DEFINE k == Cardinality(Open)
           i == adm[ad].list_index
           z == Hop[IF i > 0 THEN i - 1 ELSE 0]
           cut == [adm EXCEPT ![z].next = adm[ad].next]
<1>1. /\ k \in Nat /\ Open \subseteq Admin /\ ad \in Admin /\ Null \notin Admin
      /\ Cardinality(Open \ {ad}) = k - 1 /\ IsFiniteSet(Open \ {ad})
  <2>1. Open \subseteq Admin /\ Null \notin Admin
    BY MonitorAssumption DEF Open
  <2>2. IsFiniteSet(Open) /\ k \in Nat
    BY OpenIsFinite
  <2>3. Cardinality(Open \ {ad}) = k - 1 /\ IsFiniteSet(Open \ {ad})
    BY <2>2, FS_RemoveElement
  <2> QED
    BY <2>1, <2>2, <2>3
<1>2. i \in Nat /\ i < k /\ Hop[i] = ad
  BY HopIs DEF Chain
<1>3. /\ z \in Open /\ z \in Admin /\ adm[z].list_index = IF i > 0 THEN i - 1 ELSE 0
      /\ i = 0 => z = ad
  <2> DEFINE j == IF i > 0 THEN i - 1 ELSE 0
  <2>1. j \in Nat /\ j < k /\ (i = 0 => j = i)
    BY <1>1, <1>2
  <2>2. Hop[j] \in Open /\ adm[Hop[j]].list_index = j
    <3> HIDE DEF j, i
    <3> QED
      BY <2>1, HopIs
  <2> QED
    BY <1>1, <1>2, <2>1, <2>2
<1>4. IF i + 1 = k THEN adm[ad].next = Null ELSE adm[ad].next \in Admin
  BY <1>1 DEF Chain
<1>5. Closed \in Struct /\ Closed.state = "CLOSED" /\ Closed.interest = "none"
      /\ Closed.req = RequestParserInit(0)
  BY Fresh
<1>6. /\ IF cut[z].next # Null
         THEN server' = "hung" /\ adm' = cut /\ first' = first
         ELSE /\ adm' = [cut EXCEPT ![ad] = Closed]
              /\ first' = IF first = ad THEN Null ELSE first
              /\ server' = server
      /\ sent' = [sent EXCEPT ![ad] = << >>] /\ left' = left \ {ad}
  BY DEF Destroy
<1> HIDE DEF z, i, k, cut
<1>7. /\ cut[z].next = adm[ad].next /\ DOMAIN cut = Admin
      /\ \A b \in Admin : /\ cut[b] \in Struct /\ cut[b].state = adm[b].state
                          /\ cut[b].interest = adm[b].interest /\ cut[b].req = adm[b].req
                          /\ cut[b].list_index = adm[b].list_index
                          /\ b # z => cut[b].next = adm[b].next
  <2>1. /\ cut[z] = [adm[z] EXCEPT !.next = adm[ad].next] /\ DOMAIN cut = Admin
        /\ \A b \in Admin : b # z => cut[b] = adm[b]
    BY <1>3 DEF cut
  <2>2. \A b \in Admin : adm[b] \in Struct
    OBVIOUS
  <2>3. adm[ad].next \in Admin \cup {Null}
    BY <1>4
  <2>4. /\ cut[z] \in Struct /\ cut[z].next = adm[ad].next /\ cut[z].state = adm[z].state
        /\ cut[z].interest = adm[z].interest /\ cut[z].req = adm[z].req
        /\ cut[z].list_index = adm[z].list_index
    BY <1>3, <2>1, <2>2, <2>3 DEF Struct
  <2> QED
    BY <2>1, <2>2, <2>4
<1>8. cut \in [Admin -> Struct]
  <2>1. cut = [b \in Admin |-> cut[b]]
    BY DEF cut
  <2> QED
    BY <1>7, <2>1
<1>9. sent' \in [Admin -> Seq(Octet)]
  BY <1>1, <1>6, EmptySeq
<1>10. CASE adm[ad].next # Null
  <2>1. server' = "hung" /\ adm' = cut /\ first' = first
    BY <1>6, <1>7, <1>10
  <2>2. Open' = Open
    <3>1. \A b \in Admin : adm'[b].state = adm[b].state
      BY <1>7, <2>1
    <3> QED
      BY <3>1 DEF Open
  <2> QED
    BY <1>6, <1>7, <1>8, <1>9, <2>1, <2>2
<1>11. CASE adm[ad].next = Null
  <2>1. /\ server' = "up" /\ adm' = [cut EXCEPT ![ad] = Closed]
        /\ first' = IF first = ad THEN Null ELSE first
    BY <1>6, <1>7, <1>11
  <2>2. adm' \in [Admin -> Struct] /\ adm'[ad] = Closed /\ \A b \in Admin : b # ad => adm'[b] = cut[b]
    BY <1>1, <1>5, <1>8, <2>1
  <2>3. i + 1 = k
    BY <1>1, <1>4, <1>11
  <2>4. Open' = Open \ {ad}
    <3>1. \A b \in Admin : adm'[b].state # "CLOSED" <=> (adm[b].state # "CLOSED" /\ b # ad)
      BY <1>5, <1>7, <2>2
    <3> QED
      BY <3>1 DEF Open
  <2>5. Cardinality(Open') = k - 1
    BY <1>1, <2>4
  <2>6. Chain'
    <3>1. CASE i = 0
      <4>1. k = 1 /\ Open' = {}
        <5>1. k = 1
          BY <1>1, <2>3, <3>1
        <5>2. Cardinality(Open \ {ad}) = 0
          BY <1>1, <5>1
        <5> QED
          BY <1>1, <2>4, <5>1, <5>2, FS_EmptySet
      <4>2. first = ad
        <5>1. first \in Open /\ adm[first].list_index = 0
          BY DEF Chain
        <5> QED
          BY <3>1, <5>1 DEF Chain, i
      <4>3. first' = Null /\ Cardinality(Open') = 0
        BY <2>1, <2>5, <4>1, <4>2
      <4> QED
        BY <4>1, <4>3 DEF Chain
    <3>2. CASE i # 0
      <4>1. z # ad /\ adm[z].list_index + 1 = i
        <5>1. adm[z].list_index = i - 1 /\ i - 1 # i /\ (i - 1) + 1 = i
          BY <1>2, <1>3, <3>2
        <5>2. adm[ad].list_index = i
          BY DEF i
        <5> QED
          BY <5>1, <5>2
      <4>2. \A b \in Open : b \in Admin /\ adm[b].list_index \in Nat
        BY <1>1 DEF Struct
      <4>3. /\ Linked(Open, Indexes, Nexts, first, k)
            /\ \A b \in Open : Indexes[b] \in Nat
            /\ Indexes[ad] + 1 = k /\ Indexes[z] + 1 = Indexes[ad]
        BY <1>1, <1>3, <2>3, <4>1, <4>2, ChainIsLinked DEF Indexes, i, k
      <4>4. /\ Nexts'[z] = Null
            /\ \A b \in Open \ {ad} : /\ Indexes'[b] = Indexes[b]
                                      /\ b # z => Nexts'[b] = Nexts[b]
        BY <1>1, <1>3, <1>7, <1>11, <2>2, <4>1 DEF Indexes, Nexts
      <4>5. Linked(Open \ {ad}, Indexes', Nexts', first, k - 1)
        BY <1>1, <1>3, <4>1, <4>3, <4>4, LinkedCut
      <4>6. first' = first
        <5>1. adm[first].list_index = 0
          BY DEF Chain
        <5> QED
          BY <2>1, <3>2, <5>1 DEF i
      <4>7. Linked(Open', Indexes', Nexts', first', Cardinality(Open'))
        BY <2>4, <2>5, <4>5, <4>6
      <4> QED
        BY <4>7, LinkedIsChainNext
    <3> QED
      BY <3>1, <3>2
  <2>7. \A b \in Admin : \/ /\ adm'[b].state = adm[b].state
                             /\ adm'[b].interest = adm[b].interest
                             /\ adm'[b].req = adm[b].req
                          \/ /\ adm'[b].state = "CLOSED" /\ adm'[b].interest = "none"
                             /\ adm'[b].req = RequestParserInit(0)
    <3>1. /\ adm'[ad].state = "CLOSED" /\ adm'[ad].interest = "none"
          /\ adm'[ad].req = RequestParserInit(0)
      BY <1>5, <2>2
    <3>2. \A b \in Admin : b # ad => /\ adm'[b].state = adm[b].state
                                    /\ adm'[b].interest = adm[b].interest
                                    /\ adm'[b].req = adm[b].req
      BY <1>7, <2>2
    <3> QED
      BY <3>1, <3>2
  <2> QED
    BY <1>6, <1>9, <2>1, <2>2, <2>4, <2>6, <2>7
<1> QED
  BY <1>10, <1>11

-----------------------------------------------------------------------------
(* The invariant *)

\* A handler that changes the struct of its client, and not its place.
LEMMA StructChanges ==
  ASSUME MonitorInv, server = "up", NEW a \in Open, NEW r \in Struct,
         adm' = [adm EXCEPT ![a] = r], first' = first,
         r.state # "CLOSED", r.interest # "none", RequestSound(r.req),
         r.next = adm[a].next, r.list_index = adm[a].list_index
  PROVE  /\ adm' \in [Admin -> Struct] /\ Open' = Open /\ Chain'
         /\ \A b \in Admin : /\ adm'[b].state = "CLOSED" <=> adm'[b].interest = "none"
                             /\ RequestSound(adm'[b].req)
<1>1. a \in Admin /\ adm \in [Admin -> Struct] /\ adm[a].state # "CLOSED"
  BY DEF Open, MonitorInv
<1>2. /\ adm' \in [Admin -> Struct] /\ adm'[a] = r
      /\ \A b \in Admin : b # a => adm'[b] = adm[b]
  BY <1>1
<1>3. \A b \in Admin : /\ adm'[b].next = adm[b].next /\ adm'[b].list_index = adm[b].list_index
                       /\ adm'[b].state = "CLOSED" <=> adm[b].state = "CLOSED"
  BY <1>1, <1>2
<1>4. Chain' /\ Open' = Open
  BY <1>3, ListKept DEF MonitorInv
<1>5. \A b \in Admin : /\ adm[b].state = "CLOSED" <=> adm[b].interest = "none"
                       /\ RequestSound(adm[b].req)
  BY DEF MonitorInv
<1> QED
  BY <1>2, <1>4, <1>5

\* What a handler reads.
LEMMA ReadsBytes ==
  ASSUME MonitorInv, NEW a \in Admin, NEW n \in 1..Len(sent[a]), Received(a, n)
  PROVE  /\ sent' \in [Admin -> Seq(Octet)] /\ Bytes(a, n) \in Seq(Octet)
         /\ \A fed : fed.taken \in 0..Len(Bytes(a, n)) => Rest(Bytes(a, n), fed) \in Seq(Octet)
<1>1. sent \in [Admin -> Seq(Octet)] /\ sent[a] \in Seq(Octet) /\ adm[a].rb \in Seq(Octet)
  BY DEF MonitorInv, Struct
<1>2. Len(sent[a]) \in Nat /\ \A i \in 1..Len(sent[a]) : sent[a][i] \in Octet
  BY <1>1, LenProperties, ElementOfSeq
<1>3. SubSeq(sent[a], 1, n) \in Seq(Octet) /\ SubSeq(sent[a], n + 1, Len(sent[a])) \in Seq(Octet)
  <2>1. /\ n \in Int /\ n + 1 \in Int /\ Len(sent[a]) \in Int
        /\ \A i \in 1..n : sent[a][i] \in Octet
        /\ \A i \in (n + 1)..Len(sent[a]) : sent[a][i] \in Octet
    BY <1>2
  <2> QED
    BY <2>1, SubSeqProperties
<1>4. sent' = [sent EXCEPT ![a] = SubSeq(sent[a], n + 1, Len(sent[a]))]
  BY <1>1 DEF Received
<1>5. Bytes(a, n) \in Seq(Octet)
  BY <1>1, <1>3, ConcatProperties DEF Bytes
<1>6. ASSUME NEW fed, fed.taken \in 0..Len(Bytes(a, n)) PROVE Rest(Bytes(a, n), fed) \in Seq(Octet)
  <2> DEFINE s == Bytes(a, n)
  <2>1. Len(s) \in Nat /\ \A i \in 1..Len(s) : s[i] \in Octet
    BY <1>5, LenProperties, ElementOfSeq
  <2> HIDE DEF s
  <2>2. /\ fed.taken + 1 \in Int /\ Len(s) \in Int
        /\ \A i \in (fed.taken + 1)..Len(s) : s[i] \in Octet
    BY <1>6, <2>1 DEF s
  <2>3. SubSeq(s, fed.taken + 1, Len(s)) \in Seq(Octet)
    BY <2>2, SubSeqProperties
  <2> QED
    BY <2>3 DEF Rest, s
<1> QED
  BY <1>1, <1>3, <1>4, <1>5, <1>6

\* What is left of MonitorInv when a step's effect on the structs is known.
LEMMA InvAfter ==
  ASSUME MonitorInv, visit' = visit, first' \in Admin \cup {Null}, adm' \in [Admin -> Struct],
         Limits(users', buffSize'), server' \in {"up", "hung", "crashed"},
         sent' \in [Admin -> Seq(Octet)], left' \subseteq Open',
         \A b \in Admin : /\ adm'[b].state = "CLOSED" <=> adm'[b].interest = "none"
                          /\ RequestSound(adm'[b].req),
         server' = "up" => Chain'
  PROVE  MonitorInv'
BY DEF MonitorInv, Limits

\* Who comes is on the list, or the server crashes.
LEMMA AcceptKeeps ==
  ASSUME MonitorInv, NEW a \in Admin, Accept(a)
  PROVE  MonitorInv'
<1>1. /\ server = "up" /\ a \in Admin \ Open /\ visit' = visit /\ users' = users
      /\ buffSize' = buffSize
  BY DEF Accept
<1>2. Limits(users', buffSize')
  BY <1>1 DEF MonitorInv, Limits
<1>3. CASE Cardinality(Open) < visit.room
  <2>1. NewAdmin(a) /\ server' = server /\ sent' = sent /\ left' = left
    BY <1>3 DEF Accept
  <2>2. Chain /\ adm \in [Admin -> Struct] /\ first \in Admin \cup {Null}
    BY <1>1 DEF MonitorInv
  <2>3. /\ adm' \in [Admin -> Struct] /\ first' \in Admin \cup {Null}
        /\ Open' = Open \cup {a} /\ Chain'
        /\ adm'[a].state = "ADMIN_AUTH" /\ adm'[a].interest = "OP_READ"
        /\ adm'[a].req = RequestParserInit(0) /\ adm'[a].rb = << >>
        /\ \A b \in Admin \ {a} : /\ adm'[b].state = adm[b].state
                                   /\ adm'[b].interest = adm[b].interest
                                   /\ adm'[b].req = adm[b].req
    BY <1>1, <2>1, <2>2, NewAdminAppends
  <2>4. RequestSound(RequestParserInit(0))
    <3>1. 0 \in Octet
      BY DEF Octet
    <3> QED
      BY <3>1, RequestStarts
  <2>5. \A b \in Admin : /\ adm'[b].state = "CLOSED" <=> adm'[b].interest = "none"
                         /\ RequestSound(adm'[b].req)
    BY <2>3, <2>4 DEF MonitorInv
  <2>6. left' \subseteq Open'
    BY <2>1, <2>3 DEF MonitorInv
  <2>7. server' \in {"up", "hung", "crashed"} /\ sent' \in [Admin -> Seq(Octet)]
    BY <1>1, <2>1 DEF MonitorInv
  <2> QED
    BY <1>1, <1>2, <2>3, <2>5, <2>6, <2>7, InvAfter
<1>4. CASE ~(Cardinality(Open) < visit.room)
  <2>1. server' = "crashed" /\ first' = first /\ adm' = adm /\ sent' = sent /\ left' = left
    BY <1>4 DEF Accept, clients
  <2>2. Open' = Open
    BY <2>1 DEF Open
  <2> QED
    BY <1>1, <1>2, <2>1, <2>2 DEF MonitorInv, Limits
<1> QED
  BY <1>3, <1>4

\* One struct is given up, with the limits kept.
LEMMA DestroyKeeps ==
  ASSUME MonitorInv, server = "up", NEW ad \in Open, Destroy(ad), visit' = visit,
         Limits(users', buffSize')
  PROVE  MonitorInv'
<1>1. /\ Chain /\ adm \in [Admin -> Struct] /\ first \in Admin \cup {Null}
      /\ sent \in [Admin -> Seq(Octet)] /\ left \subseteq Open
  BY DEF MonitorInv
<1>2. /\ adm' \in [Admin -> Struct] /\ first' \in Admin \cup {Null}
      /\ sent' \in [Admin -> Seq(Octet)] /\ left' = left \ {ad}
      /\ \/ server' = "hung" /\ Open' = Open
         \/ server' = "up" /\ Open' = Open \ {ad} /\ Chain'
      /\ \A b \in Admin : \/ /\ adm'[b].state = adm[b].state
                            /\ adm'[b].interest = adm[b].interest
                            /\ adm'[b].req = adm[b].req
                         \/ /\ adm'[b].state = "CLOSED" /\ adm'[b].interest = "none"
                            /\ adm'[b].req = RequestParserInit(0)
  BY <1>1, DestroyCuts
<1>3. RequestSound(RequestParserInit(0))
  <2>1. 0 \in Octet
    BY DEF Octet
  <2> QED
    BY <2>1, RequestStarts
<1>4. \A b \in Admin : /\ adm'[b].state = "CLOSED" <=> adm'[b].interest = "none"
                       /\ RequestSound(adm'[b].req)
  BY <1>2, <1>3 DEF MonitorInv
<1>5. left' \subseteq Open' /\ server' \in {"up", "hung", "crashed"} /\ (server' = "up" => Chain')
  BY <1>1, <1>2
<1> QED
  BY <1>2, <1>4, <1>5, InvAfter

\* Whose handler runs is on the list.
LEMMA Serves ==
  ASSUME MonitorInv, NEW a \in Admin, adm[a].interest # "none"
  PROVE  a \in Open /\ adm[a] \in Struct /\ adm \in [Admin -> Struct] /\ adm[a].state # "CLOSED"
         /\ RequestSound(adm[a].req)
BY DEF MonitorInv, Open

\* The credentials are read, in whatever parts.
LEMMA AuthReadKeeps ==
  ASSUME MonitorInv, NEW a \in Admin, AuthRead(a)
  PROVE  MonitorInv'
<1>1. /\ adm[a].state = "ADMIN_AUTH" /\ adm[a].interest = "OP_READ"
      /\ visit' = visit /\ first' = first /\ users' = users /\ buffSize' = buffSize
      /\ server' = server /\ left' = left
  BY DEF AuthRead
<1>2. PICK n \in 1..Len(sent[a]) : \E fed \in {AuthFed(adm[a].auth, Bytes(a, n))} :
       /\ Received(a, n)
       /\ adm' = [adm EXCEPT ![a].auth = fed.pars, ![a].rb = Rest(Bytes(a, n), fed),
                    ![a].interest = IF fed.pars.state \in AuthFinal THEN "OP_WRITE" ELSE @]
  BY DEF AuthRead
<1> DEFINE fed == AuthFed(adm[a].auth, Bytes(a, n))
           to == IF fed.pars.state \in AuthFinal THEN "OP_WRITE" ELSE adm[a].interest
           r == [adm[a] EXCEPT !.auth = fed.pars, !.rb = Rest(Bytes(a, n), fed), !.interest = to]
<1>3. server = "up" /\ Received(a, n)
  BY <1>2 DEF Received
<1>4. a \in Open /\ adm[a] \in Struct /\ adm \in [Admin -> Struct] /\ RequestSound(adm[a].req)
  BY <1>1, Serves
<1>5. /\ sent' \in [Admin -> Seq(Octet)] /\ Bytes(a, n) \in Seq(Octet)
      /\ \A f : f.taken \in 0..Len(Bytes(a, n)) => Rest(Bytes(a, n), f) \in Seq(Octet)
  BY <1>3, ReadsBytes
<1>6. adm' = [adm EXCEPT ![a] = r]
  BY <1>2, <1>4
<1>7. fed.pars \in AuthPars /\ fed.taken \in 0..Len(Bytes(a, n))
  <2>1. adm[a].auth \in AuthPars
    BY <1>4 DEF Struct
  <2> QED
    BY <1>5, <2>1, AuthFedIn
<1>8. Rest(Bytes(a, n), fed) \in Seq(Octet) /\ to \in {"OP_READ", "OP_WRITE"}
  BY <1>1, <1>5, <1>7
<1> HIDE DEF fed, to
<1>9. /\ r \in Struct /\ r.state = "ADMIN_AUTH" /\ r.interest = to /\ r.req = adm[a].req
      /\ r.next = adm[a].next /\ r.list_index = adm[a].list_index
  BY <1>1, <1>4, <1>7, <1>8 DEF Struct
<1> HIDE DEF r
<1>10. r.state # "CLOSED" /\ r.interest # "none" /\ RequestSound(r.req)
  BY <1>4, <1>8, <1>9
<1>11. /\ adm' \in [Admin -> Struct] /\ Open' = Open /\ Chain'
       /\ \A b \in Admin : /\ adm'[b].state = "CLOSED" <=> adm'[b].interest = "none"
                           /\ RequestSound(adm'[b].req)
  BY <1>1, <1>3, <1>4, <1>6, <1>9, <1>10, StructChanges
<1> QED
  BY <1>1, <1>5, <1>11 DEF MonitorInv

\* A command is read, whole or not.
LEMMA RequestReadKeeps ==
  ASSUME MonitorInv, NEW a \in Admin, RequestRead(a)
  PROVE  MonitorInv'
<1>1. /\ adm[a].state = "ADMIN_REQUEST" /\ adm[a].interest = "OP_READ"
      /\ visit' = visit /\ first' = first /\ users' = users /\ buffSize' = buffSize
      /\ server' = server /\ left' = left
  BY DEF RequestRead
<1>2. PICK n \in 1..Len(sent[a]) : \E fed \in {RequestFed(adm[a].req, Bytes(a, n))} :
       /\ Received(a, n)
       /\ adm' = [adm EXCEPT ![a].req = fed.pars, ![a].rb = Rest(Bytes(a, n), fed),
                             ![a].interest = "OP_WRITE"]
  BY DEF RequestRead
<1> DEFINE fed == RequestFed(adm[a].req, Bytes(a, n))
           r == [adm[a] EXCEPT !.req = fed.pars, !.rb = Rest(Bytes(a, n), fed),
                               !.interest = "OP_WRITE"]
<1>3. server = "up" /\ Received(a, n)
  BY <1>2 DEF Received
<1>4. a \in Open /\ adm[a] \in Struct /\ adm \in [Admin -> Struct] /\ RequestSound(adm[a].req)
  BY <1>1, Serves
<1>5. /\ sent' \in [Admin -> Seq(Octet)] /\ Bytes(a, n) \in Seq(Octet)
      /\ \A f : f.taken \in 0..Len(Bytes(a, n)) => Rest(Bytes(a, n), f) \in Seq(Octet)
  BY <1>3, ReadsBytes
<1>6. adm' = [adm EXCEPT ![a] = r]
  BY <1>2, <1>4
<1>7. RequestSound(fed.pars) /\ fed.taken \in 0..Len(Bytes(a, n))
  BY <1>4, <1>5, RequestFedIn
<1>8. Rest(Bytes(a, n), fed) \in Seq(Octet) /\ fed.pars \in RequestPars
  BY <1>5, <1>7 DEF RequestSound
<1> HIDE DEF fed
<1>9. /\ r \in Struct /\ r.state = "ADMIN_REQUEST" /\ r.interest = "OP_WRITE" /\ r.req = fed.pars
      /\ r.next = adm[a].next /\ r.list_index = adm[a].list_index
  BY <1>1, <1>4, <1>8 DEF Struct
<1> HIDE DEF r
<1>10. r.state # "CLOSED" /\ r.interest # "none" /\ RequestSound(r.req)
  BY <1>7, <1>9
<1>11. /\ adm' \in [Admin -> Struct] /\ Open' = Open /\ Chain'
       /\ \A b \in Admin : /\ adm'[b].state = "CLOSED" <=> adm'[b].interest = "none"
                           /\ RequestSound(adm'[b].req)
  BY <1>1, <1>3, <1>4, <1>6, <1>9, <1>10, StructChanges
<1> QED
  BY <1>1, <1>5, <1>11 DEF MonitorInv

\* The verdict on the credentials is sent.
LEMMA AuthWriteKeeps ==
  ASSUME MonitorInv, NEW a \in Admin, AuthWrite(a)
  PROVE  MonitorInv'
<1>1. /\ server = "up" /\ adm[a].state = "ADMIN_AUTH" /\ adm[a].interest = "OP_WRITE"
      /\ visit' = visit /\ users' = users /\ buffSize' = buffSize
  BY DEF AuthWrite
<1>2. a \in Open /\ adm[a] \in Struct /\ adm \in [Admin -> Struct] /\ RequestSound(adm[a].req)
  BY <1>1, Serves
<1>3. CASE AuthRet(adm[a].auth) = "success"
  <2> DEFINE r == [adm[a] EXCEPT !.state = "ADMIN_REQUEST", !.interest = "OP_READ", !.rb = << >>,
                                 !.req = RequestParserInit(adm[a].req.cmd_selected)]
  <2>1. /\ adm' = [adm EXCEPT ![a] = r] /\ first' = first /\ server' = server
        /\ sent' = sent /\ left' = left
    BY <1>2, <1>3 DEF AuthWrite
  <2>2. RequestSound(RequestParserInit(adm[a].req.cmd_selected))
    <3>1. adm[a].req.cmd_selected \in Octet
      BY <1>2 DEF RequestSound, RequestPars
    <3> QED
      BY <3>1, RequestStarts
  <2>3. /\ r \in Struct /\ r.state = "ADMIN_REQUEST" /\ r.interest = "OP_READ"
        /\ r.req = RequestParserInit(adm[a].req.cmd_selected)
        /\ r.next = adm[a].next /\ r.list_index = adm[a].list_index
    <3>1. << >> \in Seq(Octet) /\ RequestParserInit(adm[a].req.cmd_selected) \in RequestPars
      BY <2>2, EmptySeq DEF RequestSound
    <3> QED
      BY <1>2, <3>1 DEF Struct
  <2> HIDE DEF r
  <2>4. /\ adm' \in [Admin -> Struct] /\ Open' = Open /\ Chain'
        /\ \A b \in Admin : /\ adm'[b].state = "CLOSED" <=> adm'[b].interest = "none"
                            /\ RequestSound(adm'[b].req)
    <3>1. r.state # "CLOSED" /\ r.interest # "none" /\ RequestSound(r.req)
      BY <2>2, <2>3
    <3> QED
      BY <1>1, <1>2, <2>1, <2>3, <3>1, StructChanges
  <2> QED
    BY <1>1, <2>1, <2>4 DEF MonitorInv
<1>4. CASE AuthRet(adm[a].auth) # "success"
  <2>1. Destroy(a)
    BY <1>4 DEF AuthWrite
  <2>2. Limits(users', buffSize')
    BY <1>1 DEF MonitorInv, Limits
  <2> QED
    BY <1>1, <1>2, <2>1, <2>2, DestroyKeeps
<1> QED
  BY <1>3, <1>4

\* A command is carried out and answered, in whole or in part.
LEMMA RequestWriteKeeps ==
  ASSUME MonitorInv, NEW a \in Admin, RequestWrite(a) \/ RequestWritePart(a)
  PROVE  MonitorInv'
<1> DEFINE anew == RequestParserInit(adm[a].req.cmd_selected)
           r1 == [adm[a] EXCEPT !.req = anew, !.wb = << >>, !.interest = "OP_READ"]
           r2 == [adm[a] EXCEPT !.req = anew, !.wb = <<Says("rest")>>]
<1>1. /\ server = "up" /\ adm[a].state = "ADMIN_REQUEST" /\ adm[a].interest = "OP_WRITE"
      /\ visit' = visit /\ first' = first /\ server' = server /\ sent' = sent /\ left' = left
      /\ ~Crashes(adm[a].req)
  BY DEF RequestWrite, RequestWritePart, Writes
<1>2. a \in Open /\ adm[a] \in Struct /\ adm \in [Admin -> Struct] /\ RequestSound(adm[a].req)
  BY <1>1, Serves
<1>3. PICK r \in {r1, r2} : adm' = [adm EXCEPT ![a] = r]
  <2>1. CASE RequestWrite(a)
    <3>1. adm' = [adm EXCEPT ![a] = r1]
      BY <1>2, <2>1 DEF RequestWrite, Anew
    <3> QED
      BY <3>1
  <2>2. CASE RequestWritePart(a)
    <3>1. adm' = [adm EXCEPT ![a] = r2]
      BY <1>2, <2>2 DEF RequestWritePart, Anew
    <3> QED
      BY <3>1
  <2> QED
    BY <2>1, <2>2
<1>4. RequestSound(anew) /\ anew \in RequestPars
  <2>1. adm[a].req.cmd_selected \in Octet
    BY <1>2 DEF RequestSound, RequestPars
  <2> QED
    BY <2>1, RequestStarts DEF RequestSound
<1> HIDE DEF anew
<1>5. /\ r \in Struct /\ r.state = "ADMIN_REQUEST" /\ r.interest \in {"OP_READ", "OP_WRITE"}
      /\ r.req = anew /\ r.next = adm[a].next /\ r.list_index = adm[a].list_index
  <2>1. CASE r = r1
    BY <1>1, <1>2, <1>4, <2>1 DEF Struct
  <2>2. CASE r = r2
    BY <1>1, <1>2, <1>4, <2>2 DEF Struct
  <2> QED
    BY <1>3, <2>1, <2>2
<1> HIDE DEF r1, r2
<1>6. /\ adm' \in [Admin -> Struct] /\ Open' = Open /\ Chain'
      /\ \A b \in Admin : /\ adm'[b].state = "CLOSED" <=> adm'[b].interest = "none"
                          /\ RequestSound(adm'[b].req)
  <2>1. r.state # "CLOSED" /\ r.interest # "none" /\ RequestSound(r.req)
    BY <1>4, <1>5
  <2> QED
    BY <1>1, <1>2, <1>3, <1>5, <2>1, StructChanges
<1>7. Limits(users', buffSize')
  <2>1. PICK o \in Outcomes(adm[a].req) : users' = o.users /\ buffSize' = o.size
    BY DEF RequestWrite, RequestWritePart
  <2>2. Limits(users, buffSize)
    BY DEF MonitorInv, Limits
  <2>3. Limits(o.users, o.size)
    BY <1>1, <1>2, <2>1, <2>2, OutcomesLimits
  <2> QED
    BY <2>1, <2>3
<1> QED
  BY <1>1, <1>6, <1>7 DEF MonitorInv, Limits

\* A client has left.
LEMMA EndsKeep ==
  ASSUME MonitorInv, NEW a \in Admin, ReadEnds(a) \/ WriteFails(a)
  PROVE  MonitorInv'
<1>1. /\ server = "up" /\ adm[a].interest # "none" /\ visit' = visit /\ Destroy(a)
  BY DEF ReadEnds, WriteFails
<1>2. a \in Open /\ RequestSound(adm[a].req)
  BY <1>1, Serves
<1>3. Limits(users, buffSize)
  BY DEF MonitorInv, Limits
<1>4. Limits(users', buffSize')
  <2>1. CASE users' = users /\ buffSize' = buffSize
    BY <1>3, <2>1
  <2>2. CASE ~(users' = users /\ buffSize' = buffSize)
    <3>1. /\ ~Crashes(adm[a].req)
          /\ \E o \in Outcomes(adm[a].req) : users' = o.users /\ buffSize' = o.size
      BY <2>2 DEF ReadEnds, WriteFails
    <3>2. PICK o \in Outcomes(adm[a].req) : users' = o.users /\ buffSize' = o.size
      BY <3>1
    <3>3. Limits(o.users, o.size)
      BY <1>2, <1>3, <3>1, <3>2, OutcomesLimits
    <3> QED
      BY <3>2, <3>3
  <2> QED
    BY <2>1, <2>2
<1> QED
  BY <1>1, <1>2, <1>4, DestroyKeeps

\* A client sends its next message.
LEMMA SendKeeps ==
  ASSUME MonitorInv, NEW a \in Admin, Send(a)
  PROVE  MonitorInv'
<1>1. /\ visit' = visit /\ first' = first /\ adm' = adm /\ users' = users
      /\ buffSize' = buffSize /\ server' = server /\ left' = left
  BY DEF Send
<1>2. PICK m \in IF adm[a].state = "ADMIN_AUTH" THEN visit.logins ELSE visit.commands :
        sent' = [sent EXCEPT ![a] = sent[a] \o m]
  BY DEF Send, MonitorInv
<1>3. visit \in Visits /\ sent \in [Admin -> Seq(Octet)] /\ sent[a] \in Seq(Octet)
  BY DEF MonitorInv
<1>4. m \in Seq(Octet)
  BY <1>2, <1>3, MonitorAssumption DEF Octet
<1>5. sent' \in [Admin -> Seq(Octet)]
  BY <1>2, <1>3, <1>4, ConcatProperties
<1>6. Open' = Open /\ Chain' = Chain
  BY <1>1 DEF Open, Chain
<1> QED
  BY <1>1, <1>5, <1>6 DEF MonitorInv

\* Each action keeps the invariant.
LEMMA NextKeeps == MonitorInv /\ [Next]_vars => MonitorInv'
<1> SUFFICES ASSUME MonitorInv, [Next]_vars PROVE MonitorInv'
  OBVIOUS
<1>1. CASE UNCHANGED vars
  <2>1. Open' = Open /\ Chain' = Chain
    BY <1>1 DEF vars, Open, Chain
  <2> QED
    BY <1>1, <2>1 DEF vars, MonitorInv
<1>2. ASSUME NEW a \in Admin, Accept(a) PROVE MonitorInv'
  BY <1>2, AcceptKeeps
<1>3. ASSUME NEW a \in Admin, Send(a) PROVE MonitorInv'
  BY <1>3, SendKeeps
<1>4. ASSUME NEW a \in Admin, Leaves(a) PROVE MonitorInv'
  <2>1. /\ visit' = visit /\ first' = first /\ adm' = adm /\ users' = users
        /\ buffSize' = buffSize /\ server' = server /\ sent' = sent
        /\ left' = left \cup {a} /\ a \in Open
    BY <1>4 DEF Leaves
  <2>2. Open' = Open /\ Chain' = Chain
    BY <2>1 DEF Open, Chain
  <2> QED
    BY <2>1, <2>2 DEF MonitorInv
<1>5. ASSUME NEW a \in Admin, Reads(a) PROVE MonitorInv'
  BY <1>5, AuthReadKeeps, RequestReadKeeps, EndsKeep DEF Reads
<1>6. ASSUME NEW a \in Admin, Write(a) PROVE MonitorInv'
  <2>1. CASE RequestWriteCrashes(a) \/ WriteKills(a)
    <3>1. /\ visit' = visit /\ first' = first /\ adm' = adm /\ users' = users
          /\ buffSize' = buffSize /\ server' = "crashed" /\ sent' = sent /\ left' = left
      BY <2>1 DEF RequestWriteCrashes, WriteKills, clients
    <3>2. Open' = Open
      BY <3>1 DEF Open
    <3> QED
      BY <3>1, <3>2 DEF MonitorInv
  <2> QED
    BY <1>6, <2>1, AuthWriteKeeps, RequestWriteKeeps, EndsKeep DEF Write
<1> QED
  BY <1>1, <1>2, <1>3, <1>4, <1>5, <1>6 DEF Next

\* The invariant holds from the start.
LEMMA Invariant == Spec => []MonitorInv
<1>1. Init => MonitorInv
  <2> SUFFICES ASSUME Init PROVE MonitorInv
    OBVIOUS
  <2>1. /\ visit \in Visits /\ first = Null /\ adm = [a \in Admin |-> Closed]
        /\ users = InitialUsers /\ buffSize = InitialSize /\ server = "up"
        /\ sent = [a \in Admin |-> << >>] /\ left = {}
    BY DEF Init
  <2>2. Closed \in Struct /\ Closed.state = "CLOSED" /\ Closed.interest = "none"
        /\ Closed.req = RequestParserInit(0)
    BY Fresh
  <2>3. Open = {} /\ Cardinality(Open) = 0
    <3>1. Open = {}
      BY <2>1, <2>2 DEF Open
    <3> QED
      BY <3>1, FS_EmptySet
  <2>4. Chain
    BY <2>1, <2>3 DEF Chain
  <2>5. InitialUsers \in Table
    <3>1. InitialUsers \in Seq([name : Seq(Octet), pass : Seq(Octet)])
      BY MonitorAssumption DEF Octet
    <3>2. Seq(Octet) \subseteq Seq(Octet \cup {Garbage})
      <4>1. ASSUME NEW s \in Seq(Octet) PROVE s \in Seq(Octet \cup {Garbage})
        BY SeqMonotonic
      <4> QED
        BY <4>1
    <3>3. [name : Seq(Octet), pass : Seq(Octet)]
            \subseteq [name : Seq(Octet), pass : Seq(Octet \cup {Garbage})]
      BY <3>2
    <3> QED
      BY <3>1, <3>3, SeqMonotonic DEF Table
  <2>6. RequestSound(RequestParserInit(0)) /\ << >> \in Seq(Octet)
    <3>1. 0 \in Octet
      BY DEF Octet
    <3> QED
      BY <3>1, RequestStarts, EmptySeq
  <2> QED
    BY <2>1, <2>2, <2>4, <2>5, <2>6, MonitorAssumption DEF MonitorInv
<1> QED
  BY <1>1, NextKeeps, PTL DEF Spec

\* The ranges of the server's state: whatever administrators send, in whatever
\* parts, the table of users and the size of the buffers keep their limits.
THEOREM TypeCorrect == Spec => []TypeOK
<1>1. MonitorInv => TypeOK
  BY DEF MonitorInv, TypeOK, Struct
<1> QED
  BY <1>1, Invariant, PTL

\* The list that destroy_admin walks holds each open struct once, at the place
\* that its list_index says, for any number of administrators.
THEOREM ListExactCorrect == Spec => []ListExact
<1>1. MonitorInv => ListExact
  <2> SUFFICES ASSUME MonitorInv, server = "up"
               PROVE  /\ \A a \in Open : Hop[adm[a].list_index] = a
                      /\ Hop[Cardinality(Open)] = Null
    BY DEF ListExact
  <2>1. Chain /\ adm \in [Admin -> Struct]
    BY DEF MonitorInv
  <2>2. Cardinality(Open) \in Nat /\ Cardinality(Open) >= Cardinality(Open)
    BY OpenIsFinite
  <2> QED
    BY <2>1, <2>2, HopIs
<1> QED
  BY <1>1, Invariant, PTL

-----------------------------------------------------------------------------
(* What the parser of the credentials knows when it was fed j bytes of m *)

\* f is what stands behind the first k bytes of m.
Copied(f, m, k) == \A i \in 1..Len(f) : f[i] = m[k + i]

\* Where the length of the password stands.
PassAt(m) == m[1] + 2

AuthKnows(p, m, j) ==
  /\ p \in AuthPars
  /\ p.state \in {"reading_user_len", "reading_user", "reading_pass_len"} => p.password = << >>
  /\ p.state = "reading_user_len" => j = 0 /\ p.user = << >>
  /\ p.state \in {"reading_user", "reading_pass_len", "reading_pass", "auth_done"} =>
       m[1] # 0 /\ Copied(p.user, m, 1)
  /\ p.state = "reading_user" =>
       p.remaining = m[1] /\ Len(p.user) < m[1] /\ j = 1 + Len(p.user)
  /\ p.state \in {"reading_pass_len", "reading_pass", "auth_done"} => Len(p.user) = m[1]
  /\ p.state = "reading_pass_len" => j = 1 + m[1]
  /\ p.state \in {"reading_pass", "auth_done"} =>
       /\ m[PassAt(m)] # 0 /\ p.remaining = m[PassAt(m)]
       /\ Copied(p.password, m, PassAt(m)) /\ j = PassAt(m) + Len(p.password)
  /\ p.state = "reading_pass" => Len(p.password) < p.remaining
  /\ p.state = "auth_done" => Len(p.password) = p.remaining
  /\ p.state = "bad_syntax" => m[1] = 0 \/ (m[1] # 0 /\ m[PassAt(m)] = 0)

\* A field that is a copy of what it was read from stays one.
LEMMA CopiedAppend ==
  ASSUME NEW S, NEW f \in Seq(S), NEW m, NEW k \in Nat, Copied(f, m, k),
         NEW c \in S, c = m[k + Len(f) + 1]
  PROVE  /\ Append(f, c) \in Seq(S) /\ Len(Append(f, c)) = Len(f) + 1
         /\ Copied(Append(f, c), m, k)
<1>1. Len(f) \in Nat
  BY LenProperties
<1>2. /\ Append(f, c) \in Seq(S) /\ Len(Append(f, c)) = Len(f) + 1
      /\ \A i \in 1..Len(f) : Append(f, c)[i] = f[i]
      /\ Append(f, c)[Len(f) + 1] = c
  BY AppendProperties
<1>3. ASSUME NEW i \in 1..(Len(f) + 1) PROVE Append(f, c)[i] = m[k + i]
  <2>1. CASE i \in 1..Len(f)
    BY <1>2, <2>1 DEF Copied
  <2>2. CASE i = Len(f) + 1
    BY <1>1, <1>2, <2>2
  <2> QED
    BY <1>1, <2>1, <2>2
<1> QED
  BY <1>2, <1>3 DEF Copied

\* A copy is the part of the message it was read from.
LEMMA CopiedIs ==
  ASSUME NEW S, NEW f \in Seq(S), NEW m \in Seq(S), NEW k \in Nat, Copied(f, m, k),
         k + Len(f) <= Len(m)
  PROVE  f = SubSeq(m, k + 1, k + Len(f))
<1>1. Len(f) \in Nat /\ Len(m) \in Nat /\ \A i \in 1..Len(m) : m[i] \in S
  BY LenProperties, ElementOfSeq
<1>2. k + 1 \in Int /\ k + Len(f) \in Int /\ \A i \in (k + 1)..(k + Len(f)) : m[i] \in S
  BY <1>1
<1> DEFINE t == SubSeq(m, k + 1, k + Len(f))
<1>3. /\ t \in Seq(S)
      /\ Len(t) = IF k + 1 <= k + Len(f) THEN (k + Len(f)) - (k + 1) + 1 ELSE 0
      /\ \A i \in 1..((k + Len(f)) - (k + 1) + 1) : t[i] = m[(k + 1) + i - 1]
  BY <1>2, SubSeqProperties
<1> HIDE DEF t
<1>4. Len(t) = Len(f)
  BY <1>1, <1>3
<1>5. \A i \in 1..Len(f) : t[i] = m[k + i]
  <2> TAKE i \in 1..Len(f)
  <2>1. i \in 1..((k + Len(f)) - (k + 1) + 1) /\ (k + 1) + i - 1 = k + i
    BY <1>1
  <2> QED
    BY <1>3, <2>1
<1>6. f = t
  BY <1>3, <1>4, <1>5, SeqEqual DEF Copied
<1> QED
  BY <1>6 DEF t

\* One byte of the credentials more.
LEMMA AuthKnowsMore ==
  ASSUME NEW m \in Seq(Octet), NEW j \in 0..(Len(m) - 1), NEW p, AuthKnows(p, m, j),
         p.state \notin AuthFinal
  PROVE  AuthKnows(FeedAuth(p, m[j + 1]), m, j + 1)
<1> DEFINE c == m[j + 1]
           q == FeedAuth(p, c)
<1>0. \A x \in Octet : x \in Nat
  BY DEF Octet
<1>1. c \in Octet /\ c \in Nat
  <2>1. j + 1 \in 1..Len(m)
    BY LenProperties
  <2> QED
    BY <1>0, <2>1, ElementOfSeq
<1>2. p \in AuthPars /\ q \in AuthPars /\ j \in Nat
  BY <1>1, AuthFeeds, LenProperties DEF AuthKnows
<1>3. p.user \in Seq(Octet) /\ p.password \in Seq(Octet) /\ p.remaining \in Nat
      /\ Len(p.user) \in Nat /\ Len(p.password) \in Nat
  BY <1>0, <1>2, LenProperties DEF AuthPars
<1> HIDE DEF c
<1>4. CASE p.state = "reading_user_len"
  <2>1. j = 0 /\ p.user = << >> /\ p.password = << >> /\ c = m[1]
    BY <1>4 DEF AuthKnows, c
  <2>2. CASE c = 0
    <3>1. q = [p EXCEPT !.state = "bad_syntax"]
      BY <1>4, <2>2 DEF FeedAuth
    <3>2. q.state = "bad_syntax"
      BY <1>2, <3>1 DEF AuthPars
    <3> HIDE DEF q
    <3> QED
      BY <1>2, <2>1, <2>2, <3>2 DEF AuthKnows, q, c
  <2>3. CASE c # 0
    <3>1. q = [p EXCEPT !.state = "reading_user", !.remaining = c]
      BY <1>1, <1>4, <2>3 DEF FeedAuth
    <3>2. q.state = "reading_user" /\ q.remaining = c /\ q.user = << >> /\ q.password = << >>
      BY <1>2, <2>1, <3>1 DEF AuthPars
    <3>3. Len(q.user) = 0 /\ Copied(q.user, m, 1)
      BY <3>2 DEF Copied
    <3> HIDE DEF q
    <3> QED
      BY <1>1, <1>2, <2>1, <2>3, <3>2, <3>3 DEF AuthKnows, q, c
  <2> QED
    BY <2>2, <2>3
<1>5. CASE p.state = "reading_user"
  <2>1. /\ m[1] # 0 /\ Copied(p.user, m, 1) /\ p.remaining = m[1] /\ Len(p.user) < m[1]
        /\ j = 1 + Len(p.user) /\ p.password = << >>
    BY <1>5 DEF AuthKnows
  <2>2. c = m[1 + Len(p.user) + 1]
    BY <2>1 DEF c
  <2>3. /\ Append(p.user, c) \in Seq(Octet) /\ Len(Append(p.user, c)) = Len(p.user) + 1
        /\ Copied(Append(p.user, c), m, 1)
    <3>1. 1 \in Nat
      OBVIOUS
    <3> QED
      BY <1>1, <1>3, <2>1, <2>2, <3>1, CopiedAppend
  <2>4. q = [p EXCEPT !.user = Append(@, c),
               !.state = IF Len(p.user) + 1 = p.remaining THEN "reading_pass_len" ELSE @]
    BY <1>5 DEF FeedAuth
  <2>5. /\ q.user = Append(p.user, c) /\ q.password = << >> /\ q.remaining = p.remaining
        /\ q.state = IF Len(p.user) + 1 = p.remaining THEN "reading_pass_len" ELSE "reading_user"
    BY <1>2, <1>5, <2>1, <2>4 DEF AuthPars
  <2> HIDE DEF q
  <2>6. CASE Len(p.user) + 1 = p.remaining
    BY <1>2, <1>3, <2>1, <2>3, <2>5, <2>6 DEF AuthKnows, q, c
  <2>7. CASE Len(p.user) + 1 # p.remaining
    <3>1. Len(q.user) < m[1]
      BY <1>3, <2>1, <2>3, <2>5, <2>7
    <3> QED
      BY <1>2, <1>3, <2>1, <2>3, <2>5, <2>7, <3>1 DEF AuthKnows, q, c
  <2> QED
    BY <2>6, <2>7
<1>6. CASE p.state = "reading_pass_len"
  <2>1. /\ m[1] # 0 /\ Copied(p.user, m, 1) /\ Len(p.user) = m[1] /\ j = 1 + m[1]
        /\ p.password = << >>
    BY <1>6 DEF AuthKnows
  <2>2. m[1] \in Nat /\ PassAt(m) = j + 1 /\ c = m[PassAt(m)]
    BY <1>3, <2>1 DEF c, PassAt
  <2>3. CASE c = 0
    <3>1. q = [p EXCEPT !.state = "bad_syntax"]
      BY <1>6, <2>3 DEF FeedAuth
    <3>2. q.state = "bad_syntax"
      BY <1>2, <3>1 DEF AuthPars
    <3> HIDE DEF q
    <3> QED
      BY <1>2, <2>1, <2>2, <2>3, <3>2 DEF AuthKnows, q, c
  <2>4. CASE c # 0
    <3>1. q = [p EXCEPT !.state = "reading_pass", !.remaining = c]
      BY <1>1, <1>6, <2>4 DEF FeedAuth
    <3>2. /\ q.state = "reading_pass" /\ q.remaining = c /\ q.user = p.user
          /\ q.password = << >>
      BY <1>2, <2>1, <3>1 DEF AuthPars
    <3>3. Len(q.password) = 0 /\ Copied(q.password, m, PassAt(m))
      BY <3>2 DEF Copied
    <3>4. /\ Len(q.password) < q.remaining /\ j + 1 = PassAt(m) + Len(q.password)
      BY <1>1, <2>2, <2>4, <3>2, <3>3
    <3> HIDE DEF q
    <3> QED
      BY <1>2, <2>1, <2>2, <2>4, <3>2, <3>3, <3>4 DEF AuthKnows, q, c
  <2> QED
    BY <2>3, <2>4
<1>7. CASE p.state = "reading_pass"
  <2>1. /\ m[1] # 0 /\ Copied(p.user, m, 1) /\ Len(p.user) = m[1]
        /\ m[PassAt(m)] # 0 /\ p.remaining = m[PassAt(m)] /\ Len(p.password) < p.remaining
        /\ Copied(p.password, m, PassAt(m)) /\ j = PassAt(m) + Len(p.password)
    BY <1>7 DEF AuthKnows
  <2>2. PassAt(m) \in Nat /\ c = m[PassAt(m) + Len(p.password) + 1]
    BY <1>3, <2>1 DEF c, PassAt
  <2>3. /\ Append(p.password, c) \in Seq(Octet)
        /\ Len(Append(p.password, c)) = Len(p.password) + 1
        /\ Copied(Append(p.password, c), m, PassAt(m))
    <3> HIDE DEF q
    <3>1. PassAt(m) \in Nat /\ Copied(p.password, m, PassAt(m)) /\ p.password \in Seq(Octet)
          /\ c \in Octet
      BY <1>1, <1>3, <2>1, <2>2
    <3> QED
      BY <2>2, <3>1, CopiedAppend
  <2>4. q = [p EXCEPT !.password = Append(@, c),
               !.state = IF Len(p.password) + 1 = p.remaining THEN "auth_done" ELSE @]
    BY <1>7 DEF FeedAuth
  <2>5. /\ q.password = Append(p.password, c) /\ q.user = p.user /\ q.remaining = p.remaining
        /\ q.state = IF Len(p.password) + 1 = p.remaining THEN "auth_done" ELSE "reading_pass"
    BY <1>2, <1>7, <2>4 DEF AuthPars
  <2>6. j + 1 = PassAt(m) + Len(q.password)
    BY <1>3, <2>1, <2>2, <2>3, <2>5
  <2> HIDE DEF q
  <2>7. CASE Len(p.password) + 1 = p.remaining
    BY <1>2, <2>1, <2>3, <2>5, <2>6, <2>7 DEF AuthKnows, q, c
  <2>8. CASE Len(p.password) + 1 # p.remaining
    <3>1. Len(q.password) < q.remaining
      BY <1>3, <2>1, <2>3, <2>5, <2>8
    <3> QED
      BY <1>2, <2>1, <2>3, <2>5, <2>6, <2>8, <3>1 DEF AuthKnows, q, c
  <2> QED
    BY <2>7, <2>8
<1> QED
  BY <1>2, <1>4, <1>5, <1>6, <1>7 DEF AuthPars, AuthFinal, c

\* A part of the credentials more: the loop stops behind them.
LEMMA AuthFedKnows ==
  ASSUME NEW m \in Seq(Octet), NEW j \in Nat, NEW p, AuthKnows(p, m, j), p.state \notin AuthFinal,
         NEW s, Len(s) \in Nat, j + Len(s) <= Len(m), \A i \in 1..Len(s) : s[i] = m[j + i]
  PROVE  /\ AuthKnows(AuthFed(p, s).pars, m, j + AuthFed(p, s).taken)
         /\ AuthFed(p, s).taken \in 0..Len(s)
         /\ AuthFed(p, s).pars.state \notin AuthFinal => AuthFed(p, s).taken = Len(s)
<1> DEFINE R == [i \in 0..Len(s) |->
                  {r \in [pars : AuthPars, taken : 0..i] :
                     /\ AuthKnows(r.pars, m, j + r.taken)
                     /\ r.pars.state \notin AuthFinal => r.taken = i}]
<1>1. Len(m) \in Nat /\ p \in AuthPars
  BY LenProperties DEF AuthKnows
<1>2. [pars |-> p, taken |-> 0] \in R[0]
  BY <1>1
<1>3. ASSUME NEW i \in 1..Len(s), NEW r \in R[i - 1] PROVE AuthTurn(r, s, i) \in R[i]
  <2>1. /\ i - 1 \in 0..Len(s) /\ i \in 0..Len(s) /\ (0..(i - 1)) \subseteq 0..i /\ i \in 0..i
        /\ j + (i - 1) \in 0..(Len(m) - 1) /\ (j + (i - 1)) + 1 = j + i
    BY <1>1
  <2>2. /\ r \in [pars : AuthPars, taken : 0..(i - 1)]
        /\ AuthKnows(r.pars, m, j + r.taken)
        /\ r.pars.state \notin AuthFinal => r.taken = i - 1
    BY <1>3, <2>1
  <2>3. CASE r.pars.state \in AuthFinal
    BY <2>1, <2>2, <2>3 DEF AuthTurn
  <2>4. CASE r.pars.state \notin AuthFinal
    <3>1. AuthKnows(FeedAuth(r.pars, m[j + i]), m, j + i)
      BY <2>1, <2>2, <2>4, AuthKnowsMore
    <3>2. FeedAuth(r.pars, m[j + i]) \in AuthPars
      BY <3>1 DEF AuthKnows
    <3>3. AuthTurn(r, s, i) = [pars |-> FeedAuth(r.pars, m[j + i]), taken |-> i]
      BY <2>4 DEF AuthTurn
    <3> QED
      BY <2>1, <3>1, <3>2, <3>3
  <2> QED
    BY <2>3, <2>4
<1>4. AuthFed(p, s) \in R[Len(s)]
  <2> HIDE DEF R
  <2> QED
    BY <1>2, <1>3, AuthFedKeeps
<1> QED
  BY <1>4

\* No byte of a field is a terminator.
LEMMA CStringIs ==
  ASSUME NEW s \in Seq(Octet), \A i \in 1..Len(s) : s[i] # 0
  PROVE  CString(s) = s
BY LenProperties DEF CString

\* The verdict on the credentials is that on the message as a whole.
LEMMA AuthVerdict ==
  ASSUME NEW m \in Seq(Octet), NEW j \in 0..Len(m), NEW p, AuthKnows(p, m, j),
         p.state \in AuthFinal, PlainLogin(m)
  PROVE  Says(AuthRet(p)) = Service!Verdict(m)
<1>1. p \in AuthPars /\ Len(m) \in Nat /\ DOMAIN m = 1..Len(m)
  BY LenProperties DEF AuthKnows
<1>2. CASE p.state = "bad_syntax"
  BY <1>2 DEF AuthKnows, AuthRet, Says, Service!Verdict, Service!WellFormed, Service!Says, PassAt
<1>3. CASE p.state = "auth_done"
  <2>1. /\ m[1] # 0 /\ Copied(p.user, m, 1) /\ Len(p.user) = m[1]
        /\ m[PassAt(m)] # 0 /\ p.remaining = m[PassAt(m)] /\ Len(p.password) = p.remaining
        /\ Copied(p.password, m, PassAt(m)) /\ j = PassAt(m) + Len(p.password)
    BY <1>3 DEF AuthKnows
  <2>2. /\ p.user \in Seq(Octet) /\ p.password \in Seq(Octet)
        /\ Len(p.user) \in Nat /\ Len(p.password) \in Nat
    BY <1>1, LenProperties DEF AuthPars
  <2>3. PassAt(m) \in Nat /\ PassAt(m) = Len(p.user) + 2 /\ PassAt(m) + Len(p.password) <= Len(m)
    BY <1>1, <2>1, <2>2 DEF PassAt
  <2>4. p.user = SubSeq(m, 1 + 1, 1 + Len(p.user))
    <3>1. 1 \in Nat /\ 1 + Len(p.user) <= Len(m)
      <4> DEFINE u == Len(p.user)
                 w == Len(p.password)
                 l == Len(m)
      <4>1. u \in Nat /\ w \in Nat /\ l \in Nat /\ u + 2 + w <= l
        BY <1>1, <2>2, <2>3
      <4> HIDE DEF u, w, l
      <4>2. 1 + u <= l
        BY <4>1
      <4> QED
        BY <4>2 DEF u, l
    <3> QED
      BY <2>1, <2>2, <3>1, CopiedIs
  <2>5. p.password = SubSeq(m, PassAt(m) + 1, PassAt(m) + Len(p.password))
    BY <2>1, <2>2, <2>3, CopiedIs
  <2>6. CString(p.user) = p.user
    <3>1. ASSUME NEW i \in 1..Len(p.user) PROVE p.user[i] # 0
      <4>1. p.user[i] = m[1 + i] /\ Len(p.user) = m[1]
        BY <2>1 DEF Copied
      <4>2. \A u, w, l \in Nat : u + 2 + w <= l =>
              \A k \in 1..u : 1 + k \in 1..l /\ 1 + k # 1 /\ 1 + k # u + 2
        OBVIOUS
      <4>3. Len(p.user) + 2 + Len(p.password) <= Len(m)
        BY <2>3
      <4>4. 1 + i \in 1..Len(m) /\ 1 + i # 1 /\ 1 + i # Len(p.user) + 2
        BY <1>1, <2>2, <4>2, <4>3
      <4> QED
        BY <1>1, <4>1, <4>4 DEF PlainLogin
    <3> QED
      BY <2>2, <3>1, CStringIs
  <2>7. CString(p.password) = p.password
    <3>1. ASSUME NEW i \in 1..Len(p.password) PROVE p.password[i] # 0
      <4>1. /\ PassAt(m) + i \in 1..Len(m) /\ PassAt(m) + i # 1 /\ PassAt(m) + i # m[1] + 2
            /\ p.password[i] = m[PassAt(m) + i]
        BY <1>1, <2>1, <2>2, <2>3 DEF Copied, PassAt
      <4> QED
        BY <1>1, <4>1 DEF PlainLogin
    <3> QED
      BY <2>2, <3>1, CStringIs
  <2>8. Service!UserOf(m) = p.user
    <3>1. 1 + 1 = 2 /\ 1 + Len(p.user) = m[1] + 1
      BY <2>1, <2>2
    <3> QED
      BY <2>4, <3>1 DEF Service!UserOf
  <2>9. Service!PassOf(m) = p.password
    <3>1. PassAt(m) + 1 = m[1] + 3 /\ PassAt(m) + Len(p.password) = m[1] + 2 + m[m[1] + 2]
      BY <2>1, <2>2 DEF PassAt
    <3> QED
      BY <2>5, <3>1 DEF Service!PassOf
  <2>10. Service!WellFormed(m)
    BY <2>1 DEF Service!WellFormed, PassAt
  <2>11. AuthenticateAdmin(p.user, p.password) <=>
           [name |-> Service!UserOf(m), pass |-> Service!PassOf(m)] = AdminUser
    BY <2>6, <2>7, <2>8, <2>9 DEF AuthenticateAdmin
  <2> QED
    BY <1>3, <2>10, <2>11 DEF AuthRet, Says, Service!Verdict, Service!Says
<1> QED
  BY <1>2, <1>3 DEF AuthFinal

-----------------------------------------------------------------------------
(* What the parser of a command knows when it was fed j bytes of m *)

\* One space behind "2 " and no other: the gap between user and password.
AddAt(m, g) ==
  /\ m[1] = 50 /\ m[2] = 32 /\ g \in 3..Len(m) /\ m[g] = 32
  /\ \A i \in 3..Len(m) : m[i] = 32 => i = g
ResizeOf(m) ==
  Len(m) > 2 /\ m[1] = 52 /\ m[2] = 32 /\ \A i \in 3..(Len(m) - 1) : m[i] \in Digits

Spaceless(f) == \A i \in 1..Len(f) : f[i] # 32
UserRead(p, m) ==
  m[1] = 50 /\ m[2] = 32 /\ p.user \in Seq(Octet) /\ Copied(p.user, m, 2) /\ Spaceless(p.user)
PassRead(p, m) ==
  /\ UserRead(p, m) /\ m[3 + Len(p.user)] = 32
  /\ p.password \in Seq(Octet) /\ Copied(p.password, m, 3 + Len(p.user)) /\ Spaceless(p.password)
SizeRead(p, m) ==
  m[1] = 52 /\ m[2] = 32 /\ p.new_buff_size \in Seq(Digits) /\ Copied(p.new_buff_size, m, 2)

Complete(p, m) ==
  \/ p.cmd_selected = 49 /\ Len(m) = 2 /\ m[1] = 49
  \/ p.cmd_selected = 50 /\ PassRead(p, m) /\ Len(m) = 4 + Len(p.user) + Len(p.password)
  \/ p.cmd_selected = 51 /\ Len(m) = 2 /\ m[1] = 51
  \/ p.cmd_selected = 52 /\ SizeRead(p, m) /\ Len(m) = 3 + Len(p.new_buff_size)
Senseless(m) ==
  ~ (Len(m) = 2 /\ m[1] \in {49, 51}) /\ ~ (\E g : AddAt(m, g)) /\ ~ ResizeOf(m)

RequestKnows(p, m, j) ==
  /\ RequestSound(p)
  /\ p.state = "reading_cmd" => j = 0
  /\ p.state = "reading_metrics_cmd" => j = 1 /\ m[1] = 49
  /\ p.state = "reading_add_user_cmd" => j = 1 /\ m[1] = 50
  /\ p.state = "reading_list_user_cmd" => j = 1 /\ m[1] = 51
  /\ p.state = "reading_change_buff_size_cmd" => j = 1 /\ m[1] = 52
  /\ p.state = "reading_user" => UserRead(p, m) /\ j = 2 + Len(p.user)
  /\ p.state = "reading_pass" => PassRead(p, m) /\ j = 3 + Len(p.user) + Len(p.password)
  /\ p.state = "reading_buff_size" => SizeRead(p, m) /\ j = 2 + Len(p.new_buff_size)
  /\ p.state = "done" => Complete(p, m) /\ j = Len(m)
  /\ p.state = "invalid_cmd" => Senseless(m)

\* A field without spaces stays one when what is appended is none.
LEMMA SpacelessAppend ==
  ASSUME NEW f \in Seq(Octet), Spaceless(f), NEW c \in Octet, c # 32
  PROVE  Spaceless(Append(f, c))
<1>1. /\ Len(f) \in Nat /\ Len(Append(f, c)) = Len(f) + 1
      /\ \A i \in 1..Len(f) : Append(f, c)[i] = f[i]
      /\ Append(f, c)[Len(f) + 1] = c
  BY AppendProperties, LenProperties
<1> QED
  BY <1>1 DEF Spaceless

\* The first byte of a command.
LEMMA CommandKnows ==
  ASSUME NEW m \in Seq(Octet), PlainCommand(m), NEW p, RequestKnows(p, m, 0), p.state = "reading_cmd"
  PROVE  RequestKnows(FeedRequest(p, m[1]), m, 1)
<1> DEFINE c == m[1]
           q == FeedRequest(p, c)
<1>1. c \in Octet
  <2>1. 1 \in 1..Len(m)
    BY LenProperties DEF PlainCommand
  <2> QED
    BY <2>1, ElementOfSeq
<1>2. p \in RequestPars /\ RequestSound(q)
  BY <1>1, RequestFeeds DEF RequestKnows, RequestSound
<1>3. q = FeedCommand(p, c)
  BY DEF FeedRequest
<1>4. q.state = CASE c = 49 -> "reading_metrics_cmd"
                  [] c = 50 -> "reading_add_user_cmd"
                  [] c = 51 -> "reading_list_user_cmd"
                  [] c = 52 -> "reading_change_buff_size_cmd"
                  [] OTHER -> "invalid_cmd"
  BY <1>2, <1>3 DEF FeedCommand, RequestPars, Digit
<1> HIDE DEF q
<1>5. CASE c \in {49, 50, 51, 52}
  BY <1>2, <1>4, <1>5 DEF RequestKnows, q
<1>6. CASE c \notin {49, 50, 51, 52}
  <2>1. q.state = "invalid_cmd"
    BY <1>4, <1>6
  <2>2. Senseless(m)
    BY <1>6 DEF Senseless, AddAt, ResizeOf
  <2> QED
    BY <1>2, <2>1, <2>2 DEF RequestKnows, q
<1> QED
  BY <1>5, <1>6

\* The second byte of a command.
LEMMA ArgumentKnows ==
  ASSUME NEW m \in Seq(Octet), PlainCommand(m), 1 < Len(m), NEW p, RequestKnows(p, m, 1),
         p.state \in {"reading_metrics_cmd", "reading_list_user_cmd", "reading_add_user_cmd",
                      "reading_change_buff_size_cmd"}
  PROVE  RequestKnows(FeedRequest(p, m[2]), m, 2)
<1> DEFINE c == m[2]
           q == FeedRequest(p, c)
<1>1. Len(m) \in Nat /\ c \in Octet /\ (c = 10 <=> Len(m) = 2)
  <2>1. 2 \in 1..Len(m) /\ DOMAIN m = 1..Len(m) /\ Len(m) \in Nat
    BY LenProperties
  <2> QED
    BY <2>1, ElementOfSeq DEF PlainCommand, Newline
<1>2. p \in RequestPars /\ RequestSound(p) /\ RequestSound(q)
  BY <1>1, RequestFeeds DEF RequestKnows, RequestSound
<1>3. CASE p.state \in {"reading_metrics_cmd", "reading_list_user_cmd"}
  <2>1. q = [p EXCEPT !.state = IF c = 10 THEN "done" ELSE "invalid_cmd"]
    BY <1>3 DEF FeedRequest, Newline
  <2>2. /\ q.state = IF c = 10 THEN "done" ELSE "invalid_cmd"
        /\ q.cmd_selected = p.cmd_selected
    BY <1>2, <2>1 DEF RequestPars
  <2>3. p.cmd_selected = m[1] /\ m[1] \in {49, 51}
    BY <1>2, <1>3 DEF RequestKnows, RequestSound, Digit
  <2> HIDE DEF q
  <2>4. CASE c = 10
    <3>1. q.state = "done" /\ Complete(q, m)
      BY <1>1, <2>2, <2>3, <2>4 DEF Complete
    <3> QED
      BY <1>1, <1>2, <2>4, <3>1 DEF RequestKnows, q
  <2>5. CASE c # 10
    <3>1. q.state = "invalid_cmd" /\ Senseless(m)
      BY <1>1, <2>2, <2>3, <2>5 DEF Senseless, AddAt, ResizeOf
    <3> QED
      BY <1>2, <3>1 DEF RequestKnows, q
  <2> QED
    BY <2>4, <2>5
<1>4. CASE p.state = "reading_add_user_cmd"
  <2>1. m[1] = 50
    BY <1>4 DEF RequestKnows
  <2>2. CASE c = 32
    <3>1. q = [p EXCEPT !.user = << >>, !.state = "reading_user"]
      BY <1>4, <2>2 DEF FeedRequest, Space
    <3>2. q.user = << >> /\ q.state = "reading_user" /\ Len(q.user) = 0 /\ q.user \in Seq(Octet)
      BY <1>2, <3>1, EmptySeq DEF RequestPars
    <3> HIDE DEF q
    <3>3. UserRead(q, m)
      BY <2>1, <2>2, <3>2 DEF UserRead, Copied, Spaceless
    <3> QED
      BY <1>2, <3>2, <3>3 DEF RequestKnows, q
  <2>3. CASE c # 32
    <3>1. q = [p EXCEPT !.state = "invalid_cmd"]
      BY <1>4, <2>3 DEF FeedRequest, Space
    <3>2. q.state = "invalid_cmd" /\ Senseless(m)
      BY <1>2, <2>1, <2>3, <3>1 DEF RequestPars, Senseless, AddAt, ResizeOf
    <3> HIDE DEF q
    <3> QED
      BY <1>2, <3>2 DEF RequestKnows, q
  <2> QED
    BY <2>2, <2>3
<1>5. CASE p.state = "reading_change_buff_size_cmd"
  <2>1. m[1] = 52
    BY <1>5 DEF RequestKnows
  <2>2. CASE c = 32
    <3>1. q = [p EXCEPT !.new_buff_size = << >>, !.state = "reading_buff_size"]
      BY <1>5, <2>2 DEF FeedRequest, Space
    <3>2. /\ q.new_buff_size = << >> /\ q.state = "reading_buff_size"
          /\ Len(q.new_buff_size) = 0 /\ q.new_buff_size \in Seq(Digits)
      BY <1>2, <3>1, EmptySeq DEF RequestPars
    <3> HIDE DEF q
    <3>3. SizeRead(q, m)
      BY <2>1, <2>2, <3>2 DEF SizeRead, Copied
    <3> QED
      BY <1>2, <3>2, <3>3 DEF RequestKnows, q
  <2>3. CASE c # 32
    <3>1. q = [p EXCEPT !.state = "invalid_cmd"]
      BY <1>5, <2>3 DEF FeedRequest, Space
    <3>2. q.state = "invalid_cmd" /\ Senseless(m)
      BY <1>2, <2>1, <2>3, <3>1 DEF RequestPars, Senseless, AddAt, ResizeOf
    <3> HIDE DEF q
    <3> QED
      BY <1>2, <3>2 DEF RequestKnows, q
  <2> QED
    BY <2>2, <2>3
<1> QED
  BY <1>3, <1>4, <1>5

\* The newline is the last byte and no other.
LEMMA NextByte ==
  ASSUME NEW m \in Seq(Octet), PlainCommand(m), NEW j \in 0..(Len(m) - 1)
  PROVE  /\ Len(m) \in Nat /\ j \in Nat /\ m[j + 1] \in Octet
         /\ m[j + 1] = 10 <=> Len(m) = j + 1
         /\ m[Len(m)] = 10
<1>1. Len(m) \in Nat /\ DOMAIN m = 1..Len(m) /\ \A i \in 1..Len(m) : m[i] \in Octet
  BY LenProperties, ElementOfSeq
<1>2. \A i \in 1..Len(m) : m[i] = 10 <=> i = Len(m)
  BY <1>1 DEF PlainCommand, Newline
<1>3. j + 1 \in 1..Len(m) /\ Len(m) \in 1..Len(m) /\ j \in Nat
  BY <1>1
<1> QED
  BY <1>1, <1>2, <1>3

\* A byte of the user's name, or the space behind it.
LEMMA UserKnows ==
  ASSUME NEW m \in Seq(Octet), PlainCommand(m), NEW j \in 0..(Len(m) - 1), NEW p,
         RequestKnows(p, m, j), p.state = "reading_user"
  PROVE  RequestKnows(FeedRequest(p, m[j + 1]), m, j + 1)
<1> DEFINE c == m[j + 1]
           q == FeedRequest(p, c)
<1>1. Len(m) \in Nat /\ j \in Nat /\ c \in Octet /\ (c = 10 <=> Len(m) = j + 1) /\ m[Len(m)] = 10
  BY NextByte
<1>2. p \in RequestPars /\ RequestSound(p) /\ RequestSound(q)
  BY <1>1, RequestFeeds DEF RequestKnows, RequestSound
<1>3. UserRead(p, m) /\ j = 2 + Len(p.user)
  BY DEF RequestKnows
<1>4. /\ m[1] = 50 /\ m[2] = 32 /\ p.user \in Seq(Octet) /\ Copied(p.user, m, 2)
      /\ Spaceless(p.user) /\ Len(p.user) \in Nat
  BY <1>3, LenProperties DEF UserRead
<1>5. q = FeedUser(p, c)
  BY DEF FeedRequest
<1>6. CASE c = 32
  <2>1. q = [p EXCEPT !.password = << >>, !.state = "reading_pass"]
    BY <1>5, <1>6 DEF FeedUser, Space, Newline
  <2>2. /\ q.user = p.user /\ q.password = << >> /\ q.state = "reading_pass"
        /\ Len(q.password) = 0 /\ q.password \in Seq(Octet)
    BY <1>2, <2>1, EmptySeq DEF RequestPars
  <2>3. j + 1 = 3 + Len(p.user)
    BY <1>3, <1>4
  <2> HIDE DEF q
  <2>4. PassRead(q, m)
    BY <1>4, <1>6, <2>2, <2>3 DEF PassRead, UserRead, Copied, Spaceless
  <2>5. j + 1 = 3 + Len(q.user) + Len(q.password)
    BY <1>4, <2>2, <2>3
  <2> QED
    BY <1>2, <2>2, <2>4, <2>5 DEF RequestKnows, q
<1>7. CASE c = 10
  <2>1. q = [p EXCEPT !.state = "invalid_cmd"]
    BY <1>5, <1>7 DEF FeedUser, Space, Newline
  <2>2. q.state = "invalid_cmd"
    BY <1>2, <2>1 DEF RequestPars
  <2> HIDE DEF q
  <2>3. ASSUME NEW g, AddAt(m, g) PROVE FALSE
    <3>1. g \in 3..Len(m) /\ m[g] = 32 /\ Len(m) = j + 1
      BY <1>1, <1>7, <2>3 DEF AddAt
    <3>2. g # Len(m)
      BY <1>1, <3>1
    <3>3. g - 2 \in 1..Len(p.user) /\ 2 + (g - 2) = g
      BY <1>1, <1>3, <1>4, <3>1, <3>2
    <3>4. p.user[g - 2] = m[2 + (g - 2)] /\ p.user[g - 2] # 32
      BY <1>4, <3>3 DEF Copied, Spaceless
    <3> QED
      BY <3>1, <3>3, <3>4
  <2>4. Senseless(m)
    BY <1>4, <2>3 DEF Senseless, ResizeOf
  <2> QED
    BY <1>2, <2>2, <2>4 DEF RequestKnows, q
<1>8. CASE c # 32 /\ c # 10
  <2>1. q = [p EXCEPT !.user = Append(@, c)]
    BY <1>5, <1>8 DEF FeedUser, Space, Newline
  <2>2. q.user = Append(p.user, c) /\ q.state = "reading_user"
    BY <1>2, <2>1 DEF RequestPars
  <2>3. c = m[2 + Len(p.user) + 1]
    BY <1>3
  <2> HIDE DEF q, c
  <2>4. /\ Append(p.user, c) \in Seq(Octet) /\ Len(Append(p.user, c)) = Len(p.user) + 1
        /\ Copied(Append(p.user, c), m, 2)
    <3>1. 2 \in Nat /\ c \in Octet /\ p.user \in Seq(Octet) /\ Copied(p.user, m, 2)
      BY <1>1, <1>4
    <3> QED
      BY <2>3, <3>1, CopiedAppend
  <2>5. Spaceless(Append(p.user, c))
    BY <1>1, <1>4, <1>8, SpacelessAppend
  <2>6. UserRead(q, m)
    BY <1>4, <2>2, <2>4, <2>5 DEF UserRead
  <2>7. j + 1 = 2 + Len(q.user)
    BY <1>3, <1>4, <2>2, <2>4
  <2> QED
    BY <1>2, <2>2, <2>6, <2>7 DEF RequestKnows, q, c
<1> QED
  BY <1>6, <1>7, <1>8

\* A byte of the password, or the newline behind it.
LEMMA PassKnows ==
  ASSUME NEW m \in Seq(Octet), PlainCommand(m), NEW j \in 0..(Len(m) - 1), NEW p,
         RequestKnows(p, m, j), p.state = "reading_pass"
  PROVE  RequestKnows(FeedRequest(p, m[j + 1]), m, j + 1)
<1> DEFINE c == m[j + 1]
           q == FeedRequest(p, c)
           from == 3 + Len(p.user)
<1>1. Len(m) \in Nat /\ j \in Nat /\ c \in Octet /\ (c = 10 <=> Len(m) = j + 1)
  BY NextByte
<1>2. p \in RequestPars /\ RequestSound(p) /\ RequestSound(q)
  <2>1. RequestSound(p)
    BY DEF RequestKnows
  <2>2. p \in RequestPars
    BY <2>1 DEF RequestSound
  <2>3. RequestSound(q)
    BY <1>1, <2>1, RequestFeeds
  <2> QED
    BY <2>1, <2>2, <2>3
<1>3. PassRead(p, m) /\ j = from + Len(p.password)
  BY DEF RequestKnows
<1>4. /\ UserRead(p, m) /\ p.user \in Seq(Octet) /\ Len(p.user) \in Nat /\ m[1] = 50 /\ m[2] = 32
      /\ m[from] = 32 /\ p.password \in Seq(Octet) /\ Len(p.password) \in Nat
      /\ Copied(p.password, m, from) /\ Spaceless(p.password)
  BY <1>3, LenProperties DEF PassRead, UserRead
<1>5. q = FeedPass(p, c)
  BY DEF FeedRequest
<1>6. p.cmd_selected = 50
  BY <1>2 DEF RequestSound, Digit
<1>7. CASE c = 32
  <2>1. q = [p EXCEPT !.state = "invalid_cmd"]
    BY <1>5, <1>7 DEF FeedPass, Space, Newline
  <2>2. q.state = "invalid_cmd"
    BY <1>2, <2>1 DEF RequestPars
  <2> HIDE DEF q
  <2>3. from \in 3..Len(m) /\ j + 1 \in 3..Len(m) /\ from # j + 1
    <3>1. \A u, w, l \in Nat : 3 + u + w <= l - 1 =>
            /\ 3 + u \in 3..l /\ (3 + u + w) + 1 \in 3..l /\ 3 + u # (3 + u + w) + 1
      OBVIOUS
    <3>2. j = 3 + Len(p.user) + Len(p.password) /\ j <= Len(m) - 1
      <4>1. j = 3 + Len(p.user) + Len(p.password)
        BY <1>3
      <4> HIDE DEF from
      <4>2. j <= Len(m) - 1
        BY <1>1
      <4> QED
        BY <4>1, <4>2
    <3> HIDE DEF from
    <3>3. 3 + Len(p.user) + Len(p.password) <= Len(m) - 1
      BY <3>2
    <3> QED
      BY <1>1, <1>4, <3>1, <3>2, <3>3 DEF from
  <2> HIDE DEF from
  <2>4. ASSUME NEW g, AddAt(m, g) PROVE FALSE
    BY <1>4, <1>7, <2>3, <2>4 DEF AddAt
  <2>5. Senseless(m)
    BY <1>4, <2>4 DEF Senseless, ResizeOf
  <2> QED
    BY <1>2, <2>2, <2>5 DEF RequestKnows, q
<1>8. CASE c = 10
  <2>1. q = [p EXCEPT !.state = "done"]
    BY <1>5, <1>8 DEF FeedPass, Space, Newline
  <2>2. q.state = "done" /\ q.cmd_selected = 50 /\ q.user = p.user /\ q.password = p.password
    BY <1>2, <1>6, <2>1 DEF RequestPars
  <2> HIDE DEF q
  <2>3. PassRead(q, m)
    BY <1>3, <2>2 DEF PassRead, UserRead
  <2>4. Len(m) = 4 + Len(q.user) + Len(q.password) /\ j + 1 = Len(m)
    <3>1. \A u, w \in Nat : (3 + u + w) + 1 = 4 + u + w
      OBVIOUS
    <3>2. j = 3 + Len(p.user) + Len(p.password) /\ j + 1 = Len(m)
      BY <1>1, <1>3, <1>8
    <3>3. Len(p.user) \in Nat /\ Len(p.password) \in Nat
      BY <1>4
    <3>4. Len(m) = 4 + Len(p.user) + Len(p.password)
      BY <3>1, <3>2, <3>3
    <3> QED
      BY <2>2, <3>2, <3>4
  <2>5. Complete(q, m)
    BY <2>2, <2>3, <2>4 DEF Complete
  <2> QED
    BY <1>2, <2>2, <2>4, <2>5 DEF RequestKnows, q
<1>9. CASE c # 32 /\ c # 10
  <2>1. q = [p EXCEPT !.password = Append(@, c)]
    BY <1>5, <1>9 DEF FeedPass, Space, Newline
  <2>2. q.password = Append(p.password, c) /\ q.user = p.user /\ q.state = "reading_pass"
    BY <1>2, <2>1 DEF RequestPars
  <2>3. c = m[from + Len(p.password) + 1] /\ from \in Nat
    BY <1>3, <1>4
  <2> HIDE DEF q, c
  <2>4. /\ Append(p.password, c) \in Seq(Octet)
        /\ Len(Append(p.password, c)) = Len(p.password) + 1
        /\ Copied(Append(p.password, c), m, from)
    <3> HIDE DEF from
    <3>1. Copied(p.password, m, from) /\ p.password \in Seq(Octet)
      BY <1>4
    <3>2. c \in Octet
      BY <1>1
    <3>3. c = m[from + Len(p.password) + 1] /\ from \in Nat
      BY <2>3
    <3> QED
      BY <3>1, <3>2, <3>3, CopiedAppend
  <2>5. Spaceless(Append(p.password, c))
    BY <1>1, <1>4, <1>9, SpacelessAppend
  <2>6. PassRead(q, m)
    BY <1>4, <2>2, <2>4, <2>5 DEF PassRead, UserRead
  <2>7. j + 1 = 3 + Len(q.user) + Len(q.password)
    <3>1. \A u, w \in Nat : (3 + u + w) + 1 = 3 + u + (w + 1)
      OBVIOUS
    <3>2. j = 3 + Len(p.user) + Len(p.password)
      BY <1>3
    <3>3. j + 1 = 3 + Len(p.user) + (Len(p.password) + 1)
      BY <1>4, <3>1, <3>2
    <3>4. Len(q.user) = Len(p.user) /\ Len(q.password) = Len(p.password) + 1
      BY <2>2, <2>4
    <3> QED
      BY <3>3, <3>4
  <2> QED
    BY <1>2, <2>2, <2>6, <2>7 DEF RequestKnows, q, c
<1> QED
  BY <1>7, <1>8, <1>9

\* A byte of the size, or the newline behind it.
LEMMA SizeKnows ==
  ASSUME NEW m \in Seq(Octet), PlainCommand(m), NEW j \in 0..(Len(m) - 1), NEW p,
         RequestKnows(p, m, j), p.state = "reading_buff_size"
  PROVE  RequestKnows(FeedRequest(p, m[j + 1]), m, j + 1)
<1> DEFINE c == m[j + 1]
           q == FeedRequest(p, c)
<1>1. Len(m) \in Nat /\ j \in Nat /\ c \in Octet /\ (c = 10 <=> Len(m) = j + 1)
  BY NextByte
<1>2. p \in RequestPars /\ RequestSound(p) /\ RequestSound(q)
  BY <1>1, RequestFeeds DEF RequestKnows, RequestSound
<1>3. SizeRead(p, m) /\ j = 2 + Len(p.new_buff_size)
  BY DEF RequestKnows
<1>4. /\ m[1] = 52 /\ m[2] = 32 /\ p.new_buff_size \in Seq(Digits)
      /\ Copied(p.new_buff_size, m, 2) /\ Len(p.new_buff_size) \in Nat
  BY <1>3, LenProperties DEF SizeRead
<1>5. q = FeedSize(p, c)
  BY DEF FeedRequest
<1>6. p.cmd_selected = 52
  BY <1>2 DEF RequestSound, Digit
<1>7. CASE c = 10
  <2>1. q = [p EXCEPT !.state = "done"]
    BY <1>5, <1>7 DEF FeedSize, Newline, Digits
  <2>2. q.state = "done" /\ q.cmd_selected = 52 /\ q.new_buff_size = p.new_buff_size
    BY <1>2, <1>6, <2>1 DEF RequestPars
  <2> HIDE DEF q
  <2>3. SizeRead(q, m)
    BY <1>3, <2>2 DEF SizeRead
  <2>4. Len(m) = 3 + Len(q.new_buff_size) /\ j + 1 = Len(m)
    BY <1>1, <1>3, <1>4, <1>7, <2>2
  <2>5. Complete(q, m)
    BY <2>2, <2>3, <2>4 DEF Complete
  <2> QED
    BY <1>2, <2>2, <2>4, <2>5 DEF RequestKnows, q
<1>8. CASE c # 10 /\ c \in Digits
  <2>1. q = [p EXCEPT !.new_buff_size = Append(@, c)]
    BY <1>5, <1>8 DEF FeedSize, Newline, Digits
  <2>2. q.new_buff_size = Append(p.new_buff_size, c) /\ q.state = "reading_buff_size"
    BY <1>2, <2>1 DEF RequestPars
  <2>3. c = m[2 + Len(p.new_buff_size) + 1]
    BY <1>3
  <2> HIDE DEF q, c
  <2>4. /\ Append(p.new_buff_size, c) \in Seq(Digits)
        /\ Len(Append(p.new_buff_size, c)) = Len(p.new_buff_size) + 1
        /\ Copied(Append(p.new_buff_size, c), m, 2)
    <3>1. 2 \in Nat
      OBVIOUS
    <3> QED
      BY <1>4, <1>8, <2>3, <3>1, CopiedAppend
  <2>5. SizeRead(q, m)
    BY <1>4, <2>2, <2>4 DEF SizeRead
  <2>6. j + 1 = 2 + Len(q.new_buff_size)
    BY <1>3, <1>4, <2>2, <2>4
  <2> QED
    BY <1>2, <2>2, <2>5, <2>6 DEF RequestKnows, q, c
<1>9. CASE c # 10 /\ c \notin Digits
  <2>1. q = [p EXCEPT !.state = "invalid_cmd"]
    BY <1>5, <1>9 DEF FeedSize, Newline, Digits
  <2>2. q.state = "invalid_cmd"
    BY <1>2, <2>1 DEF RequestPars
  <2> HIDE DEF q
  <2>3. j + 1 \in 3..(Len(m) - 1)
    BY <1>1, <1>3, <1>4, <1>9
  <2>4. Senseless(m)
    BY <1>4, <1>9, <2>3 DEF Senseless, AddAt, ResizeOf
  <2> QED
    BY <1>2, <2>2, <2>4 DEF RequestKnows, q
<1> QED
  BY <1>7, <1>8, <1>9

\* One byte of a command more.
LEMMA RequestKnowsMore ==
  ASSUME NEW m \in Seq(Octet), PlainCommand(m), NEW j \in 0..(Len(m) - 1), NEW p,
         RequestKnows(p, m, j)
  PROVE  p.state # "done" /\ RequestKnows(FeedRequest(p, m[j + 1]), m, j + 1)
<1>1. Len(m) \in Nat /\ j \in Nat /\ p \in RequestPars
  BY LenProperties DEF RequestKnows, RequestSound
<1>2. p.state # "done"
  BY <1>1 DEF RequestKnows
<1>3. CASE p.state = "reading_cmd"
  <2>1. j = 0
    BY <1>3 DEF RequestKnows
  <2> QED
    BY <1>2, <1>3, <2>1, CommandKnows
<1>4. CASE p.state \in {"reading_metrics_cmd", "reading_list_user_cmd", "reading_add_user_cmd",
                        "reading_change_buff_size_cmd"}
  <2>1. j = 1 /\ 1 < Len(m)
    BY <1>1, <1>4 DEF RequestKnows
  <2> QED
    BY <1>2, <1>4, <2>1, ArgumentKnows
<1>5. CASE p.state = "invalid_cmd"
  <2>1. FeedRequest(p, m[j + 1]) = p
    BY <1>5 DEF FeedRequest
  <2> QED
    BY <1>2, <1>5, <2>1 DEF RequestKnows
<1> QED
  BY <1>1, <1>2, <1>3, <1>4, <1>5, UserKnows, PassKnows, SizeKnows DEF RequestPars

\* A command as a whole: the loop takes all of it, and the parser has ended.
LEMMA RequestFedKnows ==
  ASSUME NEW m \in Seq(Octet), PlainCommand(m), NEW c \in Octet
  PROVE  /\ RequestKnows(RequestFed(RequestParserInit(c), m).pars, m, Len(m))
         /\ RequestFed(RequestParserInit(c), m).taken = Len(m)
         /\ RequestFed(RequestParserInit(c), m).pars.state \in {"done", "invalid_cmd"}
<1> DEFINE P == {p \in RequestPars : RequestSound(p)}
           R == [i \in 0..Len(m) |->
                  {r \in [pars : P, taken : 0..i] :
                     /\ RequestKnows(r.pars, m, i) /\ r.taken = i
                     /\ i = Len(m) => r.pars.state \in {"done", "invalid_cmd"}}]
<1>1. Len(m) \in Nat /\ Len(m) > 0
  BY LenProperties DEF PlainCommand
<1>2. [pars |-> RequestParserInit(c), taken |-> 0] \in R[0]
  <2>1. RequestSound(RequestParserInit(c)) /\ RequestParserInit(c).state = "reading_cmd"
    BY RequestStarts DEF RequestParserInit
  <2>2. RequestKnows(RequestParserInit(c), m, 0) /\ RequestParserInit(c) \in P
    BY <2>1 DEF RequestKnows, RequestSound
  <2> HIDE DEF P
  <2> QED
    BY <1>1, <2>2
<1>3. ASSUME NEW i \in 1..Len(m), NEW r \in R[i - 1] PROVE RequestTurn(r, m, i) \in R[i]
  <2>1. i - 1 \in 0..Len(m) /\ i \in 0..Len(m) /\ i - 1 \in 0..(Len(m) - 1) /\ (i - 1) + 1 = i
        /\ i \in 0..i
    BY <1>1
  <2>2. RequestKnows(r.pars, m, i - 1)
    BY <1>3, <2>1
  <2>3. r.pars.state # "done" /\ RequestKnows(FeedRequest(r.pars, m[i]), m, i)
    BY <2>1, <2>2, RequestKnowsMore
  <2>4. RequestTurn(r, m, i) = [pars |-> FeedRequest(r.pars, m[i]), taken |-> i]
    BY <2>3 DEF RequestTurn
  <2>5. FeedRequest(r.pars, m[i]) \in P
    BY <2>3 DEF RequestKnows, RequestSound
  <2>6. i = Len(m) => FeedRequest(r.pars, m[i]).state \in {"done", "invalid_cmd"}
    <3> SUFFICES ASSUME i = Len(m) PROVE FeedRequest(r.pars, m[i]).state \in {"done", "invalid_cmd"}
      OBVIOUS
    <3>1. m[i] = 10 /\ DOMAIN m = 1..Len(m)
      BY <1>1, LenProperties DEF PlainCommand, Newline
    <3>2. r.pars \in RequestPars
      BY <2>2 DEF RequestKnows, RequestSound
    <3> DEFINE q == FeedRequest(r.pars, m[i])
    <3>3. CASE r.pars.state = "reading_cmd"
      <4>1. q = [r.pars EXCEPT !.cmd_selected = 10, !.state = "invalid_cmd"]
        BY <3>1, <3>3 DEF FeedRequest, FeedCommand, Digit
      <4> QED
        BY <3>2, <4>1 DEF RequestPars
    <3>4. CASE r.pars.state = "reading_user"
      <4>1. q = [r.pars EXCEPT !.state = "invalid_cmd"]
        BY <3>1, <3>4 DEF FeedRequest, FeedUser, Space, Newline
      <4> QED
        BY <3>2, <4>1 DEF RequestPars
    <3>5. CASE r.pars.state = "reading_pass"
      <4>1. q = [r.pars EXCEPT !.state = "done"]
        BY <3>1, <3>5 DEF FeedRequest, FeedPass, Space, Newline
      <4> QED
        BY <3>2, <4>1 DEF RequestPars
    <3>6. CASE r.pars.state = "reading_buff_size"
      <4>1. q = [r.pars EXCEPT !.state = "done"]
        BY <3>1, <3>6 DEF FeedRequest, FeedSize, Newline, Digits
      <4> QED
        BY <3>2, <4>1 DEF RequestPars
    <3>7. CASE r.pars.state \notin {"reading_cmd", "reading_user", "reading_pass",
                                   "reading_buff_size"}
      BY <2>3, <3>1, <3>2, <3>7 DEF FeedRequest, RequestPars, Space, Newline
    <3> QED
      BY <3>3, <3>4, <3>5, <3>6, <3>7
  <2> HIDE DEF P
  <2> QED
    BY <2>1, <2>3, <2>4, <2>5, <2>6
<1>4. RequestFed(RequestParserInit(c), m) \in R[Len(m)]
  <2> HIDE DEF R
  <2> QED
    BY <1>1, <1>2, <1>3, RequestFedKeeps
<1> QED
  <2> HIDE DEF P
  <2> QED
    BY <1>1, <1>4

-----------------------------------------------------------------------------
(* A complete command does and says what MonitorService makes of the message *)

\* The two ways of reading a number are one.
LEMMA ValueIsNumber ==
  ASSUME NEW d
  PROVE  Value(d) = Service!Number(d)
<1> DEFINE V(f) == [i \in 0..Len(d) |->
                      IF i = 0 THEN 0 ELSE (10 * f[i - 1] + (d[i] - Digit(0))) % SizeMod]
           N(f) == [i \in 0..Len(d) |->
                      IF i = 0 THEN 0 ELSE (10 * f[i - 1] + (d[i] - 48)) % SizeMod]
<1>1. \A f : V(f) = N(f)
  BY DEF Digit
<1>2. Value(d) = (CHOOSE f : f = V(f))[Len(d)]
  BY DEF Value
<1>3. Service!Number(d) = (CHOOSE f : f = N(f))[Len(d)]
  BY DEF Service!Number
<1>4. (CHOOSE f : f = V(f)) = (CHOOSE f : f = N(f))
  <2> HIDE DEF V, N
  <2> QED
    BY <1>1
<1> QED
  BY <1>2, <1>3, <1>4

\* Two spaces, of which one is the second byte, are one at the gap.
LEMMA AddIs ==
  ASSUME NEW m \in Seq(Octet), PlainCommand(m)
  PROVE  /\ Service!IsAdd(m) <=> \E g : AddAt(m, g)
         /\ \A g : AddAt(m, g) => Service!Gap(m) = g
<1> DEFINE S == Service!Positions(m, 32)
           L == Len(m)
<1>1. L \in Nat /\ L > 0 /\ DOMAIN m = 1..L
  BY LenProperties DEF PlainCommand
<1>2. S = {i \in 1..L : m[i] = 32} /\ S \subseteq 1..L
  BY <1>1 DEF Service!Positions
<1>3. IsFiniteSet(S)
  <2>1. IsFiniteSet(1..L)
    <3>1. 1 \in Int /\ L \in Int
      BY <1>1
    <3> QED
      BY <3>1, FS_Interval
  <2> HIDE DEF S
  <2> QED
    BY <1>2, <2>1, FS_Subset
<1>4. Service!Positions(m, 10) = {L}
  BY <1>1 DEF Service!Positions, PlainCommand, Newline
<1>5. Service!Cardinality(S) = Cardinality(S)
  BY DEF Service!Cardinality, Cardinality
<1> HIDE DEF S
<1>6. Service!IsAdd(m) <=> m[1] = 50 /\ Cardinality(S) = 2 /\ m[2] = 32
  BY <1>4, <1>5 DEF Service!IsAdd, S
<1>7. ASSUME NEW g, AddAt(m, g) PROVE S = {2, g} /\ g \in Nat /\ g > 2
  <2> HIDE DEF L
  <2>1. m[1] = 50 /\ m[2] = 32 /\ g \in 3..L /\ m[g] = 32 /\ \A i \in 3..L : m[i] = 32 => i = g
    BY <1>7 DEF AddAt, L
  <2>2. \A i \in 1..L : i = 1 \/ i = 2 \/ i \in 3..L
    BY <1>1
  <2>3. 2 \in 1..L /\ g \in 1..L /\ g \in Nat /\ g > 2
    BY <1>1, <2>1
  <2> QED
    BY <1>2, <2>1, <2>2, <2>3
<1>8. ASSUME NEW g, AddAt(m, g) PROVE Service!IsAdd(m)
  <2>1. S = {2} \cup {g} /\ g \notin {2}
    BY <1>7, <1>8
  <2>2. IsFiniteSet({2}) /\ Cardinality({2}) = 1
    BY FS_Singleton
  <2>3. Cardinality({2} \cup {g}) = 2
    <3>1. Cardinality({2} \cup {g}) = IF g \in {2} THEN Cardinality({2}) ELSE Cardinality({2}) + 1
      BY <2>2, FS_AddElement
    <3> QED
      BY <2>1, <2>2, <3>1
  <2> QED
    BY <1>6, <1>8, <2>1, <2>3 DEF AddAt
<1>9. ASSUME Service!IsAdd(m) PROVE \E g : AddAt(m, g)
  <2>1. m[1] = 50 /\ Cardinality(S) = 2 /\ m[2] = 32
    BY <1>6, <1>9
  <2>2. 2 \in S
    <3>1. S # {}
      BY <1>3, <2>1, FS_EmptySet
    <3>2. PICK i \in 1..L : m[i] = 32
      BY <1>2, <3>1
    <3>3. i # 1
      BY <2>1, <3>2
    <3>4. 2 \in 1..L
      BY <1>1, <3>2, <3>3
    <3> QED
      BY <1>2, <2>1, <3>4
  <2>3. IsFiniteSet(S \ {2}) /\ Cardinality(S \ {2}) = 1
    BY <1>3, <2>1, <2>2, FS_RemoveElement
  <2>4. PICK g : S \ {2} = {g}
    BY <2>3, FS_Singleton
  <2> HIDE DEF L
  <2>5. g \in S /\ g # 2 /\ \A i \in S : i = 2 \/ i = g
    BY <2>4
  <2>6. g \in 1..L /\ m[g] = 32 /\ g # 1
    BY <1>2, <2>1, <2>5
  <2>7. g \in 3..L
    BY <1>1, <2>5, <2>6
  <2>8. ASSUME NEW i \in 3..L, m[i] = 32 PROVE i = g
    <3>1. i \in 1..L /\ i # 2
      BY <1>1
    <3> QED
      BY <1>2, <2>5, <2>8, <3>1
  <2>9. AddAt(m, g)
    BY <2>1, <2>6, <2>7, <2>8 DEF AddAt, L
  <2> QED
    BY <2>9
<1>10. ASSUME NEW g, AddAt(m, g) PROVE Service!Gap(m) = g
  <2>1. Service!Gap(m) = CHOOSE x \in S : \A y \in S : x >= y
    BY DEF Service!Gap, Service!Max, S
  <2>2. S = {2, g} /\ g \in Nat /\ g > 2
    BY <1>7, <1>10
  <2> QED
    BY <2>1, <2>2
<1> QED
  BY <1>8, <1>9, <1>10

\* A size is a size.
LEMMA ResizeIs ==
  ASSUME NEW m \in Seq(Octet), PlainCommand(m)
  PROVE  Service!IsResize(m) <=> ResizeOf(m)
<1>1. Len(m) \in Nat /\ DOMAIN m = 1..Len(m)
  BY LenProperties
<1>2. m[Len(m)] = 10
  BY <1>1 DEF PlainCommand, Newline
<1> QED
  BY <1>2 DEF Service!IsResize, ResizeOf, Digits

\* What a parser has read of a complete "2 <user> <password>".
LEMMA AddFields ==
  ASSUME NEW m \in Seq(Octet), PlainCommand(m), NEW p, PassRead(p, m),
         Len(m) = 4 + Len(p.user) + Len(p.password)
  PROVE  /\ Service!IsAdd(m) /\ Service!NewUser(m) = [name |-> p.user, pass |-> p.password]
         /\ CString(p.user) = p.user
<1> DEFINE u == Len(p.user)
           w == Len(p.password)
           L == Len(m)
           g == 3 + u
<1>1. /\ m[1] = 50 /\ m[2] = 32 /\ p.user \in Seq(Octet) /\ p.password \in Seq(Octet)
      /\ Copied(p.user, m, 2) /\ Spaceless(p.user) /\ m[g] = 32
      /\ Copied(p.password, m, g) /\ Spaceless(p.password)
      /\ u \in Nat /\ w \in Nat /\ L \in Nat /\ DOMAIN m = 1..L /\ L = 4 + u + w
  BY LenProperties DEF PassRead, UserRead
<1>2. \A i \in 1..L : m[i] # 0 /\ (m[i] = 10 <=> i = L)
  BY <1>1 DEF PlainCommand, Newline
<1>3. /\ \A i \in 1..u : p.user[i] = m[2 + i] /\ p.user[i] # 32
      /\ \A i \in 1..w : p.password[i] = m[g + i] /\ p.password[i] # 32
  BY <1>1 DEF Copied, Spaceless
<1> HIDE DEF u, w, L
<1>4. g \in 3..L /\ g + w = L - 1 /\ L \in 1..L
  BY <1>1
<1>5. ASSUME NEW i \in 3..L, m[i] = 32, i # g PROVE FALSE
  <2>1. CASE i < g
    <3>1. i - 2 \in 1..u /\ 2 + (i - 2) = i
      BY <1>1, <2>1
    <3>2. p.user[i - 2] = m[2 + (i - 2)] /\ p.user[i - 2] # 32
      BY <1>3, <3>1
    <3> QED
      BY <1>5, <3>1, <3>2
  <2>2. CASE i > g /\ i # L
    <3>1. i - g \in 1..w /\ g + (i - g) = i
      BY <1>1, <2>2
    <3> HIDE DEF g
    <3>2. p.password[i - g] = m[g + (i - g)] /\ p.password[i - g] # 32
      BY <1>3, <3>1
    <3> QED
      BY <1>5, <3>1, <3>2
  <2>3. CASE i = L
    <3>1. i \in 1..L
      BY <1>4, <2>3
    <3>2. m[i] = 10
      BY <1>2, <2>3, <3>1
    <3>3. m[i] = 32 /\ 10 # 32
      BY <1>5
    <3> QED
      BY <3>2, <3>3, Zenon
  <2>4. i < g \/ (i > g /\ i # L) \/ i = L
    BY <1>1, <1>5
  <2> QED
    BY <2>1, <2>2, <2>3, <2>4
<1>6. AddAt(m, g)
  BY <1>1, <1>4, <1>5 DEF AddAt, L
<1>7. Service!IsAdd(m) /\ Service!Gap(m) = g
  BY <1>6, AddIs
<1>8. p.user = SubSeq(m, 3, g - 1)
  <2>1. 2 \in Nat /\ 2 + u <= L /\ 2 + 1 = 3 /\ 2 + u = g - 1
    BY <1>1
  <2>2. p.user \in Seq(Octet) /\ Copied(p.user, m, 2) /\ 2 + Len(p.user) <= Len(m)
    BY <1>1, <2>1 DEF u, L
  <2> HIDE DEF g, u, L
  <2>3. p.user = SubSeq(m, 2 + 1, 2 + Len(p.user))
    BY <2>1, <2>2, CopiedIs
  <2> QED
    BY <2>1, <2>3 DEF u
<1>9. p.password = SubSeq(m, g + 1, L - 1)
  <2>1. g \in Nat /\ g + w <= L /\ g + w = L - 1
    BY <1>1, <1>4
  <2>2. Copied(p.password, m, g) /\ p.password \in Seq(Octet)
    BY <1>1
  <2> HIDE DEF g
  <2>3. g + Len(p.password) <= Len(m)
    BY <2>1 DEF w, L
  <2>4. p.password = SubSeq(m, g + 1, g + Len(p.password))
    BY <2>1, <2>2, <2>3, CopiedIs
  <2> QED
    BY <2>1, <2>4 DEF w
<1>10. CString(p.user) = p.user
  <2>1. ASSUME NEW i \in 1..u PROVE p.user[i] # 0
    <3>1. 2 + i \in 1..L
      BY <1>1
    <3>2. m[2 + i] # 0
      BY <1>2, <3>1
    <3> QED
      BY <1>3, <3>2
  <2> QED
    BY <1>1, <2>1, CStringIs DEF u
<1> QED
  <2> HIDE DEF g
  <2> QED
    BY <1>7, <1>8, <1>9, <1>10 DEF Service!NewUser, L

\* What a parser has read of a complete "4 <number>".
LEMMA ResizeFields ==
  ASSUME NEW m \in Seq(Octet), PlainCommand(m), NEW p, SizeRead(p, m),
         Len(m) = 3 + Len(p.new_buff_size)
  PROVE  Service!IsResize(m) /\ Service!Figures(m) = p.new_buff_size
<1> DEFINE d == p.new_buff_size
           w == Len(d)
           L == Len(m)
<1>1. /\ m[1] = 52 /\ m[2] = 32 /\ d \in Seq(Digits) /\ Copied(d, m, 2)
      /\ w \in Nat /\ L \in Nat /\ L = 3 + w
  BY LenProperties DEF SizeRead
<1>2. \A i \in 1..w : d[i] = m[2 + i] /\ d[i] \in Digits
  BY <1>1, ElementOfSeq DEF Copied
<1> HIDE DEF w, L, d
<1>3. ASSUME NEW i \in 3..(L - 1) PROVE m[i] \in Digits
  <2>1. i - 2 \in 1..w /\ 2 + (i - 2) = i
    BY <1>1
  <2> QED
    BY <1>2, <2>1
<1>4. ResizeOf(m)
  BY <1>1, <1>3 DEF ResizeOf, L
<1>5. d \in Seq(Octet)
  <2>1. Digits \subseteq Octet
    BY DEF Digits, Octet
  <2> QED
    BY <1>1, <2>1, SeqMonotonic
<1>6. d = SubSeq(m, 3, L - 1)
  <2>1. 2 \in Nat /\ 2 + w <= L /\ 2 + 1 = 3 /\ 2 + w = L - 1
    BY <1>1
  <2>2. d = SubSeq(m, 2 + 1, 2 + Len(d))
    BY <1>1, <1>5, <2>1, CopiedIs DEF w, L
  <2> QED
    BY <2>1, <2>2 DEF w
<1> QED
  BY <1>4, <1>6, ResizeIs DEF Service!Figures, L, d

\* What a parser that has read a whole command makes of it.
LEMMA CommandVerdict ==
  ASSUME NEW m \in Seq(Octet), PlainCommand(m), NEW p, RequestKnows(p, m, Len(m)),
         p.state \in {"done", "invalid_cmd"}, users \in Table
  PROVE  Outcomes(p) = {Outcome(Service!Answer(m), Service!UsersAfter(m), Service!SizeAfter(m))}
<1> DEFINE o == Outcome(Service!Answer(m), Service!UsersAfter(m), Service!SizeAfter(m))
<1>1. Len(m) \in Nat /\ DOMAIN m = 1..Len(m) /\ m = [i \in 1..Len(m) |-> m[i]] /\ m[Len(m)] = 10
  <2>1. Len(m) \in Nat /\ DOMAIN m = 1..Len(m) /\ m = [i \in 1..Len(m) |-> m[i]]
    BY LenProperties, IsASeq
  <2> QED
    BY <2>1 DEF PlainCommand, Newline
<1>2. /\ Service!IsAdd(m) => m[1] = 50
      /\ Service!IsResize(m) => m[1] = 52
      /\ \A x : m = <<x, 10>> => Len(m) = 2 /\ m[1] = x
  BY DEF Service!IsAdd, Service!IsResize
<1>3. CASE p.state = "invalid_cmd"
  <2>1. Senseless(m)
    BY <1>3 DEF RequestKnows
  <2>2. ~ Service!IsAdd(m) /\ ~ Service!IsResize(m) /\ m # <<49, 10>> /\ m # <<51, 10>>
    BY <1>2, <2>1, AddIs, ResizeIs DEF Senseless
  <2>3. o = Outcome(Says("invalid command"), users, buffSize)
    BY <2>2 DEF Service!Answer, Service!UsersAfter, Service!SizeAfter, Service!Added,
                Service!Resized, Service!Says, Says
  <2> QED
    BY <1>3, <2>3 DEF Outcomes
<1>4. CASE p.state = "done"
  <2>1. Complete(p, m)
    BY <1>4 DEF RequestKnows
  <2>2. CASE p.cmd_selected \in {49, 51} /\ Len(m) = 2 /\ m[1] = p.cmd_selected
    <3>1. m = <<p.cmd_selected, 10>>
      BY <1>1, <2>2
    <3>2. ~ Service!IsAdd(m) /\ ~ Service!IsResize(m)
      BY <1>2, <2>2
    <3>3. CASE p.cmd_selected = 49
      <4>1. o = Outcome(Says("metrics"), users, buffSize)
        BY <3>1, <3>2, <3>3 DEF Service!Answer, Service!UsersAfter, Service!SizeAfter,
                                Service!Added, Service!Resized, Service!Says, Says
      <4> QED
        BY <1>4, <3>3, <4>1 DEF Outcomes, Digit
    <3>4. CASE p.cmd_selected = 51
      <4>1. m # <<49, 10>>
        BY <1>2, <2>2, <3>4
      <4>2. o = Outcome([text |-> "users", users |-> users], users, buffSize)
        BY <3>1, <3>2, <3>4, <4>1 DEF Service!Answer, Service!UsersAfter, Service!SizeAfter,
                                      Service!Added, Service!Resized
      <4> QED
        BY <1>4, <3>4, <4>2 DEF Outcomes, Digit
    <3> QED
      BY <2>2, <3>3, <3>4
  <2>3. CASE p.cmd_selected = 50 /\ PassRead(p, m) /\ Len(m) = 4 + Len(p.user) + Len(p.password)
    <3> DEFINE u == [name |-> p.user, pass |-> p.password]
               r == AddUser(p.user, p.password)
    <3>1. Service!IsAdd(m) /\ Service!NewUser(m) = u /\ CString(p.user) = p.user
      BY <2>3, AddFields
    <3>2. m # <<49, 10>> /\ m # <<51, 10>> /\ ~ Service!IsResize(m)
      BY <1>2, <3>1
    <3>3. Written(p, p.password) = {p.password}
      BY <1>4 DEF Written
    <3>4. Outcomes(p) = {Outcome(Says(r.ret), r.users, buffSize)}
      <4>1. Outcomes(p) = {LET t == AddUser(CString(p.user), pass)
                           IN Outcome(Says(t.ret), t.users, buffSize) : pass \in {p.password}}
        BY <1>4, <2>3, <3>3 DEF Outcomes, Digit
      <4> QED
        BY <3>1, <4>1
    <3>5. Service!SizeAfter(m) = buffSize
      BY <3>2 DEF Service!SizeAfter, Service!Resized
    <3>6. Service!TooLong(u) <=> Len(p.user) > MaxCredentialsLen \/ Len(p.password) > MaxCredentialsLen
      BY DEF Service!TooLong
    <3> HIDE DEF u
    <3>7. Service!Added(m) <=> ~ Service!TooLong(u) /\ Len(users) < MaxUsers
      BY <3>1 DEF Service!Added
    <3>8. Service!Answer(m) = Says(r.ret) /\ Service!UsersAfter(m) = r.users
      <4>1. Service!Answer(m) = Says(CASE Service!Added(m) -> "added"
                                       [] Service!TooLong(u) -> "too long"
                                       [] OTHER -> "max users")
        BY <3>1, <3>2 DEF Service!Answer, Service!Says, Says
      <4>2. Service!UsersAfter(m) = IF Service!Added(m) THEN Append(users, u) ELSE users
        BY <3>1 DEF Service!UsersAfter
      <4>3. CASE Service!TooLong(u)
        <5>1. r = [ret |-> "too long", users |-> users]
          BY <3>6, <4>3 DEF AddUser
        <5> HIDE DEF r
        <5>2. r.ret = "too long" /\ r.users = users
          BY <5>1
        <5>3. ~ Service!Added(m)
          BY <3>7, <4>3
        <5> QED
          BY <4>1, <4>2, <4>3, <5>2, <5>3
      <4>4. CASE ~ Service!TooLong(u) /\ Len(users) < MaxUsers
        <5>1. r = [ret |-> "added", users |-> Append(users, u)]
          BY <3>6, <4>4 DEF AddUser, u
        <5> HIDE DEF r
        <5>2. r.ret = "added" /\ r.users = Append(users, u)
          BY <5>1
        <5>3. Service!Added(m)
          BY <3>7, <4>4
        <5> QED
          BY <4>1, <4>2, <4>4, <5>2, <5>3
      <4>5. CASE ~ Service!TooLong(u) /\ ~ (Len(users) < MaxUsers)
        <5>1. r = [ret |-> "max users", users |-> users]
          BY <3>6, <4>5 DEF AddUser
        <5> HIDE DEF r
        <5>2. r.ret = "max users" /\ r.users = users
          BY <5>1
        <5>3. ~ Service!Added(m)
          BY <3>7, <4>5
        <5> QED
          BY <4>1, <4>2, <4>5, <5>2, <5>3
      <4> QED
        BY <4>3, <4>4, <4>5
    <3> QED
      BY <3>4, <3>5, <3>8
  <2>4. CASE p.cmd_selected = 52 /\ SizeRead(p, m) /\ Len(m) = 3 + Len(p.new_buff_size)
    <3> DEFINE n == Value(p.new_buff_size)
               r == SetBuffSize(n)
    <3>1. Service!IsResize(m) /\ Service!Figures(m) = p.new_buff_size
      BY <2>4, ResizeFields
    <3>2. m # <<49, 10>> /\ m # <<51, 10>> /\ ~ Service!IsAdd(m)
      BY <1>2, <3>1
    <3>3. Outcomes(p) = {Outcome(Says(r.ret), users, r.size)}
      <4>1. Outcomes(p) = {LET t == SetBuffSize(k) IN Outcome(Says(t.ret), users, t.size) :
                             k \in {Value(p.new_buff_size)}}
        BY <1>4, <2>4 DEF Outcomes, Digit
      <4> QED
        BY <4>1
    <3>4. Service!Number(Service!Figures(m)) = n
      BY <3>1, ValueIsNumber
    <3>5. n \in Int
      BY <2>4, ValueIsInt DEF SizeRead
    <3> HIDE DEF n
    <3>6. Service!Resized(m) <=> MinBufferSize <= n /\ n <= MaxBuffSize
      BY <3>1, <3>4 DEF Service!Resized, Service!ValidSize
    <3>7. Service!UsersAfter(m) = users
      BY <3>2 DEF Service!UsersAfter, Service!Added
    <3>8. Service!Answer(m) = Says(IF Service!Resized(m) THEN "resized" ELSE "invalid size")
      BY <3>1, <3>2 DEF Service!Answer, Service!Says, Says
    <3>9. Service!SizeAfter(m) = IF Service!Resized(m) THEN n ELSE buffSize
      BY <3>4 DEF Service!SizeAfter
    <3>10. MinBufferSize \in Nat /\ MaxBuffSize \in Nat
      BY MonitorAssumption
    <3>11. Service!Resized(m) <=> ~ (n < MinBufferSize \/ n > MaxBuffSize)
      BY <3>5, <3>6, <3>10
    <3>12. CASE Service!Resized(m)
      <4>1. r = [ret |-> "resized", size |-> n]
        BY <3>11, <3>12 DEF SetBuffSize
      <4> HIDE DEF r
      <4>2. r.ret = "resized" /\ r.size = n
        BY <4>1
      <4> QED
        BY <3>3, <3>7, <3>8, <3>9, <3>12, <4>2
    <3>13. CASE ~ Service!Resized(m)
      <4>1. r = [ret |-> "invalid size", size |-> buffSize]
        BY <3>11, <3>13 DEF SetBuffSize
      <4> HIDE DEF r
      <4>2. r.ret = "invalid size" /\ r.size = buffSize
        BY <4>1
      <4> QED
        BY <3>3, <3>7, <3>8, <3>9, <3>13, <4>2
    <3> QED
      BY <3>12, <3>13
  <2> QED
    BY <2>1, <2>2, <2>3, <2>4 DEF Complete
<1> QED
  BY <1>3, <1>4

-----------------------------------------------------------------------------
(* Where a client and the server are with a message, while nothing was torn *)

\* Nothing was sent that was not answered: the parser starts anew.
Idle(s, out) ==
  /\ out = << >> /\ s.rb = << >> /\ s.wb = << >> /\ s.interest # "OP_WRITE"
  /\ s.state = "ADMIN_AUTH" => s.auth = AuthParserInit
  /\ s.state = "ADMIN_REQUEST" => \E c \in Octet : s.req = RequestParserInit(c)

\* m was sent, and what was received of it is what the parser knows.
AuthWaits(s, m, out) ==
  /\ PlainLogin(m)
  /\ s.interest = "OP_READ" =>
       /\ s.rb = << >> /\ s.auth.state \notin AuthFinal
       /\ \E j \in 0..Len(m) : AuthKnows(s.auth, m, j) /\ out = SubSeq(m, j + 1, Len(m))
  /\ s.interest = "OP_WRITE" =>
       /\ out = << >> /\ s.auth.state \in AuthFinal
       /\ \E j \in 0..Len(m) : AuthKnows(s.auth, m, j)
RequestWaits(s, m, out) ==
  /\ PlainCommand(m) /\ s.rb = << >>
  /\ s.interest = "OP_READ" => out = m /\ \E c \in Octet : s.req = RequestParserInit(c)
  /\ s.interest = "OP_WRITE" =>
       /\ out = << >> /\ s.req.state \in {"done", "invalid_cmd"}
       /\ RequestKnows(s.req, m, Len(m))
Waiting(s, m, out) ==
  /\ s.state # "CLOSED" /\ s.wb = << >>
  /\ s.state = "ADMIN_AUTH" => AuthWaits(s, m, out)
  /\ s.state = "ADMIN_REQUEST" => RequestWaits(s, m, out)

Stands(s, m, out, g) ==
  IF m = << >> THEN Idle(s, out) ELSE Waiting(s, m, out) /\ g = << >>
ServeInv ==
  /\ torn \in BOOLEAN
  /\ server = "up" /\ ~ torn =>
       /\ asked \in [Admin -> Seq(Octet)] /\ DOMAIN got = Admin /\ got = [a \in Admin |-> got[a]]
       /\ \A a \in Admin : Stands(adm[a], asked[a], sent[a], got[a])

-----------------------------------------------------------------------------
(* The list in the order of arrival *)

Ordered ==
  /\ Cardinality(Open) \in Nat
  /\ InOrderOfArrival \in Seq(Admin) /\ Len(InOrderOfArrival) = Cardinality(Open)
  /\ \A i \in 1..Cardinality(Open) : /\ InOrderOfArrival[i] \in Open
                                     /\ adm[InOrderOfArrival[i]].list_index = i - 1
  /\ \A a \in Open : /\ adm[a].list_index + 1 \in 1..Cardinality(Open)
                     /\ InOrderOfArrival[adm[a].list_index + 1] = a

\* Each struct stands where its index says.
LEMMA InOrder == Chain /\ adm \in [Admin -> Struct] => Ordered
<1> SUFFICES ASSUME Chain, adm \in [Admin -> Struct] PROVE Ordered
  OBVIOUS
<1> DEFINE n == Cardinality(Open)
           s == InOrderOfArrival
<1>1. n \in Nat /\ Open \subseteq Admin
  BY OpenIsFinite DEF Open
<1>2. s = [i \in 1..n |-> Hop[i - 1]]
  BY DEF InOrderOfArrival
<1>3. \A k \in Nat : k < n => Hop[k] \in Open /\ adm[Hop[k]].list_index = k
  BY HopIs
<1>4. \A a \in Open : adm[a].list_index \in Nat /\ Hop[adm[a].list_index] = a
                      /\ adm[a].list_index < n
  BY HopIs DEF Chain
<1> HIDE DEF n, s
<1>5. ASSUME NEW i \in 1..n PROVE s[i] \in Open /\ adm[s[i]].list_index = i - 1
  <2>1. i - 1 \in Nat /\ i - 1 < n /\ s[i] = Hop[i - 1]
    BY <1>1, <1>2
  <2> QED
    BY <1>3, <2>1
<1>6. ASSUME NEW a \in Open
      PROVE  adm[a].list_index + 1 \in 1..n /\ s[adm[a].list_index + 1] = a
  <2>1. adm[a].list_index \in Nat /\ adm[a].list_index < n /\ Hop[adm[a].list_index] = a
    BY <1>4
  <2>2. /\ adm[a].list_index + 1 \in 1..n
        /\ (adm[a].list_index + 1) - 1 = adm[a].list_index
    BY <1>1, <2>1
  <2> QED
    BY <1>2, <2>1, <2>2
<1>7. s \in Seq(Admin) /\ Len(s) = n
  <2>1. \A i \in 1..n : Hop[i - 1] \in Admin
    <3> TAKE i \in 1..n
    <3>1. s[i] = Hop[i - 1]
      BY <1>2
    <3> QED
      BY <1>1, <1>5, <3>1
  <2>2. s \in [1..n -> Admin]
    BY <1>2, <2>1
  <2> QED
    BY <1>1, <2>2, IsASeq, LenProperties
<1> QED
  BY <1>1, <1>5, <1>6, <1>7 DEF Ordered, n, s

\* Also after a step.
LEMMA InOrderNext == ASSUME Chain', adm' \in [Admin -> Struct] PROVE Ordered'
<1>1. (Chain /\ adm \in [Admin -> Struct] => Ordered)'
  BY InOrder, PTL
<1> QED
  BY <1>1

\* Whoever is on the list keeps the place.
LEMMA ListSame ==
  ASSUME Ordered, Ordered', Open' = Open,
         \A a \in Open : adm'[a].list_index = adm[a].list_index
  PROVE  InOrderOfArrival' = InOrderOfArrival
<1> DEFINE n == Cardinality(Open)
           s == InOrderOfArrival
           t == InOrderOfArrival'
<1>1. /\ n \in Nat /\ s \in Seq(Admin) /\ Len(s) = n
      /\ \A i \in 1..n : s[i] \in Open /\ adm[s[i]].list_index = i - 1
  BY DEF Ordered
<1>2. /\ t \in Seq(Admin) /\ Len(t) = n
      /\ \A a \in Open : t[adm'[a].list_index + 1] = a
  BY DEF Ordered
<1> HIDE DEF n, s, t
<1>3. ASSUME NEW i \in 1..n PROVE s[i] = t[i]
  <2>1. s[i] \in Open /\ adm[s[i]].list_index = i - 1
    BY <1>1
  <2>2. t[adm[s[i]].list_index + 1] = s[i]
    BY <1>2, <2>1
  <2>3. (i - 1) + 1 = i
    BY <1>1
  <2> QED
    BY <2>1, <2>2, <2>3
<1>4. s = t
  BY <1>1, <1>2, <1>3, SeqEqual
<1> QED
  BY <1>4 DEF s, t

\* Who comes is the last one.
LEMMA ListAppend ==
  ASSUME Ordered, Ordered', NEW a \in Admin, a \notin Open, Open' = Open \cup {a},
         \A b \in Open : adm'[b].list_index = adm[b].list_index
  PROVE  InOrderOfArrival' = Append(InOrderOfArrival, a)
<1> DEFINE n == Cardinality(Open)
           s == InOrderOfArrival
           t == InOrderOfArrival'
           u == Append(s, a)
<1>1. /\ n \in Nat /\ s \in Seq(Admin) /\ Len(s) = n
      /\ \A i \in 1..n : s[i] \in Open /\ adm[s[i]].list_index = i - 1
      /\ \A b \in Open : adm[b].list_index + 1 \in 1..n
  BY DEF Ordered
<1>2. Cardinality(Open') = n + 1
  <2>1. IsFiniteSet(Open)
    BY OpenIsFinite
  <2> QED
    BY <2>1, FS_AddElement
<1>3. /\ t \in Seq(Admin) /\ Len(t) = n + 1
      /\ \A i \in 1..(n + 1) : t[i] \in Open' /\ adm'[t[i]].list_index = i - 1
      /\ \A b \in Open' : t[adm'[b].list_index + 1] = b
  BY <1>2 DEF Ordered
<1>4. /\ u \in Seq(Admin) /\ Len(u) = n + 1 /\ u[n + 1] = a
      /\ \A i \in 1..n : u[i] = s[i]
  BY <1>1, AppendProperties
<1> HIDE DEF n, s, t, u
<1>5. ASSUME NEW i \in 1..n PROVE u[i] = t[i]
  <2>1. s[i] \in Open /\ adm[s[i]].list_index = i - 1 /\ (i - 1) + 1 = i
    BY <1>1
  <2>2. t[adm'[s[i]].list_index + 1] = s[i] /\ adm'[s[i]].list_index = adm[s[i]].list_index
    BY <1>3, <2>1
  <2> QED
    BY <1>4, <2>1, <2>2
<1>6. t[n + 1] = a
  <2>1. n + 1 \in 1..(n + 1) /\ (n + 1) - 1 = n
    BY <1>1
  <2>2. t[n + 1] \in Open' /\ adm'[t[n + 1]].list_index = n
    BY <1>3, <2>1
  <2>3. ASSUME t[n + 1] \in Open PROVE FALSE
    <3>1. n + 1 \in 1..n
      BY <1>1, <2>2, <2>3
    <3> QED
      BY <1>1, <3>1
  <2> QED
    BY <2>2, <2>3
<1>7. \A i \in 1..(n + 1) : u[i] = t[i]
  <2>1. \A i \in 1..(n + 1) : i \in 1..n \/ i = n + 1
    BY <1>1
  <2> QED
    BY <1>4, <1>5, <1>6, <2>1
<1>8. t = u
  BY <1>1, <1>3, <1>4, <1>7, SeqEqual
<1> QED
  BY <1>8 DEF s, t, u

\* If the others keep their places, the one that goes was the last one.
LEMMA ListCut ==
  ASSUME Ordered, Ordered', NEW a \in Open, Open' = Open \ {a},
         \A b \in Open' : adm'[b].list_index = adm[b].list_index
  PROVE  /\ InOrderOfArrival' = Service!Front(InOrderOfArrival)
         /\ Service!Last(InOrderOfArrival) = a
<1> DEFINE n == Cardinality(Open)
           s == InOrderOfArrival
           t == InOrderOfArrival'
           u == SubSeq(s, 1, n - 1)
<1>1. /\ n \in Nat /\ s \in Seq(Admin) /\ Len(s) = n
      /\ \A i \in 1..n : s[i] \in Open /\ adm[s[i]].list_index = i - 1
      /\ \A b \in Open : adm[b].list_index + 1 \in 1..n
  BY DEF Ordered
<1>2. Cardinality(Open') = n - 1 /\ n # 0
  <2>1. IsFiniteSet(Open)
    BY OpenIsFinite
  <2>2. Cardinality(Open \ {a}) = n - 1
    BY <2>1, FS_RemoveElement
  <2> QED
    BY <1>1, <2>1, <2>2, FS_EmptySet
<1>3. /\ t \in Seq(Admin) /\ Len(t) = n - 1
      /\ \A b \in Open' : /\ adm'[b].list_index + 1 \in 1..(n - 1)
                          /\ t[adm'[b].list_index + 1] = b
  BY <1>2 DEF Ordered
<1> HIDE DEF n, s, t
<1>4. s[n] = a
  <2>1. n \in 1..n /\ (n - 1) + 1 = n /\ n \notin 1..(n - 1)
    BY <1>1, <1>2
  <2>2. s[n] \in Open /\ adm[s[n]].list_index = n - 1
    BY <1>1, <2>1
  <2>3. ASSUME s[n] \in Open' PROVE FALSE
    <3>1. adm'[s[n]].list_index = n - 1
      BY <2>2, <2>3
    <3>2. (n - 1) + 1 \in 1..(n - 1)
      BY <1>3, <2>3, <3>1
    <3> QED
      BY <2>1, <3>2
  <2> QED
    BY <2>2, <2>3
<1>5. u \in Seq(Admin) /\ Len(u) = n - 1 /\ \A i \in 1..(n - 1) : u[i] = s[i]
  <2>1. 1 \in Int /\ n - 1 \in Int /\ \A i \in 1..(n - 1) : s[i] \in Admin
    <3>1. \A i \in 1..(n - 1) : i \in 1..n
      BY <1>1
    <3> QED
      BY <1>1, <3>1 DEF Open
  <2> HIDE DEF u
  <2>2. /\ SubSeq(s, 1, n - 1) \in Seq(Admin)
        /\ Len(SubSeq(s, 1, n - 1)) = IF 1 <= n - 1 THEN (n - 1) - 1 + 1 ELSE 0
        /\ \A i \in 1..((n - 1) - 1 + 1) : SubSeq(s, 1, n - 1)[i] = s[1 + i - 1]
    BY <2>1, SubSeqProperties
  <2>3. (n - 1) - 1 + 1 = n - 1 /\ (~ (1 <= n - 1) => n - 1 = 0)
        /\ \A i \in 1..(n - 1) : 1 + i - 1 = i
    BY <1>1, <1>2
  <2> QED
    BY <2>2, <2>3 DEF u
<1> HIDE DEF u
<1>6. ASSUME NEW i \in 1..(n - 1) PROVE u[i] = t[i]
  <2>1. i \in 1..n /\ (i - 1) + 1 = i /\ i - 1 # n - 1 /\ n \in 1..n
    BY <1>1, <1>2
  <2>2. s[i] \in Open /\ adm[s[i]].list_index = i - 1 /\ adm[s[n]].list_index = n - 1
    BY <1>1, <2>1
  <2>3. s[i] \in Open'
    BY <1>4, <2>1, <2>2
  <2>4. t[adm'[s[i]].list_index + 1] = s[i] /\ adm'[s[i]].list_index = adm[s[i]].list_index
    BY <1>3, <2>3
  <2> QED
    BY <1>5, <2>1, <2>2, <2>4
<1>7. t = u
  <2>1. n - 1 \in Nat
    BY <1>1, <1>2
  <2> QED
    BY <1>3, <1>5, <1>6, <2>1, SeqEqual
<1>8. Service!Front(s) = u /\ Service!Last(s) = s[n]
  BY <1>1 DEF Service!Front, Service!Last, u
<1> QED
  BY <1>4, <1>7, <1>8 DEF s, t

-----------------------------------------------------------------------------
(* What a step leaves alone *)

Same(s, t) ==
  /\ t.state = s.state /\ t.interest = s.interest /\ t.auth = s.auth /\ t.req = s.req
  /\ t.rb = s.rb /\ t.wb = s.wb /\ t.list_index = s.list_index

\* Where a client stands depends on nothing else of its struct.
LEMMA SameStands ==
  ASSUME NEW s, NEW t, Same(s, t), NEW m, NEW out, NEW g, Stands(s, m, out, g)
  PROVE  Stands(t, m, out, g)
<1>1. /\ t.state = s.state /\ t.interest = s.interest /\ t.auth = s.auth /\ t.req = s.req
      /\ t.rb = s.rb /\ t.wb = s.wb
  BY DEF Same
<1>2. Idle(s, out) => Idle(t, out)
  BY <1>1 DEF Idle
<1>3. AuthWaits(s, m, out) => AuthWaits(t, m, out)
  BY <1>1 DEF AuthWaits
<1>4. RequestWaits(s, m, out) => RequestWaits(t, m, out)
  BY <1>1 DEF RequestWaits
<1> QED
  BY <1>1, <1>2, <1>3, <1>4 DEF Stands, Waiting

OthersSame(a) ==
  \A b \in Admin \ {a} : /\ Same(adm[b], adm'[b]) /\ asked'[b] = asked[b]
                         /\ sent'[b] = sent[b] /\ got'[b] = got[b]

\* A step that changes one client's part leaves the others where they stand.
LEMMA OthersStand ==
  ASSUME ServeInv, server = "up", ~ torn, NEW a \in Admin, OthersSame(a),
         torn' \in BOOLEAN, asked' \in [Admin -> Seq(Octet)],
         DOMAIN got' = Admin, got' = [b \in Admin |-> got'[b]],
         Stands(adm'[a], asked'[a], sent'[a], got'[a])
  PROVE  ServeInv'
<1>1. ASSUME NEW b \in Admin PROVE Stands(adm'[b], asked'[b], sent'[b], got'[b])
  <2>1. CASE b = a
    BY <2>1
  <2>2. CASE b # a
    <3>1. Stands(adm[b], asked[b], sent[b], got[b])
      BY DEF ServeInv
    <3>2. Stands(adm'[b], asked[b], sent[b], got[b])
      BY <2>2, <3>1, SameStands DEF OthersSame
    <3> QED
      BY <2>2, <3>2 DEF OthersSame
  <2> QED
    BY <2>1, <2>2
<1> QED
  BY <1>1 DEF ServeInv

\* While the server is up its list is ordered.
LEMMA UpOrdered == ASSUME MonitorInv, server = "up" PROVE Ordered
BY InOrder DEF MonitorInv

\* Also after a step.
LEMMA UpOrderedNext == ASSUME MonitorInv', server' = "up" PROVE Ordered'
<1>1. Chain' /\ adm' \in [Admin -> Struct]
  BY DEF MonitorInv
<1> QED
  BY <1>1, InOrderNext

\* The service has whoever is on the list.
LEMMA HereIs ==
  ASSUME MonitorInv, server = "up", NEW a \in Admin
  PROVE  Service!Here(a) <=> a \in Open
<1> DEFINE n == Cardinality(Open)
           s == InOrderOfArrival
<1>1. /\ n \in Nat /\ s \in Seq(Admin) /\ Len(s) = n
      /\ \A i \in 1..n : s[i] \in Open
      /\ \A b \in Open : adm[b].list_index + 1 \in 1..n /\ s[adm[b].list_index + 1] = b
  BY UpOrdered DEF Ordered
<1>2. DOMAIN s = 1..n
  BY <1>1, LenProperties
<1>3. Service!Here(a) <=> \E i \in DOMAIN s : s[i] = a
  BY DEF Service!Here
<1> HIDE DEF n, s
<1> QED
  BY <1>1, <1>2, <1>3

\* Who comes has a struct like a new one; the others keep theirs.
LEMMA NewAdminIs ==
  ASSUME Chain, adm \in [Admin -> Struct], NEW a \in Admin \ Open, NewAdmin(a)
  PROVE  /\ \A b \in Admin \ {a} : Same(adm[b], adm'[b])
         /\ adm'[a].state = "ADMIN_AUTH" /\ adm'[a].interest = "OP_READ"
         /\ adm'[a].auth = AuthParserInit /\ adm'[a].rb = << >> /\ adm'[a].wb = << >>
<1> DEFINE new == [Closed EXCEPT !.state = "ADMIN_AUTH", !.interest = "OP_READ"]
           z == Hop[LastHop]
           last == [new EXCEPT !.list_index = LastHop + 1]
<1>1. /\ new.state = "ADMIN_AUTH" /\ new.interest = "OP_READ"
      /\ new.auth = AuthParserInit /\ new.rb = << >> /\ new.wb = << >>
  BY DEF Closed
<1>2. /\ last.state = "ADMIN_AUTH" /\ last.interest = "OP_READ"
      /\ last.auth = AuthParserInit /\ last.rb = << >> /\ last.wb = << >>
  BY DEF Closed
<1>3. \/ adm' = [adm EXCEPT ![a] = new]
      \/ first # Null /\ adm' = [adm EXCEPT ![z].next = a, ![a] = last]
  BY DEF NewAdmin
<1> HIDE DEF new, z, last
<1>4. CASE adm' = [adm EXCEPT ![a] = new]
  <2>1. adm'[a] = new /\ \A b \in Admin \ {a} : adm'[b] = adm[b]
    BY <1>4
  <2> QED
    BY <1>1, <2>1 DEF Same
<1>5. CASE adm' = [adm EXCEPT ![z].next = a, ![a] = last]
  <2>1. /\ adm'[a] = last
        /\ \A b \in Admin \ {a} : adm'[b] = adm[b] \/ adm'[b] = [adm[b] EXCEPT !.next = a]
    BY <1>5
  <2>2. ASSUME NEW b \in Admin \ {a} PROVE Same(adm[b], adm'[b])
    <3>1. adm[b] \in Struct
      OBVIOUS
    <3>2. CASE adm'[b] = adm[b]
      BY <3>2 DEF Same
    <3>3. CASE adm'[b] = [adm[b] EXCEPT !.next = a]
      BY <3>1, <3>3 DEF Same, Struct
    <3> QED
      BY <2>1, <3>2, <3>3
  <2> QED
    BY <1>2, <2>1, <2>2
<1> QED
  BY <1>3, <1>4, <1>5

\* Who goes has its struct closed, or stays at a place that is not the last
\* one; the others keep theirs.
LEMMA DestroyIs ==
  ASSUME MonitorInv, server = "up", NEW ad \in Open, Destroy(ad)
  PROVE  /\ \A b \in Admin \ {ad} : Same(adm[b], adm'[b])
         /\ \/ server' = "up" /\ adm'[ad] = Closed /\ Open' = Open \ {ad}
            \/ server' = "hung" /\ adm[ad].list_index + 1 # Cardinality(Open)
<1> DEFINE i == adm[ad].list_index
           j == IF i > 0 THEN i - 1 ELSE 0
           z == Hop[j]
           cut == [adm EXCEPT ![z].next = adm[ad].next]
<1>1. /\ Chain /\ adm \in [Admin -> Struct] /\ Open \subseteq Admin /\ ad \in Admin
      /\ first \in Admin \cup {Null} /\ sent \in [Admin -> Seq(Octet)]
  BY DEF MonitorInv, Open
<1>2. z \in Admin
  <2>1. i \in Nat /\ i < Cardinality(Open) /\ Cardinality(Open) \in Nat
    BY <1>1, HopIs, OpenIsFinite DEF Chain
  <2>2. j \in Nat /\ j < Cardinality(Open)
    BY <2>1
  <2> HIDE DEF j
  <2> QED
    BY <1>1, <2>2, HopIs
<1>3. IF cut[z].next # Null
      THEN server' = "hung" /\ adm' = cut
      ELSE adm' = [cut EXCEPT ![ad] = Closed] /\ server' = "up"
  BY DEF Destroy
<1>4. server' = "up" => Open' = Open \ {ad}
  BY <1>1, DestroyCuts
<1> HIDE DEF i, j, z, cut
<1>5. /\ DOMAIN cut = Admin /\ cut[z] = [adm[z] EXCEPT !.next = adm[ad].next]
      /\ \A b \in Admin : b # z => cut[b] = adm[b]
  BY <1>1, <1>2 DEF cut
<1>6. ASSUME NEW b \in Admin PROVE Same(adm[b], cut[b])
  <2>1. adm[b] \in Struct
    BY <1>1
  <2>2. CASE b = z
    BY <1>5, <2>1, <2>2 DEF Same, Struct
  <2>3. CASE b # z
    BY <1>5, <2>3 DEF Same
  <2> QED
    BY <2>2, <2>3
<1>7. cut[z].next = adm[ad].next
  <2>1. adm[z] \in Struct
    BY <1>1, <1>2
  <2> QED
    BY <1>5, <2>1 DEF Struct
<1>8. CASE adm[ad].next # Null
  <2>1. server' = "hung" /\ adm' = cut
    BY <1>3, <1>7, <1>8
  <2>2. adm[ad].list_index + 1 # Cardinality(Open)
    BY <1>1, <1>8 DEF Chain
  <2> QED
    BY <1>6, <2>1, <2>2
<1>9. CASE adm[ad].next = Null
  <2>1. adm' = [cut EXCEPT ![ad] = Closed] /\ server' = "up"
    BY <1>3, <1>7, <1>9
  <2>2. adm'[ad] = Closed /\ \A b \in Admin \ {ad} : adm'[b] = cut[b]
    BY <1>1, <1>5, <2>1
  <2> QED
    BY <1>4, <1>6, <2>1, <2>2
<1> QED
  BY <1>8, <1>9

\* Who goes was the last one, or the service stops.
LEMMA DestroyDeparts ==
  ASSUME MonitorInv, MonitorInv', server = "up", NEW a \in Open, Destroy(a), torn' = torn
  PROVE  Service!Depart(a)
<1> DEFINE s == InOrderOfArrival
           logged == {b \in Admin : adm[b].state = "ADMIN_REQUEST"}
<1>1. /\ \A b \in Admin \ {a} : Same(adm[b], adm'[b])
      /\ \/ server' = "up" /\ adm'[a] = Closed /\ Open' = Open \ {a}
         \/ server' = "hung" /\ adm[a].list_index + 1 # Cardinality(Open)
      /\ asked' = [asked EXCEPT ![a] = << >>]
  BY DestroyIs DEF Destroy
<1>2. Ordered /\ a \in Admin /\ Open \subseteq Admin
  BY UpOrdered DEF Open
<1>3. CASE server' = "up" /\ adm'[a] = Closed /\ Open' = Open \ {a}
  <2>1. Ordered'
    BY <1>3, UpOrderedNext
  <2>2. \A b \in Open' : adm'[b].list_index = adm[b].list_index
    BY <1>1, <1>2, <1>3 DEF Same
  <2>3. s' = Service!Front(s) /\ Service!Last(s) = a
    BY <1>2, <1>3, <2>1, <2>2, ListCut
  <2>4. logged' = logged \ {a}
    <3>1. adm'[a].state = "CLOSED"
      BY <1>3, Fresh
    <3>2. \A b \in Admin \ {a} : adm'[b].state = adm[b].state
      BY <1>1 DEF Same
    <3> QED
      BY <3>1, <3>2
  <2> HIDE DEF s, logged
  <2> QED
    BY <1>1, <1>3, <2>3, <2>4 DEF Service!Depart, s, logged
<1>4. CASE server' = "hung" /\ adm[a].list_index + 1 # Cardinality(Open)
  <2>1. Service!Last(s) # a
    <3> DEFINE n == Cardinality(Open)
    <3>1. /\ n \in Nat /\ Len(s) = n /\ \A i \in 1..n : adm[s[i]].list_index = i - 1
          /\ adm[a].list_index + 1 \in 1..n
      BY <1>2 DEF Ordered
    <3>2. Service!Last(s) = s[n]
      BY <3>1 DEF Service!Last
    <3> HIDE DEF n, s
    <3>3. n \in 1..n /\ (n - 1) + 1 = n
      BY <3>1
    <3>4. adm[s[n]].list_index = n - 1
      BY <3>1, <3>3
    <3>5. adm[a].list_index # n - 1
      BY <1>4, <3>3 DEF n
    <3> QED
      BY <3>2, <3>4, <3>5
  <2> HIDE DEF s, logged
  <2>2. server' # "up"
    BY <1>4
  <2> QED
    BY <2>1, <2>2 DEF Service!Depart, Service!Stop, None, s
<1> QED
  BY <1>1, <1>3, <1>4

-----------------------------------------------------------------------------
(* Each action keeps ServeInv and is a step of the service, or none *)

LoggedIn == {a \in Admin : adm[a].state = "ADMIN_REQUEST"}

\* What the service shows while the server is up.
Shown ==
  /\ InOrderOfArrival' = InOrderOfArrival /\ LoggedIn' = LoggedIn
  /\ asked' = asked /\ got' = got /\ users' = users /\ buffSize' = buffSize
  /\ server' = server /\ torn' = torn

\* A step that changes none of it is none of the service.
LEMMA ShownIs == ASSUME Shown PROVE UNCHANGED Service!vars
BY DEF Shown, LoggedIn, Service!vars, None

\* A handler that changes the struct of its client and not its place keeps
\* the list; who is logged in changes only with the client's state.
LEMMA StructServes ==
  ASSUME MonitorInv, MonitorInv', server = "up", server' = "up", NEW a \in Open,
         adm[a].state # "CLOSED", adm'[a].state # "CLOSED",
         adm'[a].list_index = adm[a].list_index,
         \A b \in Admin \ {a} : adm'[b] = adm[b]
  PROVE  /\ InOrderOfArrival' = InOrderOfArrival
         /\ adm'[a].state = adm[a].state => LoggedIn' = LoggedIn
         /\ adm'[a].state = "ADMIN_REQUEST" => LoggedIn' = LoggedIn \cup {a}
<1>1. Open' = Open /\ a \in Admin /\ \A b \in Open : adm'[b].list_index = adm[b].list_index
  BY DEF Open
<1>2. InOrderOfArrival' = InOrderOfArrival
  BY <1>1, UpOrdered, UpOrderedNext, ListSame
<1>3. adm'[a].state = adm[a].state => LoggedIn' = LoggedIn
  BY DEF LoggedIn
<1>4. adm'[a].state = "ADMIN_REQUEST" => LoggedIn' = LoggedIn \cup {a}
  BY <1>1 DEF LoggedIn
<1> QED
  BY <1>2, <1>3, <1>4

\* While the server is up and nothing was torn, every client stands somewhere.
LEMMA StandsNow ==
  ASSUME MonitorInv, ServeInv, server = "up", ~ torn, NEW a \in Admin
  PROVE  /\ asked \in [Admin -> Seq(Octet)] /\ asked[a] \in Seq(Octet)
         /\ DOMAIN got = Admin /\ got = [b \in Admin |-> got[b]]
         /\ sent \in [Admin -> Seq(Octet)] /\ sent[a] \in Seq(Octet) /\ adm[a] \in Struct
         /\ asked[a] = << >> => Idle(adm[a], sent[a])
         /\ asked[a] # << >> => Waiting(adm[a], asked[a], sent[a]) /\ got[a] = << >>
<1>1. Stands(adm[a], asked[a], sent[a], got[a])
  BY DEF ServeInv
<1>2. /\ asked \in [Admin -> Seq(Octet)]
      /\ DOMAIN got = Admin /\ got = [b \in Admin |-> got[b]]
  BY DEF ServeInv
<1>3. sent \in [Admin -> Seq(Octet)] /\ adm \in [Admin -> Struct]
  BY DEF MonitorInv
<1> QED
  BY <1>1, <1>2, <1>3 DEF Stands

\* A client comes, or the selector is full.
LEMMA AcceptServes ==
  ASSUME MonitorInv, MonitorInv', ServeInv, ~ torn, NEW a \in Admin, Accept(a)
  PROVE  ServeInv' /\ (Service!Arrive(a) \/ Service!Refuse)
<1>1. server = "up" /\ a \in Admin \ Open /\ torn' = torn /\ users' = users /\ buffSize' = buffSize
  BY DEF Accept
<1>2. CASE Cardinality(Open) < visit.room
  <2>1. /\ NewAdmin(a) /\ got' = [got EXCEPT ![a] = << >>]
        /\ server' = "up" /\ sent' = sent /\ left' = left /\ asked' = asked
    BY <1>1, <1>2 DEF Accept
  <2>2. Chain /\ adm \in [Admin -> Struct] /\ first \in Admin \cup {Null} /\ torn \in BOOLEAN
    BY <1>1 DEF MonitorInv, ServeInv
  <2>3. /\ \A b \in Admin \ {a} : Same(adm[b], adm'[b])
        /\ adm'[a].state = "ADMIN_AUTH" /\ adm'[a].interest = "OP_READ"
        /\ adm'[a].auth = AuthParserInit /\ adm'[a].rb = << >> /\ adm'[a].wb = << >>
    BY <1>1, <2>1, <2>2, NewAdminIs
  <2>4. Open' = Open \cup {a}
    BY <1>1, <2>1, <2>2, NewAdminAppends
  <2>5. /\ asked \in [Admin -> Seq(Octet)] /\ DOMAIN got = Admin /\ got = [b \in Admin |-> got[b]]
        /\ asked[a] = << >> => Idle(adm[a], sent[a])
        /\ asked[a] # << >> => Waiting(adm[a], asked[a], sent[a])
    BY <1>1, StandsNow
  <2>6. asked[a] = << >> /\ sent[a] = << >>
    BY <1>1, <2>5 DEF Waiting, Idle, Open
  <2>7. Stands(adm'[a], asked'[a], sent'[a], got'[a])
    BY <2>1, <2>3, <2>6 DEF Stands, Idle
  <2>8. OthersSame(a)
    BY <2>1, <2>3, <2>5 DEF OthersSame
  <2>9. DOMAIN got' = Admin /\ got' = [b \in Admin |-> got'[b]]
    BY <2>1, <2>5
  <2>10. ServeInv'
    BY <1>1, <2>1, <2>2, <2>5, <2>7, <2>8, <2>9, OthersStand
  <2>11. InOrderOfArrival' = Append(InOrderOfArrival, a)
    <3>1. \A b \in Open : adm'[b].list_index = adm[b].list_index
      BY <1>1, <2>3 DEF Same, Open
    <3> QED
      BY <1>1, <2>1, <2>4, <3>1, UpOrdered, UpOrderedNext, ListAppend
  <2>12. LoggedIn' = LoggedIn
    <3>1. adm[a].state = "CLOSED"
      BY <1>1 DEF Open
    <3>2. \A b \in Admin \ {a} : adm'[b].state = adm[b].state
      BY <2>3 DEF Same
    <3> QED
      BY <2>3, <3>1, <3>2 DEF LoggedIn
  <2>13. ~ Service!Here(a)
    BY <1>1, HereIs
  <2>14. Service!Arrive(a)
    BY <1>1, <2>1, <2>11, <2>12, <2>13 DEF Service!Arrive, LoggedIn
  <2> QED
    BY <2>10, <2>14
<1>3. CASE ~ (Cardinality(Open) < visit.room)
  <2>1. server' = "crashed" /\ got' = got
    BY <1>3 DEF Accept, clients
  <2>2. ServeInv'
    BY <1>1, <2>1 DEF ServeInv
  <2>3. Service!Refuse
    BY <1>1, <2>1 DEF Service!Refuse, Service!Stop, None
  <2> QED
    BY <2>2, <2>3
<1> QED
  BY <1>2, <1>3

\* A client sends its next message.
LEMMA SendServes ==
  ASSUME PlainClients, MonitorInv, MonitorInv', ServeInv, NEW a \in Admin, Send(a)
  PROVE  ServeInv' /\ Service!Ask(a)
<1>1. /\ server = "up" /\ a \in Open /\ asked[a] = << >> /\ ~ torn
      /\ got' = [got EXCEPT ![a] = << >>] /\ adm' = adm /\ users' = users
      /\ buffSize' = buffSize /\ server' = "up" /\ torn' = torn /\ first' = first
  BY DEF Send
<1>2. PICK m \in IF adm[a].state = "ADMIN_AUTH" THEN visit.logins ELSE visit.commands :
         /\ sent' = [sent EXCEPT ![a] = sent[a] \o m]
         /\ asked' = [asked EXCEPT ![a] = m]
  BY <1>1, StandsNow DEF Send
<1>3. /\ asked \in [Admin -> Seq(Octet)] /\ DOMAIN got = Admin /\ got = [b \in Admin |-> got[b]]
      /\ sent \in [Admin -> Seq(Octet)] /\ adm[a] \in Struct /\ Idle(adm[a], sent[a])
  BY <1>1, StandsNow
<1>4. visit \in Visits /\ torn \in BOOLEAN
  BY DEF MonitorInv, ServeInv
<1>5. /\ m \in Seq(Octet)
      /\ adm[a].state = "ADMIN_AUTH" => PlainLogin(m)
      /\ adm[a].state # "ADMIN_AUTH" => PlainCommand(m)
  <2>1. /\ visit.logins \subseteq Seq(Octet) /\ visit.commands \subseteq Seq(Octet)
        /\ \A l \in visit.logins : PlainLogin(l)
        /\ \A l \in visit.commands : PlainCommand(l)
    BY <1>4, MonitorAssumption DEF PlainClients, Octet
  <2>2. m \in IF adm[a].state = "ADMIN_AUTH" THEN visit.logins ELSE visit.commands
    BY <1>2
  <2>3. CASE adm[a].state = "ADMIN_AUTH"
    BY <2>1, <2>2, <2>3
  <2>4. CASE adm[a].state # "ADMIN_AUTH"
    BY <2>1, <2>2, <2>4
  <2> QED
    BY <2>3, <2>4
<1>6. sent[a] = << >> /\ adm[a].rb = << >> /\ adm[a].wb = << >> /\ adm[a].interest # "OP_WRITE"
  BY <1>3 DEF Idle
<1>7. sent'[a] = m /\ asked'[a] = m /\ got'[a] = << >>
  <2>1. sent[a] \o m = m
    BY <1>5, <1>6, ConcatEmptySeq
  <2> QED
    BY <1>1, <1>2, <1>3, <2>1
<1>8. adm[a].state # "CLOSED"
  BY <1>1 DEF Open
<1>9. Stands(adm'[a], asked'[a], sent'[a], got'[a])
  <2>1. CASE m = << >>
    BY <1>1, <1>3, <1>6, <1>7, <2>1 DEF Stands
  <2>2. CASE m # << >> /\ adm[a].state = "ADMIN_AUTH"
    <3>1. adm[a].auth = AuthParserInit
      BY <1>3, <2>2 DEF Idle
    <3>2. AuthKnows(adm[a].auth, m, 0)
      <4>1. adm[a].auth \in AuthPars
        BY <1>3 DEF Struct
      <4> QED
        BY <3>1, <4>1 DEF AuthKnows, AuthParserInit
    <3>3. 0 \in 0..Len(m) /\ m = SubSeq(m, 0 + 1, Len(m))
      <4>1. Len(m) \in Nat /\ m = SubSeq(m, 1, Len(m))
        BY <1>5, LenProperties
      <4> QED
        BY <4>1
    <3>4. adm[a].auth.state \notin AuthFinal
      BY <3>1 DEF AuthParserInit, AuthFinal
    <3>5. AuthWaits(adm[a], m, m)
      BY <1>5, <1>6, <2>2, <3>2, <3>3, <3>4 DEF AuthWaits
    <3>6. Waiting(adm[a], m, m)
      BY <1>6, <1>8, <2>2, <3>5 DEF Waiting
    <3> QED
      BY <1>1, <1>7, <2>2, <3>6 DEF Stands
  <2>3. CASE m # << >> /\ adm[a].state # "ADMIN_AUTH"
    <3>1. adm[a].state = "ADMIN_REQUEST"
      BY <1>3, <1>8, <2>3 DEF Struct
    <3>2. RequestWaits(adm[a], m, m)
      BY <1>3, <1>5, <1>6, <3>1 DEF RequestWaits, Idle
    <3>3. Waiting(adm[a], m, m)
      BY <1>6, <1>8, <3>1, <3>2 DEF Waiting
    <3> QED
      BY <1>1, <1>7, <2>3, <3>3 DEF Stands
  <2> QED
    BY <2>1, <2>2, <2>3
<1>10. OthersSame(a)
  BY <1>1, <1>2, <1>3 DEF OthersSame, Same
<1>11. /\ asked' \in [Admin -> Seq(Octet)] /\ DOMAIN got' = Admin /\ got' = [b \in Admin |-> got'[b]]
  BY <1>1, <1>2, <1>3, <1>5
<1>12. ServeInv'
  BY <1>1, <1>4, <1>9, <1>10, <1>11, OthersStand
<1>13. InOrderOfArrival' = InOrderOfArrival /\ LoggedIn' = LoggedIn
  BY <1>1, <1>8, StructServes
<1>14. Service!Here(a)
  BY <1>1, HereIs
<1>15. m \in IF a \in LoggedIn THEN UNION {v.commands : v \in Visits}
             ELSE UNION {v.logins : v \in Visits}
  <2>1. a \in LoggedIn <=> adm[a].state # "ADMIN_AUTH"
    BY <1>3, <1>8 DEF LoggedIn, Struct
  <2> QED
    BY <1>2, <1>4, <2>1
<1>16. Service!Ask(a)
  BY <1>1, <1>2, <1>13, <1>14, <1>15 DEF Service!Ask, LoggedIn
<1> QED
  BY <1>12, <1>16

\* What was received of a message leaves what stands behind it.
LEMMA PartIs ==
  ASSUME NEW m \in Seq(Octet), NEW j \in 0..Len(m), NEW n \in 1..(Len(m) - j)
  PROVE  LET s == SubSeq(m, j + 1, Len(m))
         IN /\ Len(s) = Len(m) - j
            /\ Len(SubSeq(s, 1, n)) = n /\ SubSeq(s, 1, n) \in Seq(Octet)
            /\ \A i \in 1..n : SubSeq(s, 1, n)[i] = m[j + i]
            /\ SubSeq(s, n + 1, Len(s)) = SubSeq(m, j + n + 1, Len(m))
<1> DEFINE l == Len(m)
           s == SubSeq(m, j + 1, l)
           part == SubSeq(s, 1, n)
           rest == SubSeq(s, n + 1, Len(s))
           behind == SubSeq(m, j + n + 1, l)
<1>1. l \in Nat /\ j \in Nat /\ n \in Nat /\ j + n <= l /\ n >= 1
      /\ \A i \in 1..l : m[i] \in Octet
  BY LenProperties, ElementOfSeq
<1> HIDE DEF l
<1>2. s \in Seq(Octet) /\ Len(s) = l - j /\ \A i \in 1..(l - j) : s[i] = m[j + i]
  <2>1. j + 1 \in Int /\ l \in Int /\ \A i \in (j + 1)..l : m[i] \in Octet
    BY <1>1
  <2>2. /\ SubSeq(m, j + 1, l) \in Seq(Octet)
        /\ Len(SubSeq(m, j + 1, l)) = IF j + 1 <= l THEN l - (j + 1) + 1 ELSE 0
        /\ \A i \in 1..(l - (j + 1) + 1) : SubSeq(m, j + 1, l)[i] = m[(j + 1) + i - 1]
    BY <2>1, SubSeqProperties
  <2>3. l - (j + 1) + 1 = l - j /\ j + 1 <= l /\ \A i \in 1..(l - j) : (j + 1) + i - 1 = j + i
    BY <1>1
  <2> QED
    BY <2>2, <2>3
<1>3. behind \in Seq(Octet) /\ Len(behind) = l - j - n
      /\ \A i \in 1..(l - j - n) : behind[i] = m[j + n + i]
  <2> DEFINE q == j + n + 1
  <2>1. q \in Int /\ l \in Int /\ \A i \in q..l : m[i] \in Octet
    <3>1. \A i \in q..l : i \in 1..l
      BY <1>1
    <3> QED
      BY <1>1, <3>1
  <2>2. /\ l - q + 1 = l - j - n /\ (~ (q <= l) => l - j - n = 0)
        /\ \A i \in 1..(l - j - n) : q + i - 1 = j + n + i
    BY <1>1
  <2>3. behind = SubSeq(m, q, l)
    OBVIOUS
  <2> HIDE DEF q, behind
  <2>4. /\ SubSeq(m, q, l) \in Seq(Octet)
        /\ Len(SubSeq(m, q, l)) = IF q <= l THEN l - q + 1 ELSE 0
        /\ \A i \in 1..(l - q + 1) : SubSeq(m, q, l)[i] = m[q + i - 1]
    BY <2>1, SubSeqProperties
  <2> QED
    BY <2>2, <2>3, <2>4
<1> HIDE DEF s, behind
<1>4. \A i \in 1..(l - j) : s[i] \in Octet
  BY <1>2, ElementOfSeq
<1>5. part \in Seq(Octet) /\ Len(part) = n /\ \A i \in 1..n : part[i] = m[j + i]
  <2>1. 1 \in Int /\ n \in Int /\ \A i \in 1..n : s[i] \in Octet /\ s[i] = m[j + i]
    BY <1>1, <1>2, <1>4
  <2>2. /\ SubSeq(s, 1, n) \in Seq(Octet)
        /\ Len(SubSeq(s, 1, n)) = IF 1 <= n THEN n - 1 + 1 ELSE 0
        /\ \A i \in 1..(n - 1 + 1) : SubSeq(s, 1, n)[i] = s[1 + i - 1]
    BY <2>1, SubSeqProperties
  <2>3. n - 1 + 1 = n /\ \A i \in 1..n : 1 + i - 1 = i
    BY <1>1
  <2> QED
    BY <1>1, <2>1, <2>2, <2>3
<1>6. rest \in Seq(Octet) /\ Len(rest) = l - j - n
      /\ \A i \in 1..(l - j - n) : rest[i] = m[j + n + i]
  <2>1. n + 1 \in Int /\ Len(s) \in Int /\ \A i \in (n + 1)..Len(s) : s[i] \in Octet
    BY <1>1, <1>2, <1>4
  <2>2. /\ SubSeq(s, n + 1, Len(s)) \in Seq(Octet)
        /\ Len(SubSeq(s, n + 1, Len(s))) = IF n + 1 <= Len(s) THEN Len(s) - (n + 1) + 1 ELSE 0
        /\ \A i \in 1..(Len(s) - (n + 1) + 1) : SubSeq(s, n + 1, Len(s))[i] = s[(n + 1) + i - 1]
    BY <2>1, SubSeqProperties
  <2>3. /\ Len(s) - (n + 1) + 1 = l - j - n /\ (~ (n + 1 <= Len(s)) => l - j - n = 0)
        /\ \A i \in 1..(l - j - n) : /\ (n + 1) + i - 1 = n + i /\ n + i \in 1..(l - j)
                                     /\ j + (n + i) = j + n + i
    BY <1>1, <1>2
  <2> QED
    BY <1>2, <2>2, <2>3
<1>7. rest = behind
  <2>1. l - j - n \in Nat
    BY <1>1
  <2> HIDE DEF rest
  <2> QED
    BY <1>3, <1>6, <2>1, SeqEqual
<1> QED
  BY <1>2, <1>5, <1>7 DEF s, behind, l

\* The credentials are read, in whatever parts.
LEMMA AuthReadServes ==
  ASSUME MonitorInv, MonitorInv', ServeInv, ~ torn', NEW a \in Admin, AuthRead(a)
  PROVE  ServeInv' /\ Shown
<1>1. /\ adm[a].state = "ADMIN_AUTH" /\ adm[a].interest = "OP_READ"
      /\ users' = users /\ buffSize' = buffSize /\ server' = server
      /\ asked' = asked /\ got' = got
  BY DEF AuthRead
<1>2. PICK n \in 1..Len(sent[a]) : \E fed \in {AuthFed(adm[a].auth, Bytes(a, n))} :
       /\ Received(a, n)
       /\ adm' = [adm EXCEPT ![a].auth = fed.pars, ![a].rb = Rest(Bytes(a, n), fed),
                    ![a].interest = IF fed.pars.state \in AuthFinal THEN "OP_WRITE" ELSE @]
       /\ Tears(a, n)
  BY DEF AuthRead
<1> DEFINE fed == AuthFed(adm[a].auth, Bytes(a, n))
           to == IF fed.pars.state \in AuthFinal THEN "OP_WRITE" ELSE adm[a].interest
           r == [adm[a] EXCEPT !.auth = fed.pars, !.rb = Rest(Bytes(a, n), fed), !.interest = to]
           m == asked[a]
<1>3. /\ server = "up" /\ torn \in BOOLEAN
      /\ torn' = (torn \/ (adm'[a].interest = "OP_WRITE" /\ n < Len(sent[a])))
  BY <1>2 DEF Received, Tears, ServeInv
<1>4. ~ torn /\ torn' = torn
  BY <1>3
<1>5. /\ asked \in [Admin -> Seq(Octet)] /\ m \in Seq(Octet)
      /\ DOMAIN got = Admin /\ got = [b \in Admin |-> got[b]]
      /\ sent \in [Admin -> Seq(Octet)] /\ sent[a] \in Seq(Octet)
      /\ adm[a] \in Struct /\ adm \in [Admin -> Struct]
      /\ m = << >> => Idle(adm[a], sent[a])
      /\ m # << >> => Waiting(adm[a], m, sent[a]) /\ got[a] = << >>
  BY <1>3, <1>4, StandsNow DEF MonitorInv
<1>6. sent' = [sent EXCEPT ![a] = SubSeq(sent[a], n + 1, Len(sent[a]))] /\ adm' = [adm EXCEPT ![a] = r]
  BY <1>2, <1>5 DEF Received
<1>7. Len(sent[a]) \in Nat /\ Len(m) \in Nat
  BY <1>5, LenProperties
<1>8. m # << >>
  <2>1. ASSUME m = << >> PROVE FALSE
    <3>1. sent[a] = << >>
      BY <1>5, <2>1 DEF Idle
    <3> QED
      BY <3>1
  <2> QED
    BY <2>1
<1>9. PICK j \in 0..Len(m) : /\ PlainLogin(m) /\ adm[a].rb = << >> /\ adm[a].wb = << >>
                             /\ adm[a].auth.state \notin AuthFinal
                             /\ AuthKnows(adm[a].auth, m, j) /\ sent[a] = SubSeq(m, j + 1, Len(m))
  BY <1>1, <1>5, <1>8 DEF Waiting, AuthWaits
<1> DEFINE part == SubSeq(sent[a], 1, n)
<1>10. /\ Len(sent[a]) = Len(m) - j /\ n \in 1..(Len(m) - j)
       /\ part \in Seq(Octet) /\ Len(part) = n /\ \A i \in 1..n : part[i] = m[j + i]
       /\ SubSeq(sent[a], n + 1, Len(sent[a])) = SubSeq(m, j + n + 1, Len(m))
  <2> HIDE DEF m
  <2>1. /\ \A k \in 1..(Len(m) - j) :
             LET s == SubSeq(m, j + 1, Len(m))
             IN /\ Len(s) = Len(m) - j
                /\ Len(SubSeq(s, 1, k)) = k /\ SubSeq(s, 1, k) \in Seq(Octet)
                /\ \A i \in 1..k : SubSeq(s, 1, k)[i] = m[j + i]
                /\ SubSeq(s, k + 1, Len(s)) = SubSeq(m, j + k + 1, Len(m))
    BY <1>5, PartIs
  <2>2. Len(sent[a]) = Len(m) - j
    <3>1. /\ j + 1 \in Int /\ Len(m) \in Int
          /\ \A i \in (j + 1)..Len(m) : m[i] \in Octet
      BY <1>5, <1>7, ElementOfSeq
    <3>2. Len(SubSeq(m, j + 1, Len(m))) = IF j + 1 <= Len(m) THEN Len(m) - (j + 1) + 1 ELSE 0
      BY <3>1, SubSeqProperties
    <3> QED
      BY <1>7, <1>9, <3>2
  <2>3. n \in 1..(Len(m) - j)
    BY <2>2
  <2> QED
    BY <1>9, <2>1, <2>2, <2>3
<1>11. Bytes(a, n) = part
  BY <1>9, <1>10, ConcatEmptySeq DEF Bytes
<1> HIDE DEF part, m
<1>12. /\ AuthKnows(fed.pars, m, j + fed.taken) /\ fed.taken \in 0..n
       /\ fed.pars.state \notin AuthFinal => fed.taken = n
  <2>1. Len(part) \in Nat /\ j \in Nat /\ j + Len(part) <= Len(m)
        /\ \A i \in 1..Len(part) : part[i] = m[j + i]
    BY <1>7, <1>10
  <2>2. /\ AuthKnows(AuthFed(adm[a].auth, part).pars, m, j + AuthFed(adm[a].auth, part).taken)
        /\ AuthFed(adm[a].auth, part).taken \in 0..Len(part)
        /\ AuthFed(adm[a].auth, part).pars.state \notin AuthFinal =>
             AuthFed(adm[a].auth, part).taken = Len(part)
    <3>1. m \in Seq(Octet)
      BY <1>5 DEF m
    <3>2. AuthKnows(adm[a].auth, m, j) /\ adm[a].auth.state \notin AuthFinal
      BY <1>9 DEF m
    <3> DEFINE p == adm[a].auth
    <3> HIDE DEF p
    <3>3. AuthKnows(p, m, j) /\ p.state \notin AuthFinal
      BY <3>2 DEF p
    <3>4. /\ AuthKnows(AuthFed(p, part).pars, m, j + AuthFed(p, part).taken)
          /\ AuthFed(p, part).taken \in 0..Len(part)
          /\ AuthFed(p, part).pars.state \notin AuthFinal => AuthFed(p, part).taken = Len(part)
      BY <2>1, <3>1, <3>3, AuthFedKnows
    <3> QED
      BY <3>4 DEF p
  <2> QED
    BY <1>10, <1>11, <2>2
<1>13. fed.pars \in AuthPars
  BY <1>12 DEF AuthKnows
<1> HIDE DEF fed
<1>14. /\ r.state = "ADMIN_AUTH" /\ r.interest = to /\ r.auth = fed.pars /\ r.wb = << >>
       /\ r.rb = Rest(part, fed) /\ r.list_index = adm[a].list_index
  BY <1>1, <1>5, <1>9, <1>11 DEF Struct
<1> HIDE DEF r
<1>15. adm'[a] = r /\ \A b \in Admin \ {a} : adm'[b] = adm[b]
  BY <1>5, <1>6
<1>16. sent'[a] = SubSeq(m, j + n + 1, Len(m))
  BY <1>5, <1>6, <1>10
<1>17. AuthWaits(r, m, sent'[a])
  <2>1. CASE fed.pars.state \in AuthFinal
    <3>1. r.interest = "OP_WRITE"
      BY <1>14, <2>1
    <3>2. n = Len(sent[a])
      BY <1>3, <1>4, <1>7, <1>15, <3>1
    <3>3. j + n + 1 > Len(m) /\ j + n + 1 \in Int /\ Len(m) \in Int
      BY <1>7, <1>10, <3>2
    <3>4. sent'[a] = << >>
      BY <1>16, <3>3, SubSeqEmpty
    <3>5. j + fed.taken \in 0..Len(m)
      BY <1>7, <1>10, <1>12
    <3> QED
      BY <1>9, <1>12, <1>14, <2>1, <3>1, <3>4, <3>5 DEF AuthWaits
  <2>2. CASE fed.pars.state \notin AuthFinal
    <3>1. r.interest = "OP_READ"
      BY <1>1, <1>14, <2>2
    <3>2. fed.taken = n
      BY <1>12, <2>2
    <3>3. r.rb = << >>
      <4>1. n + 1 > n /\ n + 1 \in Int /\ n \in Int
        BY <1>7
      <4> QED
        BY <1>10, <1>14, <3>2, <4>1, SubSeqEmpty DEF Rest
    <3>4. j + n \in 0..Len(m)
      <4>1. \A l \in Nat : \A k \in 0..l : \A i \in 1..(l - k) : k + i \in 0..l
        OBVIOUS
      <4>2. Len(m) \in Nat /\ j \in 0..Len(m) /\ n \in 1..(Len(m) - j)
        BY <1>7, <1>10
      <4> QED
        BY <4>1, <4>2
    <3>5. AuthKnows(fed.pars, m, j + n)
      BY <1>12, <3>2
    <3> QED
      BY <1>9, <1>14, <1>16, <2>2, <3>1, <3>3, <3>4, <3>5 DEF AuthWaits
  <2> QED
    BY <2>1, <2>2
<1>18. Stands(adm'[a], asked'[a], sent'[a], got'[a])
  <2>1. Waiting(r, m, sent'[a]) /\ got'[a] = << >>
    BY <1>1, <1>5, <1>8, <1>14, <1>17 DEF Waiting
  <2> QED
    BY <1>1, <1>8, <1>15, <2>1 DEF Stands, m
<1>19. OthersSame(a)
  BY <1>1, <1>5, <1>6, <1>15 DEF OthersSame, Same
<1>20. ServeInv'
  BY <1>1, <1>3, <1>4, <1>5, <1>18, <1>19, OthersStand
<1>21. InOrderOfArrival' = InOrderOfArrival /\ LoggedIn' = LoggedIn
  <2>1. a \in Open
    BY <1>1 DEF Open
  <2>2. /\ adm[a].state # "CLOSED" /\ adm'[a].state # "CLOSED" /\ adm'[a].state = adm[a].state
        /\ adm'[a].list_index = adm[a].list_index
    BY <1>1, <1>14, <1>15
  <2> QED
    BY <1>1, <1>3, <1>15, <2>1, <2>2, StructServes
<1> QED
  BY <1>1, <1>4, <1>20, <1>21 DEF Shown

\* Who goes leaves the others where they stand.
LEMMA GoneServes ==
  ASSUME MonitorInv, ServeInv, server = "up", ~ torn, torn' = torn, NEW a \in Open, Destroy(a),
         NEW g, got' = [got EXCEPT ![a] = g]
  PROVE  ServeInv'
<1>1. /\ \A b \in Admin \ {a} : Same(adm[b], adm'[b])
      /\ \/ server' = "up" /\ adm'[a] = Closed
         \/ server' = "hung"
      /\ sent' = [sent EXCEPT ![a] = << >>] /\ asked' = [asked EXCEPT ![a] = << >>]
  BY DestroyIs DEF Destroy
<1>2. a \in Admin /\ torn \in BOOLEAN
  BY DEF Open, ServeInv
<1>3. CASE server' = "hung"
  BY <1>2, <1>3 DEF ServeInv
<1>4. CASE adm'[a] = Closed
  <2>1. /\ asked \in [Admin -> Seq(Octet)] /\ DOMAIN got = Admin /\ got = [b \in Admin |-> got[b]]
        /\ sent \in [Admin -> Seq(Octet)]
    BY <1>2, StandsNow
  <2>2. sent'[a] = << >> /\ asked'[a] = << >>
    BY <1>1, <1>2, <2>1
  <2>3. /\ asked' \in [Admin -> Seq(Octet)] /\ DOMAIN got' = Admin
        /\ got' = [b \in Admin |-> got'[b]]
    BY <1>1, <2>1, EmptySeq
  <2>4. OthersSame(a)
    BY <1>1, <2>1 DEF OthersSame
  <2>5. Stands(adm'[a], asked'[a], sent'[a], got'[a])
    <3>1. /\ Closed.state = "CLOSED" /\ Closed.interest = "none"
          /\ Closed.rb = << >> /\ Closed.wb = << >>
      BY DEF Closed
    <3> QED
      BY <1>4, <2>2, <3>1 DEF Stands, Idle
  <2> QED
    BY <1>2, <2>3, <2>4, <2>5, OthersStand
<1> QED
  BY <1>1, <1>3, <1>4

\* The verdict on the credentials is sent.
LEMMA AuthWriteServes ==
  ASSUME MonitorInv, MonitorInv', ServeInv, ~ torn, NEW a \in Admin, AuthWrite(a)
  PROVE  ServeInv' /\ (Service!LetIn(a) \/ Service!TurnAway(a))
<1> DEFINE m == asked[a]
<1>1. /\ server = "up" /\ adm[a].state = "ADMIN_AUTH" /\ adm[a].interest = "OP_WRITE"
      /\ got' = [got EXCEPT ![a] = Append(got[a], Says(AuthRet(adm[a].auth)))]
      /\ users' = users /\ buffSize' = buffSize /\ torn' = torn /\ torn \in BOOLEAN
  BY DEF AuthWrite, ServeInv
<1>2. /\ asked \in [Admin -> Seq(Octet)] /\ m \in Seq(Octet)
      /\ DOMAIN got = Admin /\ got = [b \in Admin |-> got[b]]
      /\ adm[a] \in Struct /\ adm \in [Admin -> Struct]
      /\ m = << >> => Idle(adm[a], sent[a])
      /\ m # << >> => Waiting(adm[a], m, sent[a]) /\ got[a] = << >>
  BY <1>1, StandsNow DEF MonitorInv
<1>3. m # << >> /\ a \in Open
  BY <1>1, <1>2 DEF Idle, Open
<1>4. PICK j \in 0..Len(m) : /\ PlainLogin(m) /\ sent[a] = << >> /\ adm[a].wb = << >>
                             /\ adm[a].auth.state \in AuthFinal
                             /\ AuthKnows(adm[a].auth, m, j)
  BY <1>1, <1>2, <1>3 DEF Waiting, AuthWaits
<1>5. Says(AuthRet(adm[a].auth)) = Service!Verdict(m)
  BY <1>2, <1>4, AuthVerdict
<1>6. got' = [got EXCEPT ![a] = <<Service!Verdict(m)>>]
  <2>1. Append(got[a], Says(AuthRet(adm[a].auth))) = <<Service!Verdict(m)>>
    BY <1>2, <1>3, <1>5
  <2> QED
    BY <1>1, <2>1
<1>7. Service!Here(a) /\ a \notin LoggedIn
  BY <1>1, <1>3, HereIs DEF LoggedIn
<1> HIDE DEF m
<1>8. CASE AuthRet(adm[a].auth) = "success"
  <2> DEFINE req == RequestParserInit(adm[a].req.cmd_selected)
             r == [adm[a] EXCEPT !.state = "ADMIN_REQUEST", !.interest = "OP_READ",
                                 !.rb = << >>, !.req = req]
  <2>1. /\ adm' = [adm EXCEPT ![a] = r] /\ asked' = [asked EXCEPT ![a] = << >>]
        /\ server' = "up" /\ sent' = sent
    BY <1>1, <1>2, <1>8 DEF AuthWrite
  <2>2. adm[a].req.cmd_selected \in Octet
    BY <1>2 DEF Struct, RequestPars
  <2>3. /\ r.state = "ADMIN_REQUEST" /\ r.interest = "OP_READ" /\ r.rb = << >> /\ r.wb = << >>
        /\ r.list_index = adm[a].list_index /\ \E c \in Octet : r.req = RequestParserInit(c)
    BY <1>2, <1>4, <2>2 DEF Struct
  <2> HIDE DEF r
  <2>4. adm'[a] = r /\ \A b \in Admin \ {a} : adm'[b] = adm[b]
    BY <1>2, <2>1
  <2>5. Stands(adm'[a], asked'[a], sent'[a], got'[a])
    <3>1. asked'[a] = << >> /\ sent'[a] = << >>
      BY <1>2, <1>4, <2>1
    <3> QED
      BY <2>3, <2>4, <3>1 DEF Stands, Idle
  <2>6. OthersSame(a)
    BY <1>1, <1>2, <2>1, <2>4 DEF OthersSame, Same
  <2>7. /\ asked' \in [Admin -> Seq(Octet)] /\ DOMAIN got' = Admin
        /\ got' = [b \in Admin |-> got'[b]]
    BY <1>2, <1>6, <2>1, EmptySeq
  <2>8. ServeInv'
    BY <1>1, <2>5, <2>6, <2>7, OthersStand
  <2>9. InOrderOfArrival' = InOrderOfArrival /\ LoggedIn' = LoggedIn \cup {a}
    <3>1. /\ adm[a].state # "CLOSED" /\ adm'[a].state # "CLOSED" /\ adm'[a].state = "ADMIN_REQUEST"
          /\ adm'[a].list_index = adm[a].list_index
      BY <1>1, <2>3, <2>4
    <3> QED
      BY <1>1, <1>3, <2>1, <2>4, <3>1, StructServes
  <2>10. Service!Verdict(m) = Service!Says("success")
    BY <1>5, <1>8 DEF Says, Service!Says
  <2>11. Service!LetIn(a)
    BY <1>1, <1>3, <1>6, <1>7, <2>1, <2>9, <2>10 DEF Service!LetIn, LoggedIn, m
  <2> QED
    BY <2>8, <2>11
<1>9. CASE AuthRet(adm[a].auth) # "success"
  <2>1. Destroy(a)
    BY <1>9 DEF AuthWrite
  <2>2. Service!Depart(a)
    BY <1>1, <1>3, <2>1, DestroyDeparts
  <2>3. ServeInv'
    BY <1>1, <1>3, <1>6, <2>1, GoneServes
  <2>4. Service!Verdict(m) # Service!Says("success")
    <3>1. Says(AuthRet(adm[a].auth)).text = AuthRet(adm[a].auth)
          /\ Service!Says("success").text = "success"
      BY DEF Says, Service!Says
    <3> QED
      BY <1>5, <1>9, <3>1
  <2>5. Service!TurnAway(a)
    BY <1>1, <1>3, <1>6, <1>7, <2>2, <2>4 DEF Service!TurnAway, LoggedIn, m
  <2> QED
    BY <2>3, <2>5
<1> QED
  BY <1>8, <1>9

\* A command is read; what is answered before all of it was read is torn.
LEMMA RequestReadServes ==
  ASSUME MonitorInv, MonitorInv', ServeInv, ~ torn', NEW a \in Admin, RequestRead(a)
  PROVE  ServeInv' /\ Shown
<1>1. /\ adm[a].state = "ADMIN_REQUEST" /\ adm[a].interest = "OP_READ"
      /\ users' = users /\ buffSize' = buffSize /\ server' = server
      /\ asked' = asked /\ got' = got
  BY DEF RequestRead
<1>2. PICK n \in 1..Len(sent[a]) : \E fed \in {RequestFed(adm[a].req, Bytes(a, n))} :
       /\ Received(a, n)
       /\ adm' = [adm EXCEPT ![a].req = fed.pars, ![a].rb = Rest(Bytes(a, n), fed),
                             ![a].interest = "OP_WRITE"]
       /\ Tears(a, n)
  BY DEF RequestRead
<1> DEFINE fed == RequestFed(adm[a].req, Bytes(a, n))
           r == [adm[a] EXCEPT !.req = fed.pars, !.rb = Rest(Bytes(a, n), fed),
                               !.interest = "OP_WRITE"]
           m == asked[a]
<1>3. /\ server = "up" /\ torn \in BOOLEAN
      /\ torn' = (torn \/ (adm'[a].interest = "OP_WRITE" /\ n < Len(sent[a])))
  BY <1>2 DEF Received, Tears, ServeInv
<1>4. ~ torn /\ torn' = torn
  BY <1>3
<1>5. /\ asked \in [Admin -> Seq(Octet)] /\ m \in Seq(Octet)
      /\ DOMAIN got = Admin /\ got = [b \in Admin |-> got[b]]
      /\ sent \in [Admin -> Seq(Octet)] /\ sent[a] \in Seq(Octet)
      /\ adm[a] \in Struct /\ adm \in [Admin -> Struct]
      /\ m = << >> => Idle(adm[a], sent[a])
      /\ m # << >> => Waiting(adm[a], m, sent[a]) /\ got[a] = << >>
  BY <1>3, <1>4, StandsNow DEF MonitorInv
<1>6. sent' = [sent EXCEPT ![a] = SubSeq(sent[a], n + 1, Len(sent[a]))] /\ adm' = [adm EXCEPT ![a] = r]
  BY <1>2, <1>5 DEF Received
<1>7. Len(sent[a]) \in Nat /\ Len(m) \in Nat
  BY <1>5, LenProperties
<1>8. m # << >>
  <2>1. ASSUME m = << >> PROVE FALSE
    <3>1. sent[a] = << >>
      BY <1>5, <2>1 DEF Idle
    <3> QED
      BY <3>1
  <2> QED
    BY <2>1
<1>9. /\ PlainCommand(m) /\ adm[a].rb = << >> /\ adm[a].wb = << >> /\ sent[a] = m
      /\ \E c \in Octet : adm[a].req = RequestParserInit(c)
  BY <1>1, <1>5, <1>8 DEF Waiting, RequestWaits
<1>10. PICK c \in Octet : adm[a].req = RequestParserInit(c)
  BY <1>9
<1>11. adm'[a] = r /\ \A b \in Admin \ {a} : adm'[b] = adm[b]
  BY <1>5, <1>6
<1>12. r.interest = "OP_WRITE" /\ r.state = "ADMIN_REQUEST" /\ r.req = fed.pars /\ r.wb = << >>
       /\ r.rb = Rest(Bytes(a, n), fed) /\ r.list_index = adm[a].list_index
  <2> HIDE DEF fed
  <2> QED
    BY <1>1, <1>5, <1>9 DEF Struct
<1> HIDE DEF r, m, fed
<1>13. n = Len(m)
  BY <1>3, <1>4, <1>7, <1>9, <1>11, <1>12
<1>14. Bytes(a, n) = m
  <2>1. m \in Seq(Octet)
    BY <1>5 DEF m
  <2>2. SubSeq(m, 1, Len(m)) = m /\ << >> \o m = m
    BY <2>1, LenProperties, ConcatEmptySeq
  <2> QED
    BY <1>9, <1>13, <2>2 DEF Bytes
<1>15. /\ RequestKnows(fed.pars, m, Len(m)) /\ fed.taken = Len(m)
       /\ fed.pars.state \in {"done", "invalid_cmd"}
  <2>1. m \in Seq(Octet)
    BY <1>5 DEF m
  <2> QED
    BY <1>9, <1>10, <1>14, <2>1, RequestFedKnows DEF fed
<1>16. r.rb = << >> /\ sent'[a] = << >>
  <2>1. Len(m) + 1 \in Int /\ Len(m) \in Int /\ Len(m) < Len(m) + 1
    BY <1>7
  <2>2. SubSeq(m, Len(m) + 1, Len(m)) = << >>
    BY <2>1, SubSeqEmpty
  <2> QED
    BY <1>5, <1>6, <1>9, <1>12, <1>13, <1>14, <1>15, <2>2 DEF Rest
<1>17. Stands(adm'[a], asked'[a], sent'[a], got'[a])
  <2>1. RequestWaits(r, m, << >>)
    BY <1>9, <1>12, <1>15, <1>16 DEF RequestWaits
  <2>2. Waiting(r, m, << >>) /\ got'[a] = << >>
    BY <1>1, <1>5, <1>8, <1>12, <2>1 DEF Waiting
  <2> QED
    BY <1>1, <1>8, <1>11, <1>16, <2>2 DEF Stands, m
<1>18. OthersSame(a)
  BY <1>1, <1>5, <1>6, <1>11 DEF OthersSame, Same
<1>19. ServeInv'
  BY <1>1, <1>3, <1>4, <1>5, <1>17, <1>18, OthersStand
<1>20. InOrderOfArrival' = InOrderOfArrival /\ LoggedIn' = LoggedIn
  <2>1. a \in Open
    BY <1>1 DEF Open
  <2>2. /\ adm[a].state # "CLOSED" /\ adm'[a].state # "CLOSED" /\ adm'[a].state = adm[a].state
        /\ adm'[a].list_index = adm[a].list_index
    BY <1>1, <1>11, <1>12
  <2> QED
    BY <1>1, <1>3, <1>11, <2>1, <2>2, StructServes
<1> QED
  BY <1>1, <1>4, <1>19, <1>20 DEF Shown

\* A command that awaits its answer has one outcome, that of the service.
LEMMA CommandIs ==
  ASSUME MonitorInv, ServeInv, server = "up", ~ torn, NEW a \in Admin,
         adm[a].state = "ADMIN_REQUEST", adm[a].interest = "OP_WRITE",
         NEW o \in Outcomes(adm[a].req)
  PROVE  /\ asked[a] # << >> /\ got[a] = << >> /\ sent[a] = << >>
         /\ adm[a].rb = << >> /\ adm[a].wb = << >>
         /\ o.answer = Service!Answer(asked[a]) /\ o.users = Service!UsersAfter(asked[a])
         /\ o.size = Service!SizeAfter(asked[a])
<1> DEFINE m == asked[a]
<1>1. /\ m \in Seq(Octet)
      /\ m = << >> => Idle(adm[a], sent[a])
      /\ m # << >> => Waiting(adm[a], m, sent[a]) /\ got[a] = << >>
  BY StandsNow
<1>2. m # << >>
  BY <1>1 DEF Idle
<1>3. /\ PlainCommand(m) /\ adm[a].rb = << >> /\ adm[a].wb = << >> /\ sent[a] = << >>
      /\ adm[a].req.state \in {"done", "invalid_cmd"} /\ RequestKnows(adm[a].req, m, Len(m))
  BY <1>1, <1>2 DEF Waiting, RequestWaits
<1>4. users \in Table
  BY DEF MonitorInv
<1> HIDE DEF m
<1>5. Outcomes(adm[a].req) = {Outcome(Service!Answer(m), Service!UsersAfter(m), Service!SizeAfter(m))}
  <2>1. m \in Seq(Octet)
    BY <1>1 DEF m
  <2> QED
    BY <1>3, <1>4, <2>1, CommandVerdict
<1>6. o = Outcome(Service!Answer(m), Service!UsersAfter(m), Service!SizeAfter(m))
  BY <1>5
<1> HIDE DEF m
<1>7. /\ o.answer = Service!Answer(m) /\ o.users = Service!UsersAfter(m)
      /\ o.size = Service!SizeAfter(m)
  BY <1>6 DEF Outcome
<1> QED
  BY <1>1, <1>2, <1>3, <1>7 DEF m

\* A command is carried out and answered.
LEMMA RequestWriteServes ==
  ASSUME MonitorInv, MonitorInv', ServeInv, ~ torn, NEW a \in Admin, RequestWrite(a)
  PROVE  ServeInv' /\ Service!CarryOut(a)
<1> DEFINE anew == RequestParserInit(adm[a].req.cmd_selected)
           r == [adm[a] EXCEPT !.req = anew, !.wb = << >>, !.interest = "OP_READ"]
<1>1. /\ server = "up" /\ adm[a].state = "ADMIN_REQUEST" /\ adm[a].interest = "OP_WRITE"
      /\ asked' = [asked EXCEPT ![a] = << >>]
      /\ server' = "up" /\ sent' = sent /\ torn' = torn /\ torn \in BOOLEAN
  BY DEF RequestWrite, Writes, ServeInv
<1>2. /\ asked \in [Admin -> Seq(Octet)]
      /\ DOMAIN got = Admin /\ got = [b \in Admin |-> got[b]]
      /\ adm[a] \in Struct /\ adm \in [Admin -> Struct] /\ a \in Open
  BY <1>1, StandsNow DEF MonitorInv, Open
<1>3. PICK o \in Outcomes(adm[a].req) :
        /\ users' = o.users /\ buffSize' = o.size
        /\ got' = [got EXCEPT ![a] = got[a] \o Filled(a, o)]
        /\ adm' = [adm EXCEPT ![a] = r]
  BY <1>2 DEF RequestWrite, Anew
<1>4. /\ asked[a] # << >> /\ got[a] = << >> /\ sent[a] = << >>
      /\ adm[a].rb = << >> /\ adm[a].wb = << >>
      /\ o.answer = Service!Answer(asked[a]) /\ o.users = Service!UsersAfter(asked[a])
      /\ o.size = Service!SizeAfter(asked[a])
  BY <1>1, CommandIs
<1>5. got' = [got EXCEPT ![a] = <<Service!Answer(asked[a])>>]
  <2>1. Filled(a, o) = <<Service!Answer(asked[a])>>
    BY <1>4 DEF Filled
  <2>2. got[a] \o Filled(a, o) = <<Service!Answer(asked[a])>>
    BY <1>4, <2>1
  <2> QED
    BY <1>3, <2>2
<1>6. adm[a].req.cmd_selected \in Octet
  BY <1>2 DEF Struct, RequestPars
<1>7. /\ r.state = "ADMIN_REQUEST" /\ r.interest = "OP_READ" /\ r.rb = << >> /\ r.wb = << >>
      /\ r.list_index = adm[a].list_index /\ \E c \in Octet : r.req = RequestParserInit(c)
  BY <1>1, <1>2, <1>4, <1>6 DEF Struct
<1> HIDE DEF r
<1>8. adm'[a] = r /\ \A b \in Admin \ {a} : adm'[b] = adm[b]
  BY <1>2, <1>3
<1>9. Stands(adm'[a], asked'[a], sent'[a], got'[a])
  <2>1. asked'[a] = << >> /\ sent'[a] = << >>
    BY <1>1, <1>2, <1>4
  <2> QED
    BY <1>7, <1>8, <2>1 DEF Stands, Idle
<1>10. OthersSame(a)
  BY <1>1, <1>2, <1>5, <1>8 DEF OthersSame, Same
<1>11. /\ asked' \in [Admin -> Seq(Octet)] /\ DOMAIN got' = Admin
       /\ got' = [b \in Admin |-> got'[b]]
  BY <1>1, <1>2, <1>5, EmptySeq
<1>12. ServeInv'
  BY <1>1, <1>9, <1>10, <1>11, OthersStand
<1>13. InOrderOfArrival' = InOrderOfArrival /\ LoggedIn' = LoggedIn
  <2>1. /\ adm[a].state # "CLOSED" /\ adm'[a].state # "CLOSED" /\ adm'[a].state = adm[a].state
        /\ adm'[a].list_index = adm[a].list_index
    BY <1>1, <1>7, <1>8
  <2> QED
    BY <1>1, <1>2, <1>8, <2>1, StructServes
<1>14. Service!Here(a) /\ a \in LoggedIn
  BY <1>1, <1>2, HereIs DEF LoggedIn
<1>15. Service!CarryOut(a)
  BY <1>1, <1>3, <1>4, <1>5, <1>13, <1>14 DEF Service!CarryOut, LoggedIn
<1> QED
  BY <1>12, <1>15

\* A client has left, perhaps before the answer to its last command.
LEMMA EndsServe ==
  ASSUME MonitorInv, MonitorInv', ServeInv, ~ torn, NEW a \in Admin,
         ReadEnds(a) \/ WriteFails(a)
  PROVE  ServeInv' /\ Service!Leave(a)
<1>1. /\ server = "up" /\ adm[a].interest # "none" /\ Destroy(a) /\ torn' = torn
      /\ got' = [got EXCEPT ![a] = << >>]
  BY DEF ReadEnds, WriteFails
<1>2. a \in Open /\ adm[a] \in Struct /\ adm[a].state # "CLOSED"
  BY <1>1, Serves
<1>3. Service!Depart(a) /\ Service!Here(a)
  BY <1>1, <1>2, DestroyDeparts, HereIs
<1>4. ServeInv'
  BY <1>1, <1>2, GoneServes
<1>5. \/ users' = users /\ buffSize' = buffSize
      \/ /\ a \in LoggedIn /\ asked[a] # << >>
         /\ users' = Service!UsersAfter(asked[a]) /\ buffSize' = Service!SizeAfter(asked[a])
  <2>1. CASE ReadEnds(a)
    BY <2>1 DEF ReadEnds
  <2>2. CASE WriteFails(a) /\ adm[a].state = "ADMIN_AUTH"
    BY <2>2 DEF WriteFails
  <2>3. CASE WriteFails(a) /\ adm[a].state # "ADMIN_AUTH"
    <3>1. adm[a].state = "ADMIN_REQUEST" /\ adm[a].interest = "OP_WRITE"
      BY <1>2, <2>3 DEF WriteFails, Struct
    <3>2. PICK o \in Outcomes(adm[a].req) : users' = o.users /\ buffSize' = o.size
      BY <2>3 DEF WriteFails
    <3>3. /\ asked[a] # << >> /\ o.users = Service!UsersAfter(asked[a])
          /\ o.size = Service!SizeAfter(asked[a])
      BY <1>1, <3>1, CommandIs
    <3> QED
      BY <3>1, <3>2, <3>3 DEF LoggedIn
  <2> QED
    BY <2>1, <2>2, <2>3
<1>6. Service!Leave(a)
  BY <1>1, <1>3, <1>5 DEF Service!Leave, LoggedIn
<1> QED
  BY <1>4, <1>6

\* What was torn stays torn.
LEMMA TornStays ==
  ASSUME torn \in BOOLEAN, Next
  PROVE  torn' \in BOOLEAN /\ (torn => torn')
<1> DEFINE Stays == torn' \in BOOLEAN /\ (torn => torn')
<1>1. PICK a \in Admin : Accept(a) \/ Send(a) \/ Leaves(a) \/ Reads(a) \/ Write(a)
  BY DEF Next
<1>2. Accept(a) \/ Send(a) \/ Leaves(a) => Stays
  BY DEF Accept, Send, Leaves
<1>3. AuthRead(a) \/ RequestRead(a) => Stays
  <2>1. AuthRead(a) \/ RequestRead(a) => \E n \in 1..Len(sent[a]) : Tears(a, n)
    BY DEF AuthRead, RequestRead
  <2>2. \A n : Tears(a, n) => Stays
    BY DEF Tears
  <2> HIDE DEF Stays
  <2> QED
    BY <2>1, <2>2
<1>4. \/ ReadEnds(a) \/ WriteFails(a) \/ WriteKills(a)
      \/ AuthWrite(a) \/ RequestWrite(a) \/ RequestWriteCrashes(a)
      => Stays
  BY DEF ReadEnds, WriteFails, WriteKills, AuthWrite, RequestWrite, RequestWriteCrashes
<1>5. RequestWritePart(a) => Stays
  BY DEF RequestWritePart
<1> HIDE DEF Stays
<1>6. Stays
  BY <1>1, <1>2, <1>3, <1>4, <1>5 DEF Reads, Write
<1> QED
  BY <1>6 DEF Stays

\* Each step of the server is one of the service or none, and leaves every
\* client where it should stand.
LEMMA NextServes ==
  ASSUME PlainClients, MonitorInv, MonitorInv', ServeInv, [Next]_vars
  PROVE  ServeInv' /\ [Service!Next]_(Service!vars)
<1>1. CASE UNCHANGED vars
  <2>1. /\ adm' = adm /\ first' = first /\ users' = users /\ buffSize' = buffSize
        /\ server' = server /\ sent' = sent /\ asked' = asked /\ got' = got /\ torn' = torn
    BY <1>1 DEF vars
  <2>2. ServeInv'
    BY <2>1 DEF ServeInv
  <2>3. InOrderOfArrival' = InOrderOfArrival
    BY <2>1 DEF InOrderOfArrival, Open, Hop
  <2>4. UNCHANGED Service!vars
    BY <2>1, <2>3 DEF Service!vars, None
  <2> QED
    BY <2>2, <2>4
<1>2. CASE torn'
  <2>1. Service!Tear
    BY <1>2 DEF Service!Tear
  <2>2. torn' \in BOOLEAN
    BY <1>1, TornStays DEF ServeInv, vars
  <2> QED
    BY <1>2, <2>1, <2>2 DEF ServeInv, Service!Next
<1>3. CASE ~ torn' /\ Next
  <2>1. ~ torn /\ torn \in BOOLEAN
    BY <1>3, TornStays DEF ServeInv
  <2>2. PICK a \in Admin : Accept(a) \/ Send(a) \/ Leaves(a) \/ Reads(a) \/ Write(a)
    BY <1>3 DEF Next
  <2>3. CASE Accept(a)
    BY <2>1, <2>3, AcceptServes DEF Service!Next
  <2>4. CASE Send(a)
    BY <2>4, SendServes DEF Service!Next
  <2>5. CASE Leaves(a)
    <3>1. /\ adm' = adm /\ first' = first /\ users' = users /\ buffSize' = buffSize
          /\ server' = server /\ sent' = sent /\ asked' = asked /\ got' = got /\ torn' = torn
          /\ server = "up"
      BY <2>5 DEF Leaves
    <3>2. ServeInv'
      BY <3>1 DEF ServeInv
    <3>3. InOrderOfArrival' = InOrderOfArrival
      BY <3>1 DEF InOrderOfArrival, Open, Hop
    <3>4. UNCHANGED Service!vars
      BY <3>1, <3>3 DEF Service!vars, None
    <3> QED
      BY <3>2, <3>4
  <2>6. CASE AuthRead(a) \/ RequestRead(a)
    <3>1. ServeInv' /\ Shown
      BY <1>3, <2>6, AuthReadServes, RequestReadServes
    <3> QED
      BY <3>1, ShownIs
  <2>7. CASE ReadEnds(a) \/ WriteFails(a)
    BY <2>1, <2>7, EndsServe DEF Service!Next
  <2>8. CASE AuthWrite(a)
    BY <2>1, <2>8, AuthWriteServes DEF Service!Next
  <2>9. CASE RequestWrite(a)
    BY <2>1, <2>9, RequestWriteServes DEF Service!Next
  <2>10. CASE RequestWritePart(a)
    <3>1. torn' = TRUE
      BY <2>10 DEF RequestWritePart
    <3> QED
      BY <1>3, <3>1
  <2>11. CASE RequestWriteCrashes(a) \/ WriteKills(a)
    <3>1. /\ server = "up" /\ server' = "crashed" /\ users' = users /\ buffSize' = buffSize
          /\ got' = got /\ torn' = torn
      BY <2>11 DEF RequestWriteCrashes, WriteKills, Writes, clients
    <3>2. ServeInv'
      BY <2>1, <3>1 DEF ServeInv
    <3>3. Service!Refuse
      BY <3>1 DEF Service!Refuse, Service!Stop, None
    <3> QED
      BY <3>2, <3>3 DEF Service!Next
  <2> QED
    BY <2>2, <2>3, <2>4, <2>5, <2>6, <2>7, <2>8, <2>9, <2>10, <2>11 DEF Reads, Write
<1> QED
  BY <1>1, <1>2, <1>3

\* The server does what MonitorService promises, until a message or an answer
\* is torn: for any number of clients that come and go in any order, and
\* whatever messages they send, whole or in parts, if they are messages like
\* those of src/client/client.c.
THEOREM ServiceRefinedCorrect == PlainClients => (Spec => ServiceRefined)
<1> SUFFICES ASSUME PlainClients PROVE Spec => ServiceRefined
  OBVIOUS
<1>1. Init => ServeInv /\ Service!Init
  <2> SUFFICES ASSUME Init PROVE ServeInv /\ Service!Init
    OBVIOUS
  <2>1. /\ first = Null /\ adm = [a \in Admin |-> Closed]
        /\ users = InitialUsers /\ buffSize = InitialSize /\ server = "up"
        /\ sent = [a \in Admin |-> << >>] /\ asked = [a \in Admin |-> << >>]
        /\ got = [a \in Admin |-> << >>] /\ torn = FALSE
    BY DEF Init
  <2>2. /\ Closed.state = "CLOSED" /\ Closed.interest = "none"
        /\ Closed.rb = << >> /\ Closed.wb = << >>
    BY DEF Closed
  <2>3. ServeInv
    <3>1. \A a \in Admin : Stands(adm[a], asked[a], sent[a], got[a])
      BY <2>1, <2>2 DEF Stands, Idle
    <3>2. asked \in [Admin -> Seq(Octet)] /\ DOMAIN got = Admin /\ got = [a \in Admin |-> got[a]]
      BY <2>1, EmptySeq
    <3> QED
      BY <2>1, <3>1, <3>2 DEF ServeInv
  <2>4. InOrderOfArrival = << >>
    <3>1. Open = {}
      BY <2>1, <2>2 DEF Open
    <3>2. Cardinality(Open) = 0
      BY <3>1, FS_EmptySet
    <3>3. InOrderOfArrival = [i \in 1..0 |-> Hop[i - 1]]
      BY <3>2 DEF InOrderOfArrival
    <3> HIDE DEF Hop
    <3>4. 1..0 = {}
      OBVIOUS
    <3> QED
      BY <3>3, <3>4
  <2>5. \A a \in Admin : adm[a].state # "ADMIN_REQUEST"
    BY <2>1, <2>2
  <2> QED
    BY <2>1, <2>3, <2>4, <2>5 DEF Service!Init
<1>2. MonitorInv /\ MonitorInv' /\ ServeInv /\ [Next]_vars =>
        ServeInv' /\ [Service!Next]_(Service!vars)
  BY NextServes
<1>3. Spec => []MonitorInv
  BY Invariant
<1> QED
  BY <1>1, <1>2, <1>3, PTL DEF Spec, ServiceRefined, Service!Spec
=============================================================================
