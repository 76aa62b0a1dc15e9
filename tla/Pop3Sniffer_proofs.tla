------------------------- MODULE Pop3Sniffer_proofs -------------------------
(* Proofs about the sniffer: its memory and indices, for every dialogue, size *)
(* of the fields and of the buffer, and what it logs of a plain dialogue.     *)
EXTENDS Pop3Sniffer, SequenceTheorems, TLAPS

-----------------------------------------------------------------------------
(* Sequences of characters *)

\* The words and their lengths.
LEMMA WordLengths ==
  Len(Ok) = 3 /\ Len(Err) = 4 /\ Len(UserWord) = 5 /\ Len(PassWord) = 5
BY DEF Ok, Err, UserWord, PassWord

\* A field of which n characters are kept.
LEMMA KeptField ==
  ASSUME NEW f \in Field, NEW k \in 0..Len(f)
  PROVE  Kept(f, k) \in Field /\ Len(Kept(f, k)) = k
<1> USE SnifferAssumption
<1>1. f \in Seq(Symbol) /\ Len(f) \in Nat /\ Len(f) <= CredentialsSize
  BY DEF Field
<1>2. SubSeq(f, 1, k) \in Seq(Symbol) /\ Len(SubSeq(f, 1, k)) = k
  <2>1. \A j \in 1..k : f[j] \in Symbol
    BY <1>1
  <2> QED
    BY <1>1, <2>1, SubSeqProperties
<1> QED
  BY <1>1, <1>2 DEF Kept, Field

\* One more character is stored behind them.
LEMMA StoredField ==
  ASSUME NEW f \in Field, NEW k \in 0..Len(f), k < CredentialsSize, NEW c \in Symbol
  PROVE  Stored(f, k, c) \in Field /\ Len(Stored(f, k, c)) = k + 1
<1>1. Kept(f, k) \in Seq(Symbol) /\ Len(Kept(f, k)) = k
  BY KeptField DEF Field
<1>2. /\ Append(Kept(f, k), c) \in Seq(Symbol)
      /\ Len(Append(Kept(f, k), c)) = Len(Kept(f, k)) + 1
  BY <1>1, AppendProperties
<1> QED
  BY <1>1, <1>2, SnifferAssumption DEF Stored, Field

-----------------------------------------------------------------------------
(* One character *)

\* Numbers of a uint8_t.  The name keeps arithmetic out of the steps about records.
Uint8 == 0..255

SnifferType(s) ==
  s \in [state : SnifferState, read : Uint8, remaining : Uint8, check_read : Uint8,
         user : Field, pass : Field]

LEMMA States ==
  /\ "POP3_INIT" \in SnifferState /\ "POP3_USER_COMMAND" \in SnifferState
  /\ "POP3_READ_USER" \in SnifferState /\ "POP3_PASS_COMMAND" \in SnifferState
  /\ "POP3_READ_PASS" \in SnifferState /\ "POP3_CHECK_CREDS" \in SnifferState
  /\ "POP3_SNIFF_SUCCESSFUL" \in SnifferState /\ "POP3_FINISH" \in SnifferState
BY DEF SnifferState, Final

\* The index never leaves what it is an index of: the word that is looked for,
\* or the field that is written.
InWord(s) ==
  /\ s.state = "POP3_INIT" => s.read <= 3
  /\ s.state = "POP3_USER_COMMAND" => s.read <= 5
  /\ s.state = "POP3_PASS_COMMAND" => s.read <= 5
  /\ s.state = "POP3_CHECK_CREDS" => s.read <= 3 /\ s.check_read <= 4
InField(s) ==
  /\ s.state = "POP3_READ_USER" => s.read <= Len(s.user)
  /\ s.state = "POP3_READ_PASS" => s.read <= Len(s.pass)
Sound(s) == SnifferType(s) /\ InWord(s) /\ InField(s)

\* A match is short of the end of its word.
LEMMA MatchesWithin ==
  ASSUME NEW k \in 0..255, NEW c
  PROVE  /\ Matches(Ok, k, c) => k < 3
         /\ Matches(Err, k, c) => k < 4
         /\ Matches(UserWord, k, c) => k < 5
         /\ Matches(PassWord, k, c) => k < 5
BY WordLengths DEF Matches

LEMMA DecRange == \A k \in 0..255 : Dec(k) \in 0..255
BY DEF Dec

\* Bounds and sums of such numbers.
LEMMA Within == \A r \in 0..255, l \in Nat : r <= l => r \in 0..l
OBVIOUS

LEMMA OneMore == \A r \in 0..255, l \in 1..255 : r < l => r + 1 \in 0..255
OBVIOUS

\* The ranges of the fields of a sniffer.
LEMMA Fields ==
  ASSUME NEW s, SnifferType(s)
  PROVE  /\ s.read \in 0..255 /\ s.remaining \in 0..255 /\ s.check_read \in 0..255
         /\ s.user \in Field /\ s.pass \in Field
BY DEF SnifferType, Uint8

LEMMA FieldLength ==
  ASSUME NEW f \in Field PROVE Len(f) \in Nat /\ Len(f) <= CredentialsSize
BY DEF Field

\* A sniffer whose index starts over, which is within everything.
LEMMA StartsOver ==
  ASSUME NEW s, SnifferType(s), s.read = 0, s.check_read <= 4
  PROVE  Sound(s)
<1>1. Len(s.user) \in Nat /\ Len(s.pass) \in Nat
  BY Fields, FieldLength
<1>2. InField(s)
  BY <1>1 DEF InField
<1>3. InWord(s)
  BY DEF InWord
<1> QED
  BY <1>2, <1>3 DEF Sound

LEMMA ReadOkMsgKeeps ==
  ASSUME NEW s, Sound(s), s.state = "POP3_INIT", NEW c \in Symbol
  PROVE  Sound(ReadOkMsg(s, c))
<1>1. SnifferType(s) /\ s.read \in 0..255 /\ s.remaining \in 0..255
  BY Fields DEF Sound
<1>2. CASE ~Matches(Ok, s.read, c)
  <2> DEFINE t == [s EXCEPT !.state = "POP3_FINISH"]
  <2>1. ReadOkMsg(s, c) = t
    BY <1>2 DEF ReadOkMsg
  <2>2. SnifferType(t) /\ t.state = "POP3_FINISH"
    BY <1>1, States DEF SnifferType
  <2> HIDE DEF t
  <2> QED
    BY <2>1, <2>2 DEF Sound, InWord, InField
<1>3. CASE Matches(Ok, s.read, c) /\ Dec(s.remaining) = 0
  <2> DEFINE zero == 0
             m == 5
             t == [s EXCEPT !.state = "POP3_USER_COMMAND", !.read = zero, !.remaining = m]
  <2>1. ReadOkMsg(s, c) = t
    BY <1>3, WordLengths DEF ReadOkMsg
  <2>2. zero \in Uint8 /\ m \in Uint8 /\ zero = 0
    BY DEF Uint8
  <2> HIDE DEF zero, m
  <2>3. SnifferType(t) /\ t.state = "POP3_USER_COMMAND" /\ t.read = zero
    BY <1>1, <2>2, States DEF SnifferType
  <2> HIDE DEF t
  <2> QED
    BY <2>1, <2>2, <2>3 DEF Sound, InWord, InField
<1>4. CASE Matches(Ok, s.read, c) /\ Dec(s.remaining) # 0
  <2> DEFINE r == s.read + 1
             m == Dec(s.remaining)
             t == [s EXCEPT !.read = r, !.remaining = m]
  <2>1. ReadOkMsg(s, c) = t
    BY <1>4 DEF ReadOkMsg
  <2>2. r \in Uint8 /\ r <= 3
    BY <1>1, <1>4, MatchesWithin DEF Uint8
  <2>3. m \in Uint8
    BY <1>1, DecRange DEF Uint8
  <2> HIDE DEF r, m
  <2>4. SnifferType(t) /\ t.state = "POP3_INIT" /\ t.read = r
    BY <1>1, <2>2, <2>3, States DEF SnifferType
  <2> HIDE DEF t
  <2> QED
    BY <2>1, <2>2, <2>4 DEF Sound, InWord, InField
<1> QED
  BY <1>2, <1>3, <1>4

LEMMA ReadCommandKeeps ==
  ASSUME NEW s, Sound(s), NEW w, NEW next, NEW c \in Symbol,
         \/ s.state = "POP3_USER_COMMAND" /\ w = UserWord /\ next = "POP3_READ_USER"
         \/ s.state = "POP3_PASS_COMMAND" /\ w = PassWord /\ next = "POP3_READ_PASS"
  PROVE  Sound(ReadCommand(s, c, w, next))
<1>1. SnifferType(s) /\ s.read \in 0..255 /\ s.remaining \in 0..255
  BY Fields DEF Sound
<1>2. CASE ~Matches(w, s.read, c)
  <2> DEFINE zero == 0
             m == 5
             t == [s EXCEPT !.read = zero, !.remaining = m]
  <2>1. ReadCommand(s, c, w, next) = s \/ ReadCommand(s, c, w, next) = t
    BY <1>2, WordLengths DEF ReadCommand
  <2>2. zero \in Uint8 /\ m \in Uint8 /\ zero = 0
    BY DEF Uint8
  <2> HIDE DEF zero, m
  <2>3. SnifferType(t) /\ t.state = s.state /\ t.read = zero
    BY <1>1, <2>2, States DEF SnifferType
  <2> HIDE DEF t
  <2>4. Sound(t)
    BY <2>2, <2>3 DEF Sound, InWord, InField
  <2> QED
    BY <2>1, <2>4
<1>3. CASE Matches(w, s.read, c) /\ Dec(s.remaining) = 0
  <2> DEFINE zero == 0
             m == 0
             t == [s EXCEPT !.state = next, !.read = zero, !.remaining = m]
  <2>1. ReadCommand(s, c, w, next) = t
    BY <1>3 DEF ReadCommand
  <2>2. zero \in Uint8 /\ m \in Uint8 /\ zero = 0
    BY DEF Uint8
  <2> HIDE DEF zero, m
  <2>3. SnifferType(t) /\ t.state = next /\ t.read = zero
    BY <1>1, <2>2, States DEF SnifferType
  <2> HIDE DEF t
  <2>4. Len(t.user) \in Nat /\ Len(t.pass) \in Nat
    BY <2>3, Fields, FieldLength
  <2>5. InField(t)
    BY <2>2, <2>3, <2>4 DEF InField
  <2>6. InWord(t)
    BY <2>3 DEF InWord
  <2> QED
    BY <2>1, <2>3, <2>5, <2>6 DEF Sound
<1>4. CASE Matches(w, s.read, c) /\ Dec(s.remaining) # 0
  <2> DEFINE r == s.read + 1
             m == Dec(s.remaining)
             t == [s EXCEPT !.read = r, !.remaining = m]
  <2>1. ReadCommand(s, c, w, next) = t
    BY <1>4 DEF ReadCommand
  <2>2. r \in Uint8 /\ r <= 5
    <3>1. s.read < 5
      BY <1>1, <1>4, MatchesWithin
    <3> QED
      BY <1>1, <3>1 DEF Uint8
  <2>3. m \in Uint8
    BY <1>1, DecRange DEF Uint8
  <2> HIDE DEF r, m
  <2>4. SnifferType(t) /\ t.state = s.state /\ t.read = r
    BY <1>1, <2>2, <2>3, States DEF SnifferType
  <2> HIDE DEF t
  <2> QED
    BY <2>1, <2>2, <2>4 DEF Sound, InWord, InField
<1> QED
  BY <1>2, <1>3, <1>4

LEMMA ReadUserKeeps ==
  ASSUME NEW s, Sound(s), s.state = "POP3_READ_USER", NEW c \in Symbol
  PROVE  Sound(ReadUser(s, c))
<1>1. SnifferType(s) /\ s.user \in Field /\ s.read \in 0..255 /\ Len(s.user) \in Nat
  BY Fields, FieldLength DEF Sound
<1>2. s.read <= Len(s.user)
  BY DEF Sound, InField
<1>3. s.read \in 0..Len(s.user)
  BY <1>1, <1>2, Within
<1>4. CASE c \in {"\n", "\r"}
  <2> DEFINE f == Kept(s.user, s.read)
             zero == 0
             m == 5
             t == [s EXCEPT !.state = "POP3_PASS_COMMAND", !.user = f, !.read = zero,
                            !.remaining = m, !.check_read = zero]
  <2>1. ReadUser(s, c) = t
    BY <1>4, WordLengths DEF ReadUser
  <2>2. f \in Field
    BY <1>1, <1>3, KeptField
  <2>3. zero \in Uint8 /\ m \in Uint8 /\ zero = 0 /\ zero <= 4
    BY DEF Uint8
  <2> HIDE DEF f, zero, m
  <2>4. SnifferType(t) /\ t.read = zero /\ t.check_read = zero
    BY <1>1, <2>2, <2>3, States DEF SnifferType
  <2> HIDE DEF t
  <2> QED
    BY <2>1, <2>3, <2>4, StartsOver
<1>5. CASE c \notin {"\n", "\r"} /\ s.read < CredentialsSize
  <2> DEFINE f == Stored(s.user, s.read, c)
             r == s.read + 1
             t == [s EXCEPT !.user = f, !.read = r]
  <2>1. ReadUser(s, c) = t
    BY <1>5 DEF ReadUser
  <2>2. f \in Field /\ Len(f) = r
    BY <1>1, <1>3, <1>5, StoredField
  <2>3. r \in Uint8
    <3>1. CredentialsSize \in 1..255
      BY SnifferAssumption
    <3> QED
      BY <1>1, <1>5, <3>1, OneMore DEF Uint8
  <2> HIDE DEF f, r
  <2>4. SnifferType(t) /\ t.state = "POP3_READ_USER" /\ t.read = r /\ t.user = f
    BY <1>1, <2>2, <2>3, States DEF SnifferType
  <2> HIDE DEF t
  <2>5. InField(t)
    BY <2>2, <2>3, <2>4 DEF InField
  <2>6. InWord(t)
    BY <2>4 DEF InWord
  <2> QED
    BY <2>1, <2>4, <2>5, <2>6 DEF Sound
<1>6. CASE c \notin {"\n", "\r"} /\ ~(s.read < CredentialsSize)
  BY <1>6 DEF ReadUser
<1> QED
  BY <1>4, <1>5, <1>6

LEMMA ReadPassKeeps ==
  ASSUME NEW s, Sound(s), s.state = "POP3_READ_PASS", NEW c \in Symbol
  PROVE  Sound(ReadPass(s, c))
<1>1. SnifferType(s) /\ s.pass \in Field /\ s.read \in 0..255 /\ Len(s.pass) \in Nat
  BY Fields, FieldLength DEF Sound
<1>2. s.read <= Len(s.pass)
  BY DEF Sound, InField
<1>3. s.read \in 0..Len(s.pass)
  BY <1>1, <1>2, Within
<1>4. CASE c \in {"\n", "\r"}
  <2> DEFINE f == Kept(s.pass, s.read)
             zero == 0
             t == [s EXCEPT !.state = "POP3_CHECK_CREDS", !.pass = f, !.read = zero,
                            !.check_read = zero]
  <2>1. ReadPass(s, c) = t
    BY <1>4, WordLengths DEF ReadPass
  <2>2. f \in Field
    BY <1>1, <1>3, KeptField
  <2>3. zero \in Uint8 /\ zero = 0 /\ zero <= 4
    BY DEF Uint8
  <2> HIDE DEF f, zero
  <2>4. SnifferType(t) /\ t.read = zero /\ t.check_read = zero
    BY <1>1, <2>2, <2>3, States DEF SnifferType
  <2> HIDE DEF t
  <2> QED
    BY <2>1, <2>3, <2>4, StartsOver
<1>5. CASE c \notin {"\n", "\r"} /\ s.read < CredentialsSize
  <2> DEFINE f == Stored(s.pass, s.read, c)
             r == s.read + 1
             t == [s EXCEPT !.pass = f, !.read = r]
  <2>1. ReadPass(s, c) = t
    BY <1>5 DEF ReadPass
  <2>2. f \in Field /\ Len(f) = r
    BY <1>1, <1>3, <1>5, StoredField
  <2>3. r \in Uint8
    <3>1. CredentialsSize \in 1..255
      BY SnifferAssumption
    <3> QED
      BY <1>1, <1>5, <3>1, OneMore DEF Uint8
  <2> HIDE DEF f, r
  <2>4. SnifferType(t) /\ t.state = "POP3_READ_PASS" /\ t.read = r /\ t.pass = f
    BY <1>1, <2>2, <2>3, States DEF SnifferType
  <2> HIDE DEF t
  <2>5. InField(t)
    BY <2>2, <2>3, <2>4 DEF InField
  <2>6. InWord(t)
    BY <2>4 DEF InWord
  <2> QED
    BY <2>1, <2>4, <2>5, <2>6 DEF Sound
<1>6. CASE c \notin {"\n", "\r"} /\ ~(s.read < CredentialsSize)
  BY <1>6 DEF ReadPass
<1> QED
  BY <1>4, <1>5, <1>6

LEMMA CheckResponseKeeps ==
  ASSUME NEW s, Sound(s), s.state = "POP3_CHECK_CREDS", NEW c \in Symbol
  PROVE  Sound(CheckResponse(s, c))
<1>1. SnifferType(s) /\ s.read \in 0..255 /\ s.check_read \in 0..255
  BY Fields DEF Sound
<1>2. s.read <= 3 /\ s.check_read <= 4
  BY DEF Sound, InWord
<1>3. CASE Matches(Ok, s.read, c)
  <2> DEFINE r == s.read + 1
  <2>1. PICK st \in {"POP3_SNIFF_SUCCESSFUL", "POP3_CHECK_CREDS"} :
          CheckResponse(s, c) = [s EXCEPT !.read = r, !.state = st]
    BY <1>3 DEF CheckResponse
  <2>2. r \in Uint8 /\ r <= 3
    BY <1>1, <1>3, MatchesWithin DEF Uint8
  <2> HIDE DEF r
  <2> DEFINE t == [s EXCEPT !.read = r, !.state = st]
  <2>3. SnifferType(t) /\ t.state = st /\ t.read = r /\ t.check_read = s.check_read
    BY <1>1, <2>2, States DEF SnifferType
  <2> HIDE DEF t
  <2>4. Sound(t)
    BY <1>2, <2>2, <2>3 DEF Sound, InWord, InField
  <2> QED
    BY <2>1, <2>4 DEF t
<1>4. CASE ~Matches(Ok, s.read, c) /\ Matches(Err, s.check_read, c)
  <2> DEFINE r == s.check_read + 1
  <2>1. PICK st \in {"POP3_USER_COMMAND", "POP3_CHECK_CREDS"} :
          CheckResponse(s, c) = [s EXCEPT !.check_read = r, !.state = st]
    BY <1>4 DEF CheckResponse
  <2>2. r \in Uint8 /\ r <= 4 /\ s.read <= 5
    BY <1>1, <1>2, <1>4, MatchesWithin DEF Uint8
  <2> HIDE DEF r
  <2> DEFINE t == [s EXCEPT !.check_read = r, !.state = st]
  <2>3. SnifferType(t) /\ t.state = st /\ t.check_read = r /\ t.read = s.read
    BY <1>1, <2>2, States DEF SnifferType
  <2> HIDE DEF t
  <2>4. Sound(t)
    BY <1>2, <2>2, <2>3 DEF Sound, InWord, InField
  <2> QED
    BY <2>1, <2>4 DEF t
<1>5. CASE ~Matches(Ok, s.read, c) /\ ~Matches(Err, s.check_read, c)
  BY <1>5 DEF CheckResponse
<1> QED
  BY <1>3, <1>4, <1>5

\* Whatever the character, the machine keeps its memory and its indices.
LEMMA ParseKeeps ==
  ASSUME NEW s, Sound(s), NEW c \in Symbol
  PROVE  Sound(ParsePop3Sniffer(s, c))
<1>1. CASE s.state = "POP3_INIT"
  BY <1>1, ReadOkMsgKeeps DEF ParsePop3Sniffer
<1>2. CASE s.state = "POP3_USER_COMMAND"
  BY <1>2, ReadCommandKeeps DEF ParsePop3Sniffer
<1>3. CASE s.state = "POP3_READ_USER"
  BY <1>3, ReadUserKeeps DEF ParsePop3Sniffer
<1>4. CASE s.state = "POP3_PASS_COMMAND"
  BY <1>4, ReadCommandKeeps DEF ParsePop3Sniffer
<1>5. CASE s.state = "POP3_READ_PASS"
  BY <1>5, ReadPassKeeps DEF ParsePop3Sniffer
<1>6. CASE s.state = "POP3_CHECK_CREDS"
  BY <1>6, CheckResponseKeeps DEF ParsePop3Sniffer
<1>7. CASE s.state \in Final
  BY <1>7 DEF ParsePop3Sniffer, Final
<1> QED
  BY <1>1, <1>2, <1>3, <1>4, <1>5, <1>6, <1>7 DEF Sound, SnifferType, SnifferState

-----------------------------------------------------------------------------
(* The dialogue *)

\* A line is made of characters.
LEMMA LineOf ==
  ASSUME NEW x \in Seq(Symbol), NEW y \in Seq(Symbol)
  PROVE  x \o y \in Seq(Symbol)
BY ConcatProperties

LEMMA Words ==
  /\ Eol \in Seq(Symbol) /\ Ok \in Seq(Symbol) /\ Err \in Seq(Symbol)
  /\ UserWord \in Seq(Symbol) /\ PassWord \in Seq(Symbol) /\ Capa \in Seq(Symbol)
<1>1. \A w \in {Eol, Ok, Err, UserWord, PassWord, Capa} : w \in Seq(Symbol)
  BY SnifferAssumption
<1> QED
  BY <1>1

IInv == Sound(sniffer) /\ pending \in Seq(Symbol) /\ login \in Logins

\* What is handed to the sniffer, cut to its buffer, are characters.
LEMMA SniffKeeps ==
  ASSUME IInv, NEW chars \in Seq(Symbol), Sniff(chars)
  PROVE  Sound(sniffer)' /\ pending' \in Seq(Symbol)
<1>1. sniffer' = sniffer /\ Sound(sniffer)
  BY DEF Sniff, IInv
<1>2. Sound(sniffer)'
  BY <1>1 DEF Sound, SnifferType, InWord, InField
<1>3. << >> \in Seq(Symbol)
  BY EmptySeq
<1>4. ~(Len(chars) <= Pop3Buff) => SubSeq(chars, 1, Pop3Buff) \in Seq(Symbol)
  <2>1. Pop3Buff \in Nat /\ Len(chars) \in Nat
    BY SnifferAssumption, LenProperties
  <2>2. \A j \in 1..Len(chars) : chars[j] \in Symbol
    BY ElementOfSeq
  <2>3. ~(Len(chars) <= Pop3Buff) => \A j \in 1..Pop3Buff : chars[j] \in Symbol
    BY <2>1, <2>2
  <2> QED
    BY <2>1, <2>3, SubSeqProperties
<1>5. pending' \in Seq(Symbol)
  BY <1>3, <1>4 DEF Sniff, Heard
<1> QED
  BY <1>2, <1>5

LEMMA ConsumeKeeps ==
  ASSUME IInv, Consume PROVE IInv'
<1>1. Head(pending) \in Symbol /\ Tail(pending) \in Seq(Symbol) /\ << >> \in Seq(Symbol)
  BY HeadTailProperties, EmptySeq DEF Consume, IInv
<1>2. Sound(ParsePop3Sniffer(sniffer, Head(pending)))
  BY <1>1, ParseKeeps DEF IInv
<1>3. sniffer' = ParsePop3Sniffer(sniffer, Head(pending)) /\ login' = login
      /\ (pending' = << >> \/ pending' = Tail(pending))
  BY DEF Consume
<1>4. Sound(sniffer')
  BY <1>2, <1>3
<1> QED
  BY <1>1, <1>3, <1>4 DEF IInv, Sound, SnifferType, InWord, InField

\* The inductive invariant: the machine is sound, and what waits for it are
\* characters.
LEMMA StepIInv ==
  ASSUME IInv, [Next]_vars PROVE IInv'
<1>1. login.user \in Seq(Symbol) /\ login.pass \in Seq(Symbol)
      /\ \A l \in Logins : l.user \in Seq(Symbol)
  <2>1. \A l \in [user : Seq(Symbol), pass : Seq(Symbol)] :
          l.user \in Seq(Symbol) /\ l.pass \in Seq(Symbol)
    OBVIOUS
  <2>2. Logins \subseteq [user : Seq(Symbol), pass : Seq(Symbol)] /\ login \in Logins
    BY SnifferAssumption DEF IInv
  <2> QED
    BY <2>1, <2>2
<1>2. ASSUME NEW chars \in Seq(Symbol), Sniff(chars), login' \in Logins PROVE IInv'
  BY <1>2, SniffKeeps DEF IInv
<1>3. login \in Logins
  BY DEF IInv
<1>4. CASE Consume
  BY <1>4, ConsumeKeeps
<1>5. ASSUME NEW line \in {Ok, Err, Capa}, Greet(line) PROVE IInv'
  <2>1. line \o Eol \in Seq(Symbol)
    BY Words, LineOf
  <2>2. Sniff(line \o Eol) /\ login' = login
    BY <1>5 DEF Greet
  <2> QED
    BY <1>2, <1>3, <2>1, <2>2
<1>6. ASSUME NEW l \in Logins, SendUser(l) PROVE IInv'
  <2>1. UserWord \o l.user \o Eol \in Seq(Symbol)
    BY <1>1, Words, LineOf
  <2>2. Sniff(UserWord \o l.user \o Eol) /\ login' = l
    BY <1>6 DEF SendUser
  <2> QED
    BY <1>2, <2>1, <2>2
<1>7. CASE SendPass
  <2>1. PassWord \o login.pass \o Eol \in Seq(Symbol)
    BY <1>1, Words, LineOf
  <2>2. Sniff(PassWord \o login.pass \o Eol) /\ login' = login
    BY <1>7 DEF SendPass
  <2> QED
    BY <1>2, <1>3, <2>1, <2>2
<1>8. CASE SendOther
  <2>1. Capa \o Eol \in Seq(Symbol)
    BY Words, LineOf
  <2>2. Sniff(Capa \o Eol) /\ login' = login
    BY <1>8 DEF SendOther
  <2> QED
    BY <1>2, <1>3, <2>1, <2>2
<1>9. ASSUME NEW text \in Texts, NEW ok \in BOOLEAN,
             AnswerUser(ok, text) \/ AnswerPass(ok, text) \/ AnswerOther(text)
      PROVE IInv'
  <2>1. text \in Seq(Symbol)
    BY SnifferAssumption
  <2>2. Ok \o text \o Eol \in Seq(Symbol) /\ Err \o text \o Eol \in Seq(Symbol)
    BY <2>1, Words, LineOf
  <2>3. login' = login /\ (Sniff(Ok \o text \o Eol) \/ Sniff(Err \o text \o Eol))
    BY <1>9 DEF AnswerUser, AnswerPass, AnswerOther
  <2> QED
    BY <1>2, <1>3, <2>2, <2>3
<1>10. CASE UNCHANGED vars
  BY <1>10 DEF vars, IInv, Sound, SnifferType, InWord, InField
<1>11. CASE Over
  BY <1>10, <1>11 DEF Over
<1> QED
  BY <1>4, <1>5, <1>6, <1>7, <1>8, <1>9, <1>10, <1>11 DEF Next, Client, Server

LEMMA InitIInv ==
  ASSUME Init PROVE IInv
<1>1. << >> \in Field
  <2>1. << >> \in Seq(Symbol) /\ Len(<< >>) = 0
    BY EmptySeq
  <2>2. 0 <= CredentialsSize
    BY SnifferAssumption
  <2> QED
    BY <2>1, <2>2 DEF Field
<1> DEFINE zero == 0
           m == 3
<1>2. zero \in Uint8 /\ m \in Uint8 /\ zero = 0 /\ zero <= 3
  BY DEF Uint8
<1>3. sniffer = [state |-> "POP3_INIT", read |-> zero, remaining |-> m, check_read |-> zero,
                 user |-> << >>, pass |-> << >>]
  BY WordLengths DEF Init
<1> HIDE DEF zero, m
<1>4. SnifferType(sniffer) /\ sniffer.state = "POP3_INIT" /\ sniffer.read = zero
  BY <1>1, <1>2, <1>3, States DEF SnifferType
<1>5. Sound(sniffer)
  BY <1>2, <1>4 DEF Sound, InWord, InField
<1> QED
  BY <1>1, <1>5 DEF Init, IInv, Field

LEMMA Inductive == Spec => []IInv
<1>1. Init => IInv
  BY InitIInv
<1>2. IInv /\ [Next]_vars => IInv'
  BY StepIInv
<1> QED
  BY <1>1, <1>2, PTL DEF Spec

-----------------------------------------------------------------------------
(* What is left of a line, and what is looked for in it *)

\* What is left of a line behind its first k characters.
Left(line, k) == SubSeq(line, k + 1, Len(line))
Begin(w, k) == SubSeq(w, 1, k)

LEMMA LeftIs ==
  ASSUME NEW x \in Seq(Symbol), NEW k \in 0..Len(x)
  PROVE  /\ Left(x, k) \in Seq(Symbol) /\ Len(Left(x, k)) = Len(x) - k
         /\ \A i \in 1..(Len(x) - k) : Left(x, k)[i] = x[k + i]
         /\ Left(x, k) = << >> <=> k = Len(x)
<1>1. Len(x) \in Nat /\ \A i \in 1..Len(x) : x[i] \in Symbol
  BY LenProperties, ElementOfSeq
<1>2. k + 1 \in Int /\ Len(x) \in Int /\ \A i \in (k + 1)..Len(x) : x[i] \in Symbol
  BY <1>1
<1>3. /\ SubSeq(x, k + 1, Len(x)) \in Seq(Symbol)
      /\ Len(SubSeq(x, k + 1, Len(x))) = IF k + 1 <= Len(x) THEN Len(x) - (k + 1) + 1 ELSE 0
      /\ \A i \in 1..(Len(x) - (k + 1) + 1) : SubSeq(x, k + 1, Len(x))[i] = x[k + 1 + i - 1]
  BY <1>2, SubSeqProperties
<1>4. Left(x, k) \in Seq(Symbol) /\ Len(Left(x, k)) = Len(x) - k
      /\ \A i \in 1..(Len(x) - k) : Left(x, k)[i] = x[k + i]
  BY <1>1, <1>3 DEF Left
<1>5. Left(x, k) = << >> <=> Len(Left(x, k)) = 0
  BY <1>4, EmptySeq
<1> QED
  BY <1>1, <1>4, <1>5

\* The next character of it, and what is left then.
LEMMA LeftNext ==
  ASSUME NEW x \in Seq(Symbol), NEW k \in 0..Len(x), k < Len(x)
  PROVE  /\ Left(x, k) # << >> /\ Head(Left(x, k)) = x[k + 1]
         /\ k + 1 \in 0..Len(x) /\ Tail(Left(x, k)) = Left(x, k + 1)
<1>1. Len(x) \in Nat /\ k + 1 \in 1..Len(x) /\ Len(x) \in (k + 1)..Len(x)
  BY LenProperties
<1>2. Head(SubSeq(x, k + 1, Len(x))) = x[k + 1]
      /\ Tail(SubSeq(x, k + 1, Len(x))) = SubSeq(x, k + 1 + 1, Len(x))
  BY <1>1, HeadTailOfSubSeq
<1> QED
  BY <1>1, <1>2, LeftIs DEF Left

\* Nothing of a line was read.
LEMMA LeftAll ==
  ASSUME NEW x \in Seq(Symbol) PROVE Left(x, 0) = x
BY SubSeqFull, LenProperties DEF Left

\* Behind the first of two parts the second is left.
LEMMA LeftOfConcat ==
  ASSUME NEW x \in Seq(Symbol), NEW y \in Seq(Symbol)
  PROVE  Left(x \o y, Len(x)) = y
<1>1. Len(x) \in Nat /\ Len(y) \in Nat /\ x \o y \in Seq(Symbol)
      /\ Len(x \o y) = Len(x) + Len(y)
      /\ \A i \in 1..(Len(x) + Len(y)) :
           (x \o y)[i] = IF i <= Len(x) THEN x[i] ELSE y[i - Len(x)]
  BY LenProperties, ConcatProperties
<1> DEFINE z == x \o y
           k == Len(x)
<1>2. z \in Seq(Symbol) /\ k \in 0..Len(z) /\ Len(z) - k = Len(y)
  BY <1>1
<1>3. \A i \in 1..Len(y) : z[k + i] = y[i]
  BY <1>1
<1> HIDE DEF z, k
<1>4. Left(z, k) \in Seq(Symbol) /\ Len(Left(z, k)) = Len(z) - k
      /\ \A i \in 1..(Len(z) - k) : Left(z, k)[i] = z[k + i]
  BY <1>2, LeftIs
<1>5. Left(z, k) = y
  BY <1>2, <1>3, <1>4, SeqEqual
<1> QED
  BY <1>5 DEF z, k

\* The words that are looked for.
Word == {w \in Seq(Symbol) : Len(w) = 5}

LEMMA CommandWords == UserWord \in Word /\ PassWord \in Word
BY Words, WordLengths DEF Word

\* A beginning of a word and what follows it.
LEMMA BeginIs ==
  ASSUME NEW w \in Word, NEW k \in 0..5, NEW p \in Seq(Symbol)
  PROVE  /\ Begin(w, k) \o p \in Seq(Symbol) /\ Len(Begin(w, k) \o p) = k + Len(p)
         /\ \A i \in 1..k : (Begin(w, k) \o p)[i] = w[i]
         /\ \A i \in 1..Len(p) : (Begin(w, k) \o p)[k + i] = p[i]
<1>1. w \in Seq(Symbol) /\ Len(w) = 5 /\ Len(p) \in Nat
  BY LenProperties DEF Word
<1>2. \A i \in 1..k : w[i] \in Symbol
  <2>1. \A i \in 1..k : i \in 1..Len(w)
    BY <1>1
  <2> QED
    BY <1>1, <2>1, ElementOfSeq
<1>3. /\ SubSeq(w, 1, k) \in Seq(Symbol)
      /\ Len(SubSeq(w, 1, k)) = IF 1 <= k THEN k - 1 + 1 ELSE 0
      /\ \A i \in 1..(k - 1 + 1) : SubSeq(w, 1, k)[i] = w[1 + i - 1]
  BY <1>2, SubSeqProperties
<1>4. Begin(w, k) \in Seq(Symbol) /\ Len(Begin(w, k)) = k /\ \A i \in 1..k : Begin(w, k)[i] = w[i]
  BY <1>3 DEF Begin
<1>5. /\ Begin(w, k) \o p \in Seq(Symbol) /\ Len(Begin(w, k) \o p) = k + Len(p)
      /\ \A i \in 1..(k + Len(p)) :
           (Begin(w, k) \o p)[i] = IF i <= k THEN Begin(w, k)[i] ELSE p[i - k]
  BY <1>4, ConcatProperties
<1> DEFINE x == Begin(w, k) \o p
<1> HIDE DEF x
<1>6. \A i \in 1..k : i \in 1..(k + Len(p)) /\ i <= k
  BY <1>1
<1>7. \A i \in 1..Len(p) : k + i \in 1..(k + Len(p)) /\ ~(k + i <= k) /\ (k + i) - k = i
  BY <1>1
<1>8. \A i \in 1..k : x[i] = w[i]
  BY <1>4, <1>5, <1>6 DEF x
<1>9. \A i \in 1..Len(p) : x[k + i] = p[i]
  BY <1>5, <1>7 DEF x
<1> QED
  BY <1>5, <1>8, <1>9 DEF x

LEMMA BeginNone ==
  ASSUME NEW w \in Word, NEW p \in Seq(Symbol) PROVE Begin(w, 0) \o p = p
<1>1. /\ Begin(w, 0) \o p \in Seq(Symbol) /\ Len(Begin(w, 0) \o p) = 0 + Len(p)
      /\ \A i \in 1..Len(p) : (Begin(w, 0) \o p)[0 + i] = p[i]
  <2>1. 0 \in 0..5
    OBVIOUS
  <2> QED
    BY <2>1, BeginIs
<1> QED
  BY <1>1, SeqEqual, LenProperties

\* What is quiet stays so behind any of its characters.
LEMMA QuietBehind ==
  ASSUME NEW w \in Word, NEW x \in Seq(Symbol), NEW y \in Seq(Symbol), NEW d \in Nat,
         Len(x) = d + Len(y), \A i \in 1..Len(y) : y[i] = x[d + i], Quiet(x, w)
  PROVE  Quiet(y, w)
<1>1. Len(w) = 5 /\ Len(x) \in Nat /\ Len(y) \in Nat
  BY LenProperties DEF Word
<1>2. ASSUME NEW i \in 0..(Len(y) - 5) PROVE \E j \in 1..5 : y[i + j] # w[j]
  <2>1. d + i \in 0..(Len(x) - 5)
    BY <1>1
  <2>2. PICK j \in 1..5 : x[d + i + j] # w[j]
    BY <1>1, <2>1 DEF Quiet
  <2>3. i + j \in 1..Len(y) /\ d + (i + j) = d + i + j
    BY <1>1
  <2> QED
    BY <2>2, <2>3
<1>3. ASSUME y # << >> PROVE \A j \in 1..5 : y[Len(y)] # w[j]
  <2>1. Len(y) \in 1..Len(y) /\ x # << >>
    BY <1>1, <1>3, EmptySeq
  <2>2. y[Len(y)] = x[Len(x)]
    BY <2>1
  <2> QED
    BY <1>1, <2>1, <2>2 DEF Quiet
<1> QED
  BY <1>1, <1>2, <1>3 DEF Quiet

\* The counter r, behind k characters that matched: it started from n, 5 or,
\* what -ERR leaves, 0.
Counts(r, n, k) == r = (n - k) % 256

\* It is 0 exactly where the whole of a word has matched, if it started from 5.
LEMMA CountsDown ==
  \A r : \A n \in {0, 5}, k \in 0..5 : Counts(r, n, k) =>
    Counts(Dec(r), n, k + 1) /\ (Dec(r) = 0 <=> n = 5 /\ k = 4)
<1> SUFFICES ASSUME NEW r, NEW n \in {0, 5}, NEW k \in 0..5, Counts(r, n, k)
             PROVE  Counts(Dec(r), n, k + 1) /\ (Dec(r) = 0 <=> n = 5 /\ k = 4)
  OBVIOUS
<1>1. k \in {0, 1, 2, 3, 4, 5}
  OBVIOUS
<1> QED
  BY <1>1 DEF Dec, Counts

LEMMA CountsFrom == \A r : \A n \in {0, 5} : Counts(r, n, 0) <=> r = n
BY DEF Counts

\* A word is looked for and will not be found in what is left to read.
Searches(s, p, w, n) ==
  /\ s.read \in 0..4
  /\ Counts(s.remaining, n, s.read)
  /\ Quiet(Begin(w, s.read) \o p, w)

\* Where there is nothing to read, nothing has matched.
LEMMA SearchesNothing ==
  ASSUME NEW s, NEW w \in Word, NEW n \in {0, 5}, Searches(s, << >>, w, n)
  PROVE  s.read = 0 /\ s.remaining = n
<1>1. s.read \in 0..4 /\ s.read \in 0..5 /\ << >> \in Seq(Symbol) /\ Len(<< >>) = 0
  BY EmptySeq DEF Searches
<1> DEFINE x == Begin(w, s.read) \o << >>
<1>2. x \in Seq(Symbol) /\ Len(x) = s.read + Len(<< >>) /\ \A i \in 1..s.read : x[i] = w[i]
  BY <1>1, BeginIs
<1>3. Quiet(x, w) /\ Len(w) = 5
  BY DEF Searches, Word
<1> HIDE DEF x
<1>4. s.read = 0
  <2> SUFFICES ASSUME s.read # 0 PROVE FALSE
    OBVIOUS
  <2>1. Len(x) = s.read /\ s.read \in 1..5 /\ s.read \in 1..s.read
    BY <1>1, <1>2
  <2>2. x # << >> /\ x[Len(x)] = w[s.read]
    BY <1>1, <1>2, <2>1
  <2> QED
    BY <1>3, <2>1, <2>2 DEF Quiet
<1> QED
  BY <1>4, CountsFrom DEF Searches

\* A quiet line that is about to be read.
LEMMA SearchesLine ==
  ASSUME NEW s, NEW w \in Word, NEW n \in {0, 5}, s.read = 0, s.remaining = n,
         NEW p \in Seq(Symbol), Quiet(p, w)
  PROVE  Searches(s, p, w, n)
<1>1. Counts(s.remaining, n, s.read) /\ 0 \in 0..4
  BY CountsFrom
<1>2. Begin(w, s.read) \o p = p
  BY BeginNone
<1> QED
  BY <1>1, <1>2 DEF Searches

\* Nothing is found in it, character by character.
LEMMA SearchesOn ==
  ASSUME NEW s, SnifferType(s), NEW w \in Word, NEW n \in {0, 5}, NEW next,
         NEW p \in Seq(Symbol), p # << >>, Searches(s, p, w, n),
         NEW t, t = ReadCommand(s, Head(p), w, next)
  PROVE  /\ t.state = s.state /\ t.user = s.user /\ t.pass = s.pass
         /\ t.check_read = s.check_read
         /\ Searches(t, Tail(p), w, n) \/ Searches(t, Tail(p), w, 5)
<1> DEFINE k == s.read
           c == Head(p)
           x == Begin(w, k) \o p
           q == Tail(p)
<1>1. k \in 0..4 /\ k \in 0..5 /\ k + 1 \in 0..5 /\ Counts(s.remaining, n, k) /\ Quiet(x, w)
  BY DEF Searches
<1>2. w \in Seq(Symbol) /\ Len(w) = 5
  BY DEF Word
<1>3. c = p[1] /\ q \in Seq(Symbol) /\ Len(p) \in Nat /\ Len(p) = Len(q) + 1
      /\ Len(q) \in Nat /\ \A i \in 1..Len(q) : q[i] = p[i + 1]
  BY HeadTailProperties, LenProperties
<1>4. /\ x \in Seq(Symbol) /\ Len(x) = k + Len(p)
      /\ \A i \in 1..k : x[i] = w[i]
      /\ \A i \in 1..Len(p) : x[k + i] = p[i]
  BY <1>1, BeginIs
<1>5. Matches(w, k, c) <=> w[k + 1] = c
  BY <1>1, <1>2 DEF Matches
<1> HIDE DEF x, k, c, q
<1>6. CASE ~Matches(w, k, c) /\ k = 0
  <2>1. t = s
    BY <1>6 DEF ReadCommand, k, c
  <2>2. \A i \in 1..Len(q) : q[i] = x[1 + i]
    <3>1. \A i \in 1..Len(p) : x[i] = p[i]
      BY <1>4, <1>6
    <3>2. \A i \in 1..Len(q) : 1 + i \in 1..Len(p) /\ i + 1 = 1 + i
      BY <1>3
    <3> QED
      BY <1>3, <3>1, <3>2
  <2>3. Len(x) = 1 + Len(q)
    BY <1>3, <1>4, <1>6
  <2>4. Quiet(q, w)
    BY <1>1, <1>3, <1>4, <2>2, <2>3, QuietBehind
  <2>5. s.read = 0 /\ s.remaining = n
    <3>1. k = 0 /\ Counts(s.remaining, n, 0)
      BY <1>1, <1>6
    <3> QED
      BY <3>1, CountsFrom DEF k
  <2>6. Searches(s, q, w, n)
    BY <1>3, <2>4, <2>5, SearchesLine
  <2> QED
    BY <2>1, <2>6 DEF q
<1>7. CASE ~Matches(w, k, c) /\ k # 0
  <2>1. t = [s EXCEPT !.read = 0, !.remaining = 5]
    BY <1>2, <1>7 DEF ReadCommand, k, c
  <2>2. /\ t.read = 0 /\ t.remaining = 5 /\ t.state = s.state /\ t.user = s.user
        /\ t.pass = s.pass /\ t.check_read = s.check_read
    BY <2>1 DEF SnifferType
  <2>3. \A i \in 1..Len(q) : q[i] = x[(k + 1) + i]
    BY <1>1, <1>3, <1>4
  <2>4. Len(x) = (k + 1) + Len(q)
    BY <1>1, <1>3, <1>4
  <2>5. Quiet(q, w)
    <3>1. k + 1 \in Nat
      BY <1>1
    <3> QED
      BY <1>1, <1>3, <1>4, <2>3, <2>4, <3>1, QuietBehind
  <2>6. Searches(t, q, w, 5)
    BY <1>3, <2>2, <2>5, SearchesLine
  <2> QED
    BY <2>2, <2>6 DEF q
<1>8. CASE Matches(w, k, c)
  <2>1. \A i \in 1..(k + 1) : x[i] = w[i]
    BY <1>1, <1>3, <1>4, <1>5, <1>8
  <2>2. k # 4
    <3> SUFFICES ASSUME k = 4 PROVE FALSE
      OBVIOUS
    <3>1. 0 \in 0..(Len(x) - 5)
      BY <1>3, <1>4
    <3>2. \A i \in 0..(Len(x) - 5) : \E j \in 1..5 : x[i + j] # w[j]
      BY <1>1, <1>2 DEF Quiet
    <3>3. PICK j \in 1..5 : x[0 + j] # w[j]
      BY <3>1, <3>2
    <3> QED
      BY <2>1, <3>3
  <2>3. Counts(Dec(s.remaining), n, k + 1) /\ Dec(s.remaining) # 0
    <3>1. ~(n = 5 /\ k = 4)
      BY <2>2
    <3> QED
      BY <1>1, <3>1, CountsDown
  <2> DEFINE r == k + 1
             m == Dec(s.remaining)
  <2>4. t = [s EXCEPT !.read = r, !.remaining = m]
    BY <1>8, <2>3 DEF ReadCommand, k, c
  <2>5. r \in 0..4 /\ r \in 0..5 /\ Counts(m, n, r)
    BY <1>1, <2>2, <2>3
  <2> HIDE DEF r, m
  <2>6. /\ t.read = r /\ t.remaining = m /\ t.state = s.state /\ t.user = s.user
        /\ t.pass = s.pass /\ t.check_read = s.check_read
    BY <2>4 DEF SnifferType
  <2> DEFINE y == Begin(w, r) \o q
  <2>7. /\ y \in Seq(Symbol) /\ Len(y) = r + Len(q)
        /\ \A i \in 1..r : y[i] = w[i]
        /\ \A i \in 1..Len(q) : y[r + i] = q[i]
    BY <1>3, <2>5, BeginIs
  <2> HIDE DEF y
  <2>8. Len(y) = Len(x)
    BY <1>1, <1>3, <1>4, <2>7 DEF r
  <2>9. ASSUME NEW i \in 1..Len(x) PROVE y[i] = x[i]
    <3>1. CASE i <= r
      <4>1. i \in 1..r /\ i \in 1..(k + 1)
        BY <1>1, <1>3, <1>4, <3>1 DEF r
      <4> QED
        BY <2>1, <2>7, <4>1
    <3>2. CASE i > r
      <4>1. i - r \in 1..Len(q) /\ i - k \in 1..Len(p) /\ (i - r) + 1 = i - k
            /\ r + (i - r) = i /\ k + (i - k) = i
        BY <1>1, <1>3, <1>4, <3>2 DEF r
      <4>2. y[i] = q[i - r] /\ x[i] = p[i - k]
        BY <1>4, <2>7, <4>1
      <4> QED
        BY <1>3, <4>1, <4>2
    <3> QED
      BY <1>1, <1>3, <1>4, <3>1, <3>2 DEF r
  <2>10. y = x
    BY <1>4, <2>7, <2>8, <2>9, SeqEqual
  <2> QED
    BY <1>1, <2>5, <2>6, <2>10 DEF Searches, y, q
<1> QED
  BY <1>6, <1>7, <1>8

\* A command is read, beginning with its word.  With a counter that started from
\* 0 it may be one character further than the word, which was not noticed.
FindsWord(s, p, w, n, line) ==
  /\ s.read \in 0..5 /\ (n = 5 => s.read # 5)
  /\ Counts(s.remaining, n, s.read)
  /\ p = Left(line, s.read)

\* One character of it makes t of s: the word goes on, or it is found, or it was missed.
Found(s, t, q, w, n, next, rest) ==
  /\ t.user = s.user /\ t.pass = s.pass
  /\ \/ t.state = s.state /\ FindsWord(t, q, w, n, w \o rest)
     \/ n = 5 /\ t.state = next /\ t.read = 0 /\ t.remaining = 0 /\ q = rest
     \/ n = 0 /\ t.state = s.state /\ Searches(t, q, w, 5)

LEMMA FindsOn ==
  ASSUME NEW s, SnifferType(s), NEW w \in Word, NEW n \in {0, 5}, NEW next,
         NEW rest \in Seq(Symbol), rest # << >>, n = 0 => Quiet(rest, w),
         NEW p, FindsWord(s, p, w, n, w \o rest),
         NEW t, t = ReadCommand(s, Head(p), w, next)
  PROVE  p # << >> /\ Found(s, t, Tail(p), w, n, next, rest)
<1> DEFINE k == s.read
           c == Head(p)
           x == w \o rest
<1>1. w \in Seq(Symbol) /\ Len(w) = 5 /\ Len(rest) \in Nat \ {0}
  BY LenProperties, EmptySeq DEF Word
<1>2. /\ x \in Seq(Symbol) /\ Len(x) = 5 + Len(rest)
      /\ \A i \in 1..(5 + Len(rest)) : x[i] = IF i <= 5 THEN w[i] ELSE rest[i - 5]
  <2>1. /\ x \in Seq(Symbol) /\ Len(x) = Len(w) + Len(rest)
        /\ \A i \in 1..(Len(w) + Len(rest)) :
             x[i] = IF i <= Len(w) THEN w[i] ELSE rest[i - Len(w)]
    BY <1>1, ConcatProperties
  <2> QED
    BY <1>1, <2>1
<1>3. k \in 0..5 /\ (n = 5 => k # 5) /\ Counts(s.remaining, n, k) /\ p = Left(x, k)
  BY DEF FindsWord
<1>4. k \in 0..Len(x) /\ k < Len(x)
  BY <1>1, <1>2, <1>3
<1>5. Left(x, 5) = rest
  BY <1>1, LeftOfConcat
<1> HIDE DEF x, k, c
<1>6. p # << >> /\ c = x[k + 1] /\ Tail(p) = Left(x, k + 1)
  BY <1>2, <1>3, <1>4, LeftNext DEF c
<1>7. CASE k = 5
  <2>1. ~Matches(w, k, c) /\ n = 0
    BY <1>1, <1>3, <1>7 DEF Matches
  <2>2. t = [s EXCEPT !.read = 0, !.remaining = 5]
    BY <1>1, <1>7, <2>1 DEF ReadCommand, k, c
  <2>3. /\ t.read = 0 /\ t.remaining = 5 /\ t.state = s.state /\ t.user = s.user
        /\ t.pass = s.pass
    BY <2>2 DEF SnifferType
  <2>4. p = rest
    BY <1>3, <1>5, <1>7
  <2>5. Tail(rest) \in Seq(Symbol) /\ Len(Tail(rest)) = Len(rest) - 1
        /\ \A i \in 1..Len(Tail(rest)) : Tail(rest)[i] = rest[i + 1]
    BY HeadTailProperties
  <2>6. Quiet(Tail(rest), w)
    <3>1. Len(rest) = 1 + Len(Tail(rest))
      BY <1>1, <2>5
    <3>2. \A i \in 1..Len(Tail(rest)) : Tail(rest)[i] = rest[1 + i]
      BY <2>5
    <3> DEFINE y == Tail(rest)
    <3>3. y \in Seq(Symbol) /\ Len(rest) = 1 + Len(y) /\ \A i \in 1..Len(y) : y[i] = rest[1 + i]
      BY <2>5, <3>1, <3>2
    <3> HIDE DEF y
    <3>4. Quiet(y, w)
      BY <2>1, <3>3, QuietBehind
    <3> QED
      BY <3>4 DEF y
  <2>7. Searches(t, Tail(rest), w, 5)
    BY <2>3, <2>5, <2>6, SearchesLine
  <2> QED
    BY <1>6, <2>1, <2>3, <2>4, <2>7 DEF Found
<1>8. CASE k # 5
  <2>1. k \in 0..4 /\ k + 1 \in 0..5 /\ c = w[k + 1] /\ Matches(w, k, c)
    <3>1. k \in 0..4 /\ k + 1 \in 0..5 /\ k + 1 \in 1..(5 + Len(rest)) /\ k + 1 <= 5 /\ k < Len(w)
      BY <1>1, <1>3, <1>8
    <3>2. c = w[k + 1]
      BY <1>2, <1>6, <3>1
    <3> QED
      BY <3>1, <3>2 DEF Matches
  <2>2. Counts(Dec(s.remaining), n, k + 1) /\ (Dec(s.remaining) = 0 <=> n = 5 /\ k = 4)
    BY <1>3, CountsDown
  <2>3. CASE n = 5 /\ k = 4
    <3>1. t = [s EXCEPT !.state = next, !.read = 0, !.remaining = 0]
      BY <2>1, <2>2, <2>3 DEF ReadCommand, k, c
    <3>2. /\ t.read = 0 /\ t.remaining = 0 /\ t.state = next /\ t.user = s.user
          /\ t.pass = s.pass
      BY <3>1 DEF SnifferType
    <3>3. Tail(p) = rest
      BY <1>5, <1>6, <2>3
    <3> QED
      BY <1>6, <2>3, <3>2, <3>3 DEF Found
  <2>4. CASE ~(n = 5 /\ k = 4)
    <3> DEFINE r == k + 1
               m == Dec(s.remaining)
    <3>1. t = [s EXCEPT !.read = r, !.remaining = m]
      BY <2>1, <2>2, <2>4 DEF ReadCommand, k, c
    <3>2. r \in 0..5 /\ (n = 5 => r # 5) /\ Counts(m, n, r) /\ Tail(p) = Left(x, r)
      BY <1>6, <2>1, <2>2, <2>4
    <3> HIDE DEF r, m
    <3>3. /\ t.read = r /\ t.remaining = m /\ t.state = s.state /\ t.user = s.user
          /\ t.pass = s.pass
      BY <3>1 DEF SnifferType
    <3> QED
      BY <1>6, <3>2, <3>3 DEF FindsWord, Found, x
  <2> QED
    BY <2>3, <2>4
<1> QED
  BY <1>7, <1>8

\* A field after k characters of a text holds as many of them as it has room for.
Room(k) == IF k <= CredentialsSize THEN k ELSE CredentialsSize
Holds(f, n, text) == n <= Len(f) /\ \A i \in 1..n : f[i] = text[i]

\* One character more, and where the field is full.
LEMMA RoomIs ==
  ASSUME NEW k \in Nat
  PROVE  /\ Room(k) \in 0..CredentialsSize /\ Room(k) <= k
         /\ Room(k) < CredentialsSize => Room(k) = k /\ Room(k + 1) = k + 1
         /\ ~(Room(k) < CredentialsSize) => Room(k + 1) = Room(k)
BY SnifferAssumption DEF Room

\* A character of the text that is stored.
LEMMA StoredHolds ==
  ASSUME NEW f \in Field, NEW n \in Nat, n < CredentialsSize,
         NEW text, Holds(f, n, text), text[n + 1] \in Symbol
  PROVE  Holds(Stored(f, n, text[n + 1]), n + 1, text)
<1>1. Len(f) \in Nat /\ n \in 0..Len(f) /\ f \in Seq(Symbol)
  BY FieldLength DEF Holds, Field
<1>2. \A i \in 1..n : f[i] \in Symbol
  <2>1. \A i \in 1..n : i \in 1..Len(f)
    BY <1>1
  <2> QED
    BY <1>1, <2>1, ElementOfSeq
<1> DEFINE g == Kept(f, n)
           c == text[n + 1]
<1>3. /\ SubSeq(f, 1, n) \in Seq(Symbol)
      /\ Len(SubSeq(f, 1, n)) = IF 1 <= n THEN n - 1 + 1 ELSE 0
      /\ \A i \in 1..(n - 1 + 1) : SubSeq(f, 1, n)[i] = f[1 + i - 1]
  BY <1>2, SubSeqProperties
<1>4. g \in Seq(Symbol) /\ Len(g) = n /\ \A i \in 1..n : g[i] = f[i]
  BY <1>3 DEF Kept
<1> HIDE DEF g
<1>5. /\ Len(Append(g, c)) = n + 1 /\ Append(g, c)[n + 1] = c
      /\ \A i \in 1..n : Append(g, c)[i] = g[i]
  BY <1>4, AppendProperties
<1>6. \A i \in 1..(n + 1) : i \in 1..n \/ i = n + 1
  OBVIOUS
<1>7. \A i \in 1..n : f[i] = text[i]
  BY DEF Holds
<1> QED
  BY <1>4, <1>5, <1>6, <1>7 DEF Holds, Stored, g

\* At its end the field is the text cut to its size.
LEMMA KeptIsCut ==
  ASSUME NEW f \in Field, NEW text \in Seq(Symbol), Holds(f, Room(Len(text)), text)
  PROVE  Kept(f, Room(Len(text))) = Cut(text)
<1> DEFINE n == Room(Len(text))
<1>1. Len(text) \in Nat /\ Len(f) \in Nat /\ f \in Seq(Symbol)
  BY LenProperties, FieldLength DEF Field
<1>2. n \in Nat /\ n <= Len(text) /\ n <= CredentialsSize /\ CredentialsSize \in Nat
      /\ (IF Len(text) <= CredentialsSize THEN n = Len(text) ELSE n = CredentialsSize)
  BY <1>1, SnifferAssumption DEF Room
<1>3. n <= Len(f) /\ \A i \in 1..n : f[i] = text[i]
  BY DEF Holds
<1> HIDE DEF n
<1>4. \A i \in 1..n : f[i] \in Symbol /\ text[i] \in Symbol
  <2>1. \A i \in 1..n : i \in 1..Len(text)
    BY <1>1, <1>2
  <2> QED
    BY <1>3, <2>1, ElementOfSeq
<1>5. /\ SubSeq(f, 1, n) \in Seq(Symbol)
      /\ Len(SubSeq(f, 1, n)) = IF 1 <= n THEN n - 1 + 1 ELSE 0
      /\ \A i \in 1..(n - 1 + 1) : SubSeq(f, 1, n)[i] = f[1 + i - 1]
  BY <1>2, <1>4, SubSeqProperties
<1>6. /\ SubSeq(text, 1, n) \in Seq(Symbol)
      /\ Len(SubSeq(text, 1, n)) = IF 1 <= n THEN n - 1 + 1 ELSE 0
      /\ \A i \in 1..(n - 1 + 1) : SubSeq(text, 1, n)[i] = text[1 + i - 1]
  BY <1>2, <1>4, SubSeqProperties
<1>7. SubSeq(f, 1, n) = SubSeq(text, 1, n)
  <2>1. Len(SubSeq(f, 1, n)) = n /\ Len(SubSeq(text, 1, n)) = n
    BY <1>2, <1>5, <1>6
  <2>2. \A i \in 1..n : SubSeq(f, 1, n)[i] = SubSeq(text, 1, n)[i]
    BY <1>2, <1>3, <1>5, <1>6
  <2> QED
    BY <1>5, <1>6, <2>1, <2>2, SeqEqual
<1>8. SubSeq(text, 1, n) = Cut(text)
  <2>1. CASE Len(text) <= CredentialsSize
    BY <1>2, <2>1, SubSeqFull DEF Cut
  <2>2. CASE ~(Len(text) <= CredentialsSize)
    BY <1>2, <2>2 DEF Cut
  <2> QED
    BY <2>1, <2>2
<1> QED
  BY <1>7, <1>8 DEF Kept, n

-----------------------------------------------------------------------------
(* The lines of a plain dialogue *)

UserLine(l) == UserWord \o (l.user \o Eol)
PassLine(l) == PassWord \o (l.pass \o Eol)
Answer(verdict, text) == Heard(verdict \o text \o Eol)

LEMMA Eols == Eol \in Seq(Symbol) /\ Len(Eol) = 1 /\ Eol[1] = "\n" /\ Eol # << >>
BY Words DEF Eol

\* The characters of the words.
LEMMA Letters ==
  /\ UserWord[1] = "u" /\ UserWord[2] = "s" /\ UserWord[3] = "e" /\ UserWord[4] = "r"
  /\ UserWord[5] = " "
  /\ PassWord[1] = "p" /\ PassWord[2] = "a" /\ PassWord[3] = "s" /\ PassWord[4] = "s"
  /\ PassWord[5] = " "
  /\ Ok[1] = "+" /\ Ok[2] = "o" /\ Ok[3] = "k"
  /\ Err[1] = "-" /\ Err[2] = "e" /\ Err[3] = "r" /\ Err[4] = "r"
BY DEF UserWord, PassWord, Ok, Err

\* No command word has a line end in it, and PASS has none of the u that USER begins with.
LEMMA NoneOf ==
  /\ \A j \in 1..5 : UserWord[j] # "\n" /\ PassWord[j] # "\n"
  /\ \A j \in 1..5 : PassWord[j] # "u"
<1>1. 1..5 = {1, 2, 3, 4, 5}
  OBVIOUS
<1> QED
  BY <1>1, Letters

\* A login of the dialogue: its fields and its lines.
LEMMA LoginIs ==
  ASSUME PlainDialogue, NEW l \in Logins, NEW f \in {l.user, l.pass}
  PROVE  /\ f \in Seq(Symbol) /\ Len(f) \in Nat /\ 6 + Len(f) <= Pop3Buff
         /\ \A i \in 1..Len(f) : f[i] \notin {"\n", "\r"}
         /\ f \o Eol \in Seq(Symbol) /\ Len(f \o Eol) = Len(f) + 1 /\ f \o Eol # << >>
         /\ \A i \in 1..Len(f) : (f \o Eol)[i] = f[i]
         /\ (f \o Eol)[Len(f) + 1] = "\n"
         /\ Quiet(f \o Eol, UserWord)
<1>1. l \in [user : Seq(Symbol), pass : Seq(Symbol)]
  BY SnifferAssumption
<1>2. f \in Seq(Symbol) /\ Len(f) \in Nat
  BY <1>1, LenProperties
<1>3. 5 + Len(f) + 1 <= Pop3Buff /\ Pop3Buff \in Nat
      /\ Quiet(f \o Eol, UserWord) /\ \A i \in 1..Len(f) : f[i] \notin {"\n", "\r"}
  BY WordLengths, SnifferAssumption DEF PlainDialogue
<1>4. /\ f \o Eol \in Seq(Symbol) /\ Len(f \o Eol) = Len(f) + Len(Eol)
      /\ \A i \in 1..(Len(f) + Len(Eol)) :
           (f \o Eol)[i] = IF i <= Len(f) THEN f[i] ELSE Eol[i - Len(f)]
  BY <1>2, Eols, ConcatProperties
<1>5. Len(f \o Eol) = Len(f) + 1 /\ f \o Eol # << >>
  BY <1>2, <1>4, Eols, EmptySeq
<1>6. /\ \A i \in 1..Len(f) : (f \o Eol)[i] = f[i]
      /\ (f \o Eol)[Len(f) + 1] = Eol[1]
  BY <1>2, <1>4, Eols
<1> QED
  BY <1>2, <1>3, <1>4, <1>5, <1>6, Eols

\* What is heard of a line are characters.
LEMMA HeardIs ==
  ASSUME NEW x \in Seq(Symbol) PROVE Heard(x) \in Seq(Symbol)
<1>1. CASE Len(x) <= Pop3Buff
  BY <1>1 DEF Heard
<1>2. CASE ~(Len(x) <= Pop3Buff)
  <2>1. Pop3Buff \in Nat /\ Len(x) \in Nat
    BY SnifferAssumption, LenProperties
  <2>2. \A i \in 1..Pop3Buff : i \in 1..Len(x)
    BY <1>2, <2>1
  <2>3. \A i \in 1..Pop3Buff : x[i] \in Symbol
    BY <2>2, ElementOfSeq
  <2>4. SubSeq(x, 1, Pop3Buff) \in Seq(Symbol)
    BY <2>1, <2>3, SubSeqProperties
  <2> QED
    BY <1>2, <2>4 DEF Heard
<1> QED
  BY <1>1, <1>2

\* The sniffer hears a command whole.
LEMMA CommandLine ==
  ASSUME PlainDialogue, NEW l \in Logins, NEW f \in {l.user, l.pass}, NEW w \in Word
  PROVE  /\ w \o (f \o Eol) \in Seq(Symbol) /\ Len(w \o (f \o Eol)) = 6 + Len(f)
         /\ Heard(w \o f \o Eol) = w \o (f \o Eol)
         /\ \A i \in 1..5 : (w \o (f \o Eol))[i] = w[i]
         /\ \A i \in 1..(Len(f) + 1) : (w \o (f \o Eol))[5 + i] = (f \o Eol)[i]
<1> DEFINE g == f \o Eol
<1>1. /\ w \in Seq(Symbol) /\ Len(w) = 5 /\ f \in Seq(Symbol) /\ Len(f) \in Nat
      /\ g \in Seq(Symbol) /\ Len(g) = Len(f) + 1 /\ 6 + Len(f) <= Pop3Buff
  BY LoginIs DEF Word
<1>2. w \o f \o Eol = w \o g
  <2>1. w \in Seq(Symbol) /\ f \in Seq(Symbol) /\ Eol \in Seq(Symbol)
    BY <1>1, Eols
  <2>2. w \o f \o Eol = w \o (f \o Eol)
    BY <2>1, ConcatAssociative
  <2> QED
    BY <2>2
<1> HIDE DEF g
<1> DEFINE z == w \o g
<1>3. /\ z \in Seq(Symbol) /\ Len(z) = Len(w) + Len(g)
      /\ \A i \in 1..(Len(w) + Len(g)) : z[i] = IF i <= Len(w) THEN w[i] ELSE g[i - Len(w)]
  BY <1>1, ConcatProperties
<1> HIDE DEF z
<1>4. Len(z) = 6 + Len(f) /\ \A i \in 1..(6 + Len(f)) : z[i] = IF i <= 5 THEN w[i] ELSE g[i - 5]
  BY <1>1, <1>3
<1>5. \A i \in 1..5 : z[i] = w[i]
  BY <1>1, <1>4
<1>6. \A i \in 1..(Len(f) + 1) : z[5 + i] = g[i]
  BY <1>1, <1>4
<1>7. Heard(z) = z
  BY <1>1, <1>4 DEF Heard
<1> QED
  BY <1>2, <1>3, <1>4, <1>5, <1>6, <1>7 DEF g, z

\* Where PASS is sent, USER is not found.
LEMMA PassLineQuiet ==
  ASSUME PlainDialogue, NEW l \in Logins
  PROVE  Quiet(PassLine(l), UserWord)
<1> DEFINE f == l.pass
           g == f \o Eol
           x == PassWord \o g
<1>1. Quiet(g, UserWord) /\ Len(f) \in Nat /\ Len(g) = Len(f) + 1 /\ g \in Seq(Symbol)
      /\ g[Len(f) + 1] = "\n" /\ g # << >>
  BY LoginIs
<1>2. /\ x \in Seq(Symbol) /\ Len(x) = 6 + Len(f) /\ \A i \in 1..5 : x[i] = PassWord[i]
      /\ \A i \in 1..(Len(f) + 1) : x[5 + i] = g[i]
  BY CommandLine, CommandWords
<1> HIDE DEF x, g, f
<1>3. \A i \in 0..(Len(g) - 5) : \E j \in 1..5 : g[i + j] # UserWord[j]
  BY <1>1, WordLengths DEF Quiet
<1>4. ASSUME NEW i \in 0..(Len(x) - 5) PROVE \E j \in 1..5 : x[i + j] # UserWord[j]
  <2>1. CASE i < 5
    <3>1. i + 1 \in 1..5 /\ 1 \in 1..5
      BY <1>1, <1>2, <2>1
    <3>2. x[i + 1] # "u"
      BY <1>2, <3>1, NoneOf
    <3> QED
      BY <3>1, <3>2, Letters
  <2>2. CASE i >= 5
    <3>1. i - 5 \in 0..(Len(g) - 5)
      BY <1>1, <1>2, <2>2
    <3>2. PICK j \in 1..5 : g[(i - 5) + j] # UserWord[j]
      BY <1>3, <3>1
    <3>3. (i - 5) + j \in 1..(Len(f) + 1) /\ 5 + ((i - 5) + j) = i + j
      BY <1>1, <1>2, <2>2
    <3> QED
      BY <1>2, <3>2, <3>3
  <2> QED
    BY <1>1, <1>2, <2>1, <2>2
<1>5. \A j \in 1..5 : x[Len(x)] # UserWord[j]
  <2>1. Len(f) + 1 \in 1..(Len(f) + 1) /\ 5 + (Len(f) + 1) = Len(x)
    BY <1>1, <1>2
  <2>2. x[Len(x)] = "\n"
    BY <1>1, <1>2, <2>1
  <2> QED
    BY <2>2, NoneOf
<1>6. Quiet(x, UserWord)
  BY <1>4, <1>5, WordLengths DEF Quiet
<1> QED
  BY <1>6 DEF PassLine, x, g, f

\* Another command, and the line end of the greeting.
LEMMA ShortLines ==
  ASSUME PlainDialogue, NEW l \in Logins
  PROVE  /\ 6 <= Pop3Buff
         /\ \A w \in {UserWord, PassWord} :
              Quiet(Capa \o Eol, w) /\ Quiet(Eol, w) /\ Quiet(<< >>, w)
         /\ \A v \in {Ok, Err, Capa} :
              /\ v \o Eol \in Seq(Symbol) /\ Len(v \o Eol) = Len(v) + 1
              /\ \A i \in 1..Len(v) : (v \o Eol)[i] = v[i]
              /\ (v \o Eol)[Len(v) + 1] = "\n"
              /\ Heard(v \o Eol) = v \o Eol
<1>1. 6 <= Pop3Buff /\ Pop3Buff \in Nat
  <2>1. Len(l.user) \in Nat /\ 6 + Len(l.user) <= Pop3Buff
    BY LoginIs
  <2> QED
    BY <2>1, SnifferAssumption
<1>2. ASSUME NEW v \in {Ok, Err, Capa}
      PROVE  /\ v \o Eol \in Seq(Symbol) /\ Len(v \o Eol) = Len(v) + 1
             /\ \A i \in 1..Len(v) : (v \o Eol)[i] = v[i]
             /\ (v \o Eol)[Len(v) + 1] = "\n"
             /\ Heard(v \o Eol) = v \o Eol
  <2> DEFINE z == v \o Eol
             n == Len(v)
  <2>1. v \in Seq(Symbol) /\ n \in {3, 4}
    <3>1. Len(Capa) = 4
      BY DEF Capa
    <3> QED
      BY <3>1, Words, WordLengths
  <2>2. /\ z \in Seq(Symbol) /\ Len(z) = n + Len(Eol)
        /\ \A i \in 1..(n + Len(Eol)) : z[i] = IF i <= n THEN v[i] ELSE Eol[i - n]
    BY <2>1, Eols, ConcatProperties
  <2> HIDE DEF z, n
  <2>3. Len(z) = n + 1 /\ Len(z) <= Pop3Buff
    BY <1>1, <2>1, <2>2, Eols
  <2>4. z[n + 1] = Eol[1] /\ \A i \in 1..n : z[i] = v[i]
    BY <2>1, <2>2, Eols
  <2>5. Heard(z) = z
    BY <2>3 DEF Heard
  <2> QED
    BY <2>2, <2>3, <2>4, <2>5, Eols DEF z, n
<1>3. ASSUME NEW w \in {UserWord, PassWord} PROVE Quiet(Capa \o Eol, w)
  <2> DEFINE x == Capa \o Eol
  <2>1. Len(x) = 5 /\ x[5] = "\n" /\ x[1] = "c" /\ Len(w) = 5
    <3>1. Len(Capa) = 4 /\ Capa[1] = "c" /\ 1 \in 1..4
      BY DEF Capa
    <3>2. /\ Len(x) = Len(Capa) + 1 /\ x[Len(Capa) + 1] = "\n"
          /\ \A i \in 1..Len(Capa) : x[i] = Capa[i]
      BY <1>2
    <3> QED
      BY <3>1, <3>2, WordLengths
  <2>2. w[1] # "c" /\ \A j \in 1..5 : w[j] # "\n"
    BY Letters, NoneOf
  <2> HIDE DEF x
  <2>3. \A i \in 0..(Len(x) - Len(w)) : i = 0 /\ x[i + 1] # w[1] /\ 1 \in 1..Len(w)
    BY <2>1, <2>2
  <2>4. Quiet(x, w)
    BY <2>1, <2>2, <2>3 DEF Quiet
  <2> QED
    BY <2>4 DEF x
<1>4. ASSUME NEW w \in {UserWord, PassWord} PROVE Quiet(Eol, w) /\ Quiet(<< >>, w)
  <2>1. Len(w) = 5 /\ \A j \in 1..5 : w[j] # "\n"
    BY WordLengths, NoneOf
  <2>2. Len(Eol) = 1 /\ Eol[1] = "\n" /\ Len(<< >>) = 0
    BY Eols, EmptySeq
  <2> QED
    BY <2>1, <2>2 DEF Quiet
<1> QED
  BY <1>1, <1>2, <1>3, <1>4

\* An answer as it is heard: it begins with its verdict.
LEMMA AnswerIs ==
  ASSUME PlainDialogue, NEW l \in Logins, NEW text \in Texts, NEW v \in {Ok, Err}
  PROVE  /\ Answer(v, text) \in Seq(Symbol) /\ Len(v) < Len(Answer(v, text))
         /\ \A i \in 1..Len(v) : Answer(v, text)[i] = v[i]
<1> DEFINE y == text \o Eol
           x == v \o y
           n == Len(v)
<1>1. v \in Seq(Symbol) /\ text \in Seq(Symbol) /\ n \in {3, 4} /\ Len(text) \in Nat
  BY Words, WordLengths, SnifferAssumption, LenProperties
<1>2. y \in Seq(Symbol) /\ Len(y) = Len(text) + 1 /\ v \o text \o Eol = x
  <2>1. Len(text \o Eol) = Len(text) + Len(Eol) /\ text \o Eol \in Seq(Symbol)
    BY <1>1, Eols, ConcatProperties
  <2> QED
    BY <1>1, <2>1, Eols, ConcatAssociative
<1> HIDE DEF y
<1>3. /\ x \in Seq(Symbol) /\ Len(x) = n + Len(y)
      /\ \A i \in 1..(n + Len(y)) : x[i] = IF i <= n THEN v[i] ELSE y[i - n]
  BY <1>1, <1>2, ConcatProperties
<1> HIDE DEF x, n
<1>4. 6 <= Pop3Buff /\ Pop3Buff \in Nat
  BY ShortLines, SnifferAssumption
<1>5. Answer(v, text) = Heard(x) /\ Heard(x) \in Seq(Symbol)
  BY <1>2, <1>3, HeardIs DEF Answer
<1>6. CASE Len(x) <= Pop3Buff
  <2>1. Heard(x) = x /\ n < Len(x) /\ \A i \in 1..n : x[i] = v[i]
    BY <1>1, <1>2, <1>3, <1>6 DEF Heard
  <2> QED
    BY <1>5, <2>1 DEF n
<1>7. CASE ~(Len(x) <= Pop3Buff)
  <2>1. \A i \in 1..Pop3Buff : x[i] \in Symbol
    <3>1. \A i \in 1..Pop3Buff : i \in 1..Len(x)
      BY <1>1, <1>2, <1>3, <1>4, <1>7
    <3> QED
      BY <1>3, <3>1, ElementOfSeq
  <2>2. /\ Len(SubSeq(x, 1, Pop3Buff)) = IF 1 <= Pop3Buff THEN Pop3Buff - 1 + 1 ELSE 0
        /\ \A i \in 1..(Pop3Buff - 1 + 1) : SubSeq(x, 1, Pop3Buff)[i] = x[1 + i - 1]
    BY <1>4, <2>1, SubSeqProperties
  <2>3. n < Len(SubSeq(x, 1, Pop3Buff)) /\ \A i \in 1..n : SubSeq(x, 1, Pop3Buff)[i] = v[i]
    BY <1>1, <1>2, <1>3, <1>4, <2>2
  <2> QED
    BY <1>5, <1>7, <2>3 DEF Heard, n
<1> QED
  BY <1>6, <1>7

-----------------------------------------------------------------------------
(* Where the sniffer stands in such a line, and what a character more makes of it *)

\* The greeting, and what a server of another protocol says.
Greeted(s, p) ==
  /\ s.state = "POP3_INIT" /\ s.read \in 0..2 /\ s.remaining = 3 - s.read
  /\ p = Left(Ok \o Eol, s.read)
Foreign(s, p) ==
  \/ s.state = "POP3_INIT" /\ s.read = 0 /\ p \in {Err \o Eol, Capa \o Eol}
  \/ s.state = "POP3_FINISH" /\ p = << >>

\* k characters of what goes into the field f were read, of which it holds r.
Fills(r, p, f, text) ==
  \E k \in 0..Len(text) :
    p = Left(text \o Eol, k) /\ r = Room(k) /\ Holds(f, r, text)

HuntsUser(s, p, n) == s.state = "POP3_USER_COMMAND" /\ Searches(s, p, UserWord, n)
TakesUser(s, p, l, n) ==
  s.state = "POP3_USER_COMMAND" /\ FindsWord(s, p, UserWord, n, UserLine(l))
ReadsUser(s, p, l) == s.state = "POP3_READ_USER" /\ Fills(s.read, p, s.user, l.user)
HuntsPass(s, p, l) ==
  s.state = "POP3_PASS_COMMAND" /\ s.user = Cut(l.user) /\ Searches(s, p, PassWord, 5)
TakesPass(s, p, l) ==
  /\ s.state = "POP3_PASS_COMMAND" /\ s.user = Cut(l.user)
  /\ FindsWord(s, p, PassWord, 5, PassLine(l))
ReadsPass(s, p, l) ==
  /\ s.state = "POP3_READ_PASS" /\ s.user = Cut(l.user) /\ s.remaining = 0
  /\ Fills(s.read, p, s.pass, l.pass)

\* Both commands were read.  The beginning of a verdict.
Knows(s, l) == s.user = Cut(l.user) /\ s.pass = Cut(l.pass)
Awaits(s, p, l) ==
  /\ s.state = "POP3_CHECK_CREDS" /\ Knows(s, l) /\ s.remaining = 0
  /\ s.read = 0 /\ s.check_read = 0 /\ p = << >>
HearsErr(s, p) ==
  /\ s.state = "POP3_CHECK_CREDS" /\ s.remaining = 0
  /\ s.read = 0 /\ s.check_read \in 0..3
  /\ \E text \in Texts : p = Left(Answer(Err, text), s.check_read)
HearsOk(s, p, l) ==
  /\ s.state = "POP3_CHECK_CREDS" /\ Knows(s, l) /\ s.read \in 0..2
  /\ \E text \in Texts : p = Left(Answer(Ok, text), s.read)

\* Which step of the machine a state takes.
LEMMA ParseIs ==
  ASSUME NEW s, NEW c
  PROVE  /\ s.state = "POP3_INIT" => ParsePop3Sniffer(s, c) = ReadOkMsg(s, c)
         /\ s.state = "POP3_USER_COMMAND" =>
              ParsePop3Sniffer(s, c) = ReadCommand(s, c, UserWord, "POP3_READ_USER")
         /\ s.state = "POP3_READ_USER" => ParsePop3Sniffer(s, c) = ReadUser(s, c)
         /\ s.state = "POP3_PASS_COMMAND" =>
              ParsePop3Sniffer(s, c) = ReadCommand(s, c, PassWord, "POP3_READ_PASS")
         /\ s.state = "POP3_READ_PASS" => ParsePop3Sniffer(s, c) = ReadPass(s, c)
         /\ s.state = "POP3_CHECK_CREDS" => ParsePop3Sniffer(s, c) = CheckResponse(s, c)
<1>1. ASSUME s.state = "POP3_INIT" PROVE ParsePop3Sniffer(s, c) = ReadOkMsg(s, c)
  BY <1>1 DEF ParsePop3Sniffer, Final
<1>2. ASSUME s.state = "POP3_USER_COMMAND"
      PROVE  ParsePop3Sniffer(s, c) = ReadCommand(s, c, UserWord, "POP3_READ_USER")
  BY <1>2 DEF ParsePop3Sniffer, Final
<1>3. ASSUME s.state = "POP3_READ_USER" PROVE ParsePop3Sniffer(s, c) = ReadUser(s, c)
  BY <1>3 DEF ParsePop3Sniffer, Final
<1>4. ASSUME s.state = "POP3_PASS_COMMAND"
      PROVE  ParsePop3Sniffer(s, c) = ReadCommand(s, c, PassWord, "POP3_READ_PASS")
  BY <1>4 DEF ParsePop3Sniffer, Final
<1>5. ASSUME s.state = "POP3_READ_PASS" PROVE ParsePop3Sniffer(s, c) = ReadPass(s, c)
  BY <1>5 DEF ParsePop3Sniffer, Final
<1>6. ASSUME s.state = "POP3_CHECK_CREDS" PROVE ParsePop3Sniffer(s, c) = CheckResponse(s, c)
  BY <1>6 DEF ParsePop3Sniffer, Final
<1> QED
  BY <1>1, <1>2, <1>3, <1>4, <1>5, <1>6

\* What does not begin like +OK.
LEMMA NotOk ==
  ASSUME NEW k, k = 0, NEW c, c # "+" PROVE ~Matches(Ok, k, c)
<1>1. k + 1 = 1
  OBVIOUS
<1> QED
  BY <1>1, Letters DEF Matches

\* The greeting is read to its end, where USER is looked for.
LEMMA GreetedOn ==
  ASSUME PlainDialogue, NEW l \in Logins, NEW s, SnifferType(s), NEW p, Greeted(s, p),
         NEW t, t = ParsePop3Sniffer(s, Head(p))
  PROVE  p # << >> /\ (Greeted(t, Tail(p)) \/ HuntsUser(t, Tail(p), 5))
<1> DEFINE x == Ok \o Eol
           k == s.read
           c == Head(p)
<1>1. x \in Seq(Symbol) /\ Len(x) = 4 /\ \A i \in 1..3 : x[i] = Ok[i]
  <2>1. /\ Ok \o Eol \in Seq(Symbol) /\ Len(Ok \o Eol) = Len(Ok) + 1
        /\ \A i \in 1..Len(Ok) : (Ok \o Eol)[i] = Ok[i]
    BY ShortLines
  <2> QED
    BY <2>1, WordLengths
<1>2. Left(x, 3) = Eol
  BY Words, WordLengths, LeftOfConcat
<1>3. k \in 0..2 /\ s.remaining = 3 - k /\ p = Left(x, k) /\ t = ReadOkMsg(s, c)
  BY ParseIs DEF Greeted
<1> HIDE DEF x, k, c
<1>4. p # << >> /\ c = x[k + 1] /\ Tail(p) = Left(x, k + 1)
  <2>1. k \in 0..Len(x) /\ k < Len(x)
    BY <1>1, <1>3
  <2> QED
    BY <1>1, <1>3, <2>1, LeftNext DEF c
<1>5. Matches(Ok, k, c)
  <2>1. k + 1 \in 1..3 /\ k < Len(Ok)
    BY <1>3, WordLengths
  <2> QED
    BY <1>1, <1>4, <2>1 DEF Matches
<1>6. CASE k = 2
  <2>1. Dec(s.remaining) = 0
    BY <1>3, <1>6 DEF Dec
  <2>2. t = [s EXCEPT !.state = "POP3_USER_COMMAND", !.read = 0, !.remaining = 5]
    BY <1>3, <1>5, <2>1, WordLengths DEF ReadOkMsg, k
  <2>3. t.state = "POP3_USER_COMMAND" /\ t.read = 0 /\ t.remaining = 5
    BY <2>2 DEF SnifferType
  <2>4. Tail(p) = Eol
    BY <1>2, <1>4, <1>6
  <2>5. Searches(t, Eol, UserWord, 5)
    BY <2>3, Eols, ShortLines, CommandWords, SearchesLine
  <2> QED
    BY <1>4, <2>3, <2>4, <2>5 DEF HuntsUser
<1>7. CASE k # 2
  <2> DEFINE r == k + 1
             m == 2 - k
  <2>1. Dec(s.remaining) = m /\ m # 0 /\ r \in 0..2 /\ m = 3 - r
    <3>1. k \in {0, 1}
      BY <1>3, <1>7
    <3> QED
      BY <1>3, <3>1 DEF Dec
  <2>2. t = [s EXCEPT !.read = r, !.remaining = m]
    BY <1>3, <1>5, <2>1 DEF ReadOkMsg, k
  <2> HIDE DEF r, m
  <2>3. t.state = s.state /\ t.read = r /\ t.remaining = m
    BY <2>2 DEF SnifferType
  <2> QED
    BY <1>4, <2>1, <2>3 DEF Greeted, x, r
<1> QED
  BY <1>6, <1>7

\* Another protocol is given up at its first character.
LEMMA ForeignOn ==
  ASSUME PlainDialogue, NEW l \in Logins, NEW s, SnifferType(s), NEW p, Foreign(s, p),
         p # << >>, NEW t, t = ParsePop3Sniffer(s, Head(p))
  PROVE  t.state = "POP3_FINISH"
<1>1. PICK v \in {Err, Capa} : s.state = "POP3_INIT" /\ s.read = 0 /\ p = v \o Eol
  BY DEF Foreign
<1>2. v[1] # "+" /\ Len(v) = 4
  <2>1. Capa[1] = "c" /\ Len(Capa) = 4
    BY DEF Capa
  <2> QED
    BY <2>1, Letters, WordLengths
<1>3. p \in Seq(Symbol) /\ p[1] = v[1]
  <2>1. 1 \in 1..Len(v)
    BY <1>2
  <2> QED
    BY <1>1, <2>1, ShortLines
<1>4. Head(p) = v[1]
  BY <1>3, LeftAll, LenProperties
<1>5. ~Matches(Ok, s.read, Head(p))
  BY <1>1, <1>2, <1>4, NotOk
<1>6. t = [s EXCEPT !.state = "POP3_FINISH"]
  BY <1>1, <1>5, ParseIs DEF ReadOkMsg
<1> QED
  BY <1>6 DEF SnifferType

\* Where nothing is found: the two searches, and the two commands.
LEMMA HuntsUserOn ==
  ASSUME NEW s, SnifferType(s), NEW n \in {0, 5}, NEW p \in Seq(Symbol), p # << >>,
         HuntsUser(s, p, n), NEW t, t = ParsePop3Sniffer(s, Head(p))
  PROVE  HuntsUser(t, Tail(p), n) \/ HuntsUser(t, Tail(p), 5)
<1>1. t = ReadCommand(s, Head(p), UserWord, "POP3_READ_USER") /\ s.state = "POP3_USER_COMMAND"
  BY ParseIs DEF HuntsUser
<1>2. Searches(s, p, UserWord, n)
  BY DEF HuntsUser
<1> DEFINE next == "POP3_READ_USER"
<1>3. UserWord \in Word /\ t = ReadCommand(s, Head(p), UserWord, next)
  BY <1>1, CommandWords
<1> HIDE DEF next
<1>4. t.state = s.state /\ (Searches(t, Tail(p), UserWord, n) \/ Searches(t, Tail(p), UserWord, 5))
  BY <1>2, <1>3, SearchesOn
<1> QED
  BY <1>1, <1>4 DEF HuntsUser

LEMMA HuntsPassOn ==
  ASSUME NEW s, SnifferType(s), NEW l, NEW p \in Seq(Symbol), p # << >>,
         HuntsPass(s, p, l), NEW t, t = ParsePop3Sniffer(s, Head(p))
  PROVE  HuntsPass(t, Tail(p), l)
<1>1. t = ReadCommand(s, Head(p), PassWord, "POP3_READ_PASS") /\ s.state = "POP3_PASS_COMMAND"
  BY ParseIs DEF HuntsPass
<1>2. Searches(s, p, PassWord, 5) /\ s.user = Cut(l.user)
  BY DEF HuntsPass
<1> DEFINE next == "POP3_READ_PASS"
<1>3. PassWord \in Word /\ 5 \in {0, 5} /\ t = ReadCommand(s, Head(p), PassWord, next)
  BY <1>1, CommandWords
<1> HIDE DEF next
<1>4. t.state = s.state /\ t.user = s.user /\ Searches(t, Tail(p), PassWord, 5)
  BY <1>2, <1>3, SearchesOn
<1> QED
  BY <1>1, <1>2, <1>4 DEF HuntsPass

\* The name and the password begin to be read: nothing of them is in the field.
LEMMA FillsFirst ==
  ASSUME NEW f \in Field, NEW text \in Seq(Symbol)
  PROVE  Fills(0, text \o Eol, f, text)
<1>1. text \o Eol \in Seq(Symbol) /\ Len(text) \in Nat /\ 0 \in 0..Len(text) /\ Len(f) \in Nat
  BY Eols, ConcatProperties, LenProperties, FieldLength
<1>2. Left(text \o Eol, 0) = text \o Eol
  BY <1>1, LeftAll
<1>3. Room(0) = 0 /\ Holds(f, 0, text)
  BY <1>1, SnifferAssumption DEF Room, Holds
<1> QED
  BY <1>1, <1>2, <1>3 DEF Fills

\* The word of a command: it is found, or with a counter of 0 read past.
LEMMA TakesUserOn ==
  ASSUME PlainDialogue, NEW l \in Logins, NEW s, SnifferType(s), NEW n \in {0, 5}, NEW p,
         TakesUser(s, p, l, n), NEW t, t = ParsePop3Sniffer(s, Head(p)), SnifferType(t)
  PROVE  /\ p # << >>
         /\ \/ TakesUser(t, Tail(p), l, n)
            \/ n = 5 /\ ReadsUser(t, Tail(p), l)
            \/ n = 0 /\ HuntsUser(t, Tail(p), 5)
<1> DEFINE rest == l.user \o Eol
<1>1. t = ReadCommand(s, Head(p), UserWord, "POP3_READ_USER") /\ s.state = "POP3_USER_COMMAND"
  BY ParseIs DEF TakesUser
<1>2. FindsWord(s, p, UserWord, n, UserWord \o rest)
  BY DEF TakesUser, UserLine
<1>3. rest \in Seq(Symbol) /\ rest # << >> /\ Quiet(rest, UserWord) /\ l.user \in Seq(Symbol)
  BY LoginIs
<1>4. UserLine(l) = UserWord \o rest
  BY DEF UserLine
<1> HIDE DEF rest
<1> DEFINE next == "POP3_READ_USER"
           w == UserWord
<1>5. w \in Word /\ t = ReadCommand(s, Head(p), w, next)
  BY <1>1, CommandWords
<1>6. (n = 0 => Quiet(rest, w)) /\ FindsWord(s, p, w, n, w \o rest)
  BY <1>2, <1>3
<1> HIDE DEF next, w
<1>7. p # << >> /\ Found(s, t, Tail(p), w, n, next, rest)
  BY <1>3, <1>5, <1>6, FindsOn
<1>8. t.user \in Field
  BY Fields
<1>9. Fills(0, rest, t.user, l.user)
  BY <1>3, <1>8, FillsFirst DEF rest
<1> QED
  BY <1>1, <1>4, <1>7, <1>9 DEF TakesUser, ReadsUser, HuntsUser, Found, next, w

LEMMA TakesPassOn ==
  ASSUME PlainDialogue, NEW l \in Logins, NEW s, SnifferType(s), NEW p,
         TakesPass(s, p, l), NEW t, t = ParsePop3Sniffer(s, Head(p)), SnifferType(t)
  PROVE  p # << >> /\ (TakesPass(t, Tail(p), l) \/ ReadsPass(t, Tail(p), l))
<1> DEFINE rest == l.pass \o Eol
<1>1. /\ t = ReadCommand(s, Head(p), PassWord, "POP3_READ_PASS")
      /\ s.state = "POP3_PASS_COMMAND" /\ s.user = Cut(l.user)
  BY ParseIs DEF TakesPass
<1>2. FindsWord(s, p, PassWord, 5, PassWord \o rest)
  BY DEF TakesPass, PassLine
<1>3. rest \in Seq(Symbol) /\ rest # << >> /\ l.pass \in Seq(Symbol)
  BY LoginIs
<1>4. PassLine(l) = PassWord \o rest
  BY DEF PassLine
<1> HIDE DEF rest
<1> DEFINE next == "POP3_READ_PASS"
           w == PassWord
           n == 5
<1>5. w \in Word /\ n \in {0, 5} /\ n # 0 /\ t = ReadCommand(s, Head(p), w, next)
  BY <1>1, CommandWords
<1>6. (n = 0 => Quiet(rest, w)) /\ FindsWord(s, p, w, n, w \o rest)
  BY <1>2
<1> HIDE DEF next, w, n
<1>7. p # << >> /\ Found(s, t, Tail(p), w, n, next, rest)
  BY <1>3, <1>5, <1>6, FindsOn
<1>8. t.pass \in Field
  BY Fields
<1>9. Fills(0, rest, t.pass, l.pass)
  BY <1>3, <1>8, FillsFirst DEF rest
<1>10. CASE t.state = s.state /\ FindsWord(t, Tail(p), w, n, w \o rest)
  BY <1>1, <1>4, <1>7, <1>10 DEF TakesPass, Found, w, n
<1>11. CASE t.state = next /\ t.read = 0 /\ t.remaining = 0 /\ Tail(p) = rest
  BY <1>1, <1>7, <1>9, <1>11 DEF ReadsPass, Found, next
<1> QED
  BY <1>7, <1>5, <1>10, <1>11 DEF Found

\* A character of the text goes into the field, if it has room; the line end
\* leaves the text there, cut to the size of the field.
LEMMA FillsOn ==
  ASSUME PlainDialogue, NEW l \in Logins, NEW text \in {l.user, l.pass},
         NEW f \in Field, NEW r, NEW p, Fills(r, p, f, text), NEW c, c = Head(p)
  PROVE  /\ p # << >>
         /\ \/ /\ c \notin {"\n", "\r"} /\ r < CredentialsSize
               /\ Fills(r + 1, Tail(p), Stored(f, r, c), text)
            \/ /\ c \notin {"\n", "\r"} /\ ~(r < CredentialsSize)
               /\ Fills(r, Tail(p), f, text)
            \/ c = "\n" /\ Tail(p) = << >> /\ Kept(f, r) = Cut(text)
<1> DEFINE x == text \o Eol
<1>1. /\ text \in Seq(Symbol) /\ Len(text) \in Nat
      /\ \A i \in 1..Len(text) : text[i] \notin {"\n", "\r"} /\ text[i] \in Symbol
      /\ x \in Seq(Symbol) /\ Len(x) = Len(text) + 1
      /\ \A i \in 1..Len(text) : x[i] = text[i]
      /\ x[Len(text) + 1] = "\n"
  BY LoginIs, ElementOfSeq
<1>2. PICK k \in 0..Len(text) : p = Left(x, k) /\ r = Room(k) /\ Holds(f, r, text)
  BY DEF Fills
<1> HIDE DEF x
<1>3. k \in 0..Len(x) /\ k < Len(x) /\ k \in Nat
  BY <1>1
<1>4. p # << >> /\ c = x[k + 1] /\ Tail(p) = Left(x, k + 1)
  BY <1>1, <1>2, <1>3, LeftNext
<1>5. /\ r \in Nat /\ r <= k
      /\ r < CredentialsSize => r = k /\ Room(k + 1) = k + 1
      /\ ~(r < CredentialsSize) => Room(k + 1) = r
  <2>1. /\ Room(k) \in 0..CredentialsSize /\ Room(k) <= k
        /\ Room(k) < CredentialsSize => Room(k) = k /\ Room(k + 1) = k + 1
        /\ ~(Room(k) < CredentialsSize) => Room(k + 1) = Room(k)
    BY <1>3, RoomIs
  <2>2. \A m \in 0..CredentialsSize : m \in Nat
    BY SnifferAssumption
  <2> QED
    BY <1>2, <2>1, <2>2
<1>6. CASE k < Len(text)
  <2>1. c = text[k + 1] /\ c \in Symbol /\ c \notin {"\n", "\r"} /\ k + 1 \in 0..Len(text)
    <3>1. k + 1 \in 1..Len(text)
      BY <1>1, <1>3, <1>6
    <3> QED
      BY <1>1, <1>4, <3>1
  <2>2. CASE r < CredentialsSize
    <3>1. Holds(Stored(f, r, c), r + 1, text)
      BY <1>2, <1>5, <2>1, <2>2, StoredHolds
    <3>2. Fills(r + 1, Tail(p), Stored(f, r, c), text)
      BY <1>4, <1>5, <2>1, <2>2, <3>1 DEF Fills, x
    <3> QED
      BY <1>4, <2>1, <2>2, <3>2
  <2>3. CASE ~(r < CredentialsSize)
    <3>1. Fills(r, Tail(p), f, text)
      BY <1>2, <1>4, <1>5, <2>1, <2>3 DEF Fills, x
    <3> QED
      BY <1>4, <2>1, <2>3, <3>1
  <2> QED
    BY <2>2, <2>3
<1>7. CASE k = Len(text)
  <2>1. c = "\n"
    BY <1>1, <1>4, <1>7
  <2>2. Tail(p) = << >>
    <3>1. Len(x) \in 0..Len(x) /\ k + 1 = Len(x)
      BY <1>1, <1>7
    <3>2. Left(x, Len(x)) = << >>
      BY <1>1, <3>1, LeftIs
    <3> QED
      BY <1>4, <3>1, <3>2
  <2>3. Kept(f, r) = Cut(text)
    BY <1>1, <1>2, <1>7, KeptIsCut
  <2> QED
    BY <1>4, <2>1, <2>2, <2>3
<1> QED
  BY <1>3, <1>6, <1>7, <1>1

\* At the end of its line the name is known, and PASS is looked for.
LEMMA ReadsUserOn ==
  ASSUME PlainDialogue, NEW l \in Logins, NEW s, SnifferType(s), NEW p,
         ReadsUser(s, p, l), NEW t, t = ParsePop3Sniffer(s, Head(p))
  PROVE  p # << >> /\ (ReadsUser(t, Tail(p), l) \/ HuntsPass(t, Tail(p), l))
<1> DEFINE c == Head(p)
           r == s.read
           f == s.user
<1>1. s.state = "POP3_READ_USER" /\ Fills(r, p, f, l.user) /\ t = ReadUser(s, c) /\ f \in Field
  BY Fields, ParseIs DEF ReadsUser
<1> HIDE DEF c, r, f
<1>2. /\ p # << >>
      /\ \/ /\ c \notin {"\n", "\r"} /\ r < CredentialsSize
            /\ Fills(r + 1, Tail(p), Stored(f, r, c), l.user)
         \/ /\ c \notin {"\n", "\r"} /\ ~(r < CredentialsSize)
            /\ Fills(r, Tail(p), f, l.user)
         \/ c = "\n" /\ Tail(p) = << >> /\ Kept(f, r) = Cut(l.user)
  BY <1>1, FillsOn DEF c
<1>3. CASE /\ c \notin {"\n", "\r"} /\ r < CredentialsSize
           /\ Fills(r + 1, Tail(p), Stored(f, r, c), l.user)
  <2> DEFINE g == Stored(f, r, c)
             n == r + 1
  <2>1. t = [s EXCEPT !.user = g, !.read = n]
    BY <1>1, <1>3 DEF ReadUser, r, f
  <2> HIDE DEF g, n
  <2>2. t.state = s.state /\ t.user = g /\ t.read = n
    BY <2>1 DEF SnifferType
  <2> QED
    BY <1>1, <1>2, <1>3, <2>2 DEF ReadsUser, g, n
<1>4. CASE /\ c \notin {"\n", "\r"} /\ ~(r < CredentialsSize)
           /\ Fills(r, Tail(p), f, l.user)
  <2>1. t = s
    BY <1>1, <1>4 DEF ReadUser, r
  <2> QED
    BY <1>1, <1>2, <1>4, <2>1 DEF ReadsUser, r, f
<1>5. CASE c = "\n" /\ Tail(p) = << >> /\ Kept(f, r) = Cut(l.user)
  <2> DEFINE g == Cut(l.user)
  <2>1. t = [s EXCEPT !.state = "POP3_PASS_COMMAND", !.user = g, !.read = 0,
                      !.remaining = 5, !.check_read = 0]
    BY <1>1, <1>5, WordLengths DEF ReadUser, r, f
  <2> HIDE DEF g
  <2>2. t.state = "POP3_PASS_COMMAND" /\ t.user = g /\ t.read = 0 /\ t.remaining = 5
    BY <2>1 DEF SnifferType
  <2>3. << >> \in Seq(Symbol) /\ Quiet(<< >>, PassWord)
    BY EmptySeq, ShortLines
  <2>4. Searches(t, << >>, PassWord, 5)
    BY <2>2, <2>3, CommandWords, SearchesLine
  <2> QED
    BY <1>2, <1>5, <2>2, <2>4 DEF HuntsPass, g
<1> QED
  BY <1>2, <1>3, <1>4, <1>5

\* At the end of its line both are known.
LEMMA ReadsPassOn ==
  ASSUME PlainDialogue, NEW l \in Logins, NEW s, SnifferType(s), NEW p,
         ReadsPass(s, p, l), NEW t, t = ParsePop3Sniffer(s, Head(p))
  PROVE  p # << >> /\ (ReadsPass(t, Tail(p), l) \/ Awaits(t, Tail(p), l))
<1> DEFINE c == Head(p)
           r == s.read
           f == s.pass
<1>1. /\ s.state = "POP3_READ_PASS" /\ Fills(r, p, f, l.pass) /\ t = ReadPass(s, c) /\ f \in Field
      /\ s.user = Cut(l.user) /\ s.remaining = 0
  BY Fields, ParseIs DEF ReadsPass
<1> HIDE DEF c, r, f
<1>2. /\ p # << >>
      /\ \/ /\ c \notin {"\n", "\r"} /\ r < CredentialsSize
            /\ Fills(r + 1, Tail(p), Stored(f, r, c), l.pass)
         \/ /\ c \notin {"\n", "\r"} /\ ~(r < CredentialsSize)
            /\ Fills(r, Tail(p), f, l.pass)
         \/ c = "\n" /\ Tail(p) = << >> /\ Kept(f, r) = Cut(l.pass)
  BY <1>1, FillsOn DEF c
<1>3. CASE /\ c \notin {"\n", "\r"} /\ r < CredentialsSize
           /\ Fills(r + 1, Tail(p), Stored(f, r, c), l.pass)
  <2> DEFINE g == Stored(f, r, c)
             n == r + 1
  <2>1. t = [s EXCEPT !.pass = g, !.read = n]
    BY <1>1, <1>3 DEF ReadPass, r, f
  <2> HIDE DEF g, n
  <2>2. /\ t.state = s.state /\ t.pass = g /\ t.read = n /\ t.user = s.user
        /\ t.remaining = s.remaining
    BY <2>1 DEF SnifferType
  <2> QED
    BY <1>1, <1>2, <1>3, <2>2 DEF ReadsPass, g, n
<1>4. CASE /\ c \notin {"\n", "\r"} /\ ~(r < CredentialsSize)
           /\ Fills(r, Tail(p), f, l.pass)
  <2>1. t = s
    BY <1>1, <1>4 DEF ReadPass, r
  <2> QED
    BY <1>1, <1>2, <1>4, <2>1 DEF ReadsPass, r, f
<1>5. CASE c = "\n" /\ Tail(p) = << >> /\ Kept(f, r) = Cut(l.pass)
  <2> DEFINE g == Cut(l.pass)
  <2>1. t = [s EXCEPT !.state = "POP3_CHECK_CREDS", !.pass = g, !.read = 0,
                      !.check_read = 0]
    BY <1>1, <1>5 DEF ReadPass, r, f
  <2> HIDE DEF g
  <2>2. /\ t.state = "POP3_CHECK_CREDS" /\ t.pass = g /\ t.read = 0 /\ t.check_read = 0
        /\ t.user = s.user /\ t.remaining = s.remaining
    BY <2>1 DEF SnifferType
  <2> QED
    BY <1>1, <1>2, <1>5, <2>2 DEF Awaits, Knows, g
<1> QED
  BY <1>2, <1>3, <1>4, <1>5

\* A refusal: behind it the next login is looked for, with a counter of 0.
LEMMA HearsErrOn ==
  ASSUME PlainDialogue, NEW l \in Logins, NEW s, SnifferType(s), NEW p,
         HearsErr(s, p), NEW t, t = ParsePop3Sniffer(s, Head(p))
  PROVE  p # << >> /\ (HearsErr(t, Tail(p)) \/ HuntsUser(t, Tail(p), 0))
<1>1. PICK text \in Texts : p = Left(Answer(Err, text), s.check_read)
  BY DEF HearsErr
<1> DEFINE x == Answer(Err, text)
           k == s.check_read
           c == Head(p)
<1>2. x \in Seq(Symbol) /\ 4 < Len(x) /\ Len(x) \in Nat /\ \A i \in 1..4 : x[i] = Err[i]
  BY AnswerIs, WordLengths, LenProperties
<1>3. Quiet(x, UserWord)
  BY DEF PlainDialogue, Answer
<1>4. /\ k \in 0..3 /\ p = Left(x, k) /\ t = CheckResponse(s, c)
      /\ s.state = "POP3_CHECK_CREDS" /\ s.read = 0 /\ s.remaining = 0
  BY <1>1, ParseIs DEF HearsErr
<1> HIDE DEF x, k, c
<1>5. p # << >> /\ c = x[k + 1] /\ Tail(p) = Left(x, k + 1)
  <2>1. k \in 0..Len(x) /\ k < Len(x)
    BY <1>2, <1>4
  <2> QED
    BY <1>2, <1>4, <2>1, LeftNext DEF c
<1>6. Matches(Err, k, c) /\ ~Matches(Ok, 0, c)
  <2>1. k + 1 \in {1, 2, 3, 4} /\ k + 1 \in 1..4 /\ k < Len(Err)
    BY <1>4, WordLengths
  <2>2. c = Err[k + 1]
    BY <1>2, <1>5, <2>1
  <2>3. Matches(Err, k, c)
    BY <2>1, <2>2 DEF Matches
  <2>4. c # "+"
    BY <2>1, <2>2, Letters
  <2> QED
    BY <2>3, <2>4, NotOk
<1> DEFINE n == k + 1
<1>7. CASE k = 3
  <2>1. t = [s EXCEPT !.check_read = n, !.state = "POP3_USER_COMMAND"]
    BY <1>4, <1>6, <1>7, WordLengths DEF CheckResponse, k
  <2>2. t.state = "POP3_USER_COMMAND" /\ t.read = 0 /\ t.remaining = 0
    <3> HIDE DEF n
    <3> QED
      BY <1>4, <2>1 DEF SnifferType
  <2> DEFINE q == Left(x, 4)
  <2>3. 4 \in 0..Len(x) /\ 4 \in Nat
    BY <1>2
  <2>4. q \in Seq(Symbol) /\ Len(q) = Len(x) - 4 /\ \A i \in 1..(Len(x) - 4) : q[i] = x[4 + i]
    BY <1>2, <2>3, LeftIs
  <2>5. Tail(p) = q
    BY <1>5, <1>7
  <2> HIDE DEF q
  <2>6. Quiet(q, UserWord)
    <3>1. Len(x) = 4 + Len(q) /\ \A i \in 1..Len(q) : q[i] = x[4 + i]
      BY <1>2, <2>4
    <3> QED
      BY <1>2, <1>3, <2>3, <2>4, <3>1, CommandWords, QuietBehind
  <2>7. Searches(t, q, UserWord, 0)
    BY <2>2, <2>4, <2>6, CommandWords, SearchesLine
  <2> QED
    BY <1>5, <2>2, <2>5, <2>7 DEF HuntsUser
<1>8. CASE k # 3
  <2>1. n # Len(Err) /\ n \in 0..3
    BY <1>4, <1>8, WordLengths
  <2>2. t = [s EXCEPT !.check_read = n]
    <3> DEFINE st == s.state
    <3>1. t = [s EXCEPT !.check_read = n, !.state = st]
      BY <1>4, <1>6, <2>1 DEF CheckResponse, k
    <3> HIDE DEF n
    <3> QED
      BY <3>1 DEF SnifferType
  <2> HIDE DEF n
  <2>3. t.state = s.state /\ t.read = s.read /\ t.remaining = s.remaining /\ t.check_read = n
    BY <2>2 DEF SnifferType
  <2> QED
    BY <1>4, <1>5, <2>1, <2>3 DEF HearsErr, x, n
<1> QED
  BY <1>7, <1>8

\* An acceptance: the sniffer succeeds with what it knows.
LEMMA HearsOkOn ==
  ASSUME PlainDialogue, NEW l \in Logins, NEW s, SnifferType(s), NEW p,
         HearsOk(s, p, l), NEW t, t = ParsePop3Sniffer(s, Head(p))
  PROVE  /\ p # << >>
         /\ \/ HearsOk(t, Tail(p), l)
            \/ t.state = "POP3_SNIFF_SUCCESSFUL" /\ Knows(t, l)
<1>1. PICK text \in Texts : p = Left(Answer(Ok, text), s.read)
  BY DEF HearsOk
<1> DEFINE x == Answer(Ok, text)
           k == s.read
           c == Head(p)
<1>2. x \in Seq(Symbol) /\ 3 < Len(x) /\ Len(x) \in Nat /\ \A i \in 1..3 : x[i] = Ok[i]
  BY AnswerIs, WordLengths, LenProperties
<1>3. /\ k \in 0..2 /\ p = Left(x, k) /\ t = CheckResponse(s, c)
      /\ s.state = "POP3_CHECK_CREDS" /\ Knows(s, l)
  BY <1>1, ParseIs DEF HearsOk
<1> HIDE DEF x, k, c
<1>4. p # << >> /\ c = x[k + 1] /\ Tail(p) = Left(x, k + 1)
  <2>1. k \in 0..Len(x) /\ k < Len(x)
    BY <1>2, <1>3
  <2> QED
    BY <1>2, <1>3, <2>1, LeftNext DEF c
<1>5. Matches(Ok, k, c)
  <2>1. k + 1 \in 1..3 /\ k < Len(Ok)
    BY <1>3, WordLengths
  <2> QED
    BY <1>2, <1>4, <2>1 DEF Matches
<1> DEFINE n == k + 1
<1>6. PICK st : /\ t = [s EXCEPT !.read = n, !.state = st]
                /\ k = 2 => st = "POP3_SNIFF_SUCCESSFUL"
                /\ k # 2 => st = s.state
  <2> DEFINE st == IF n = 3 THEN "POP3_SNIFF_SUCCESSFUL" ELSE s.state
  <2>1. t = [s EXCEPT !.read = n, !.state = st]
    BY <1>3, <1>5, WordLengths DEF CheckResponse, k
  <2>2. n = 3 <=> k = 2
    BY <1>3
  <2>3. (k = 2 => st = "POP3_SNIFF_SUCCESSFUL") /\ (k # 2 => st = s.state)
    BY <2>2
  <2> HIDE DEF st, n
  <2> QED
    BY <2>1, <2>3
<1>7. k # 2 => n \in 0..2
  BY <1>3
<1> HIDE DEF n
<1>8. t.state = st /\ t.read = n /\ t.user = s.user /\ t.pass = s.pass
  BY <1>6 DEF SnifferType
<1>9. Knows(t, l)
  BY <1>3, <1>8 DEF Knows
<1> QED
  BY <1>3, <1>4, <1>6, <1>7, <1>8, <1>9 DEF HearsOk, x, n

-----------------------------------------------------------------------------
(* The dialogue as the sniffer hears it *)

Try == [login : Logins, ok : BOOLEAN, looked : BOOLEAN]

\* The last login was read: of the next one the counter may be wrong.
MayMiss(ts) == ts # << >> /\ ts[Len(ts)].looked
Refused(ts) == ts # << >> => ~ts[Len(ts)].ok
Hunting(s, p, ts) == HuntsUser(s, p, 5) \/ (HuntsUser(s, p, 0) /\ MayMiss(ts))
Missed(s, p, ts) == HuntsUser(s, p, 5) /\ MayMiss(ts)

\* What the sniffer is about when the client is in its phases.
AtGreeting(s, p, a, ts) ==
  /\ s.state = "POP3_INIT" /\ s.read = 0 /\ s.remaining = 3
  /\ p = << >> /\ a = << >> /\ ts = << >>
AtUser(s, p, a, ts) ==
  \/ a = << >> /\ ts = << >> /\ Greeted(s, p)
  \/ a \in {<< >>, <<"CAPA">>} /\ Hunting(s, p, ts)
  \/ a = << >> /\ HearsErr(s, p) /\ MayMiss(ts)
AtPass(s, p, l, a, ts) ==
  \/ /\ a = <<"USER">>
     /\ \/ TakesUser(s, p, l, 5)
        \/ TakesUser(s, p, l, 0) /\ MayMiss(ts)
        \/ ReadsUser(s, p, l)
  \/ a \in {<< >>, <<"CAPA">>, <<"USER">>} /\ (HuntsPass(s, p, l) \/ Missed(s, p, ts))
AtSent(s, p, l, a, ts) ==
  /\ a = <<"PASS">>
  /\ \/ TakesPass(s, p, l) \/ ReadsPass(s, p, l) \/ Awaits(s, p, l)
     \/ Missed(s, p, ts)
AtIn(s, p, a, ts, lg) ==
  /\ a \in {<< >>, <<"CAPA">>} /\ ts # << >> /\ ts[Len(ts)].ok
  /\ \/ HearsOk(s, p, ts[Len(ts)].login) /\ MayMiss(ts) /\ lg = << >>
     \/ /\ s.state = "POP3_SNIFF_SUCCESSFUL" /\ p = << >> /\ MayMiss(ts)
        /\ lg = <<Credentials(ts[Len(ts)].login)>>
     \/ HuntsUser(s, p, 5) /\ ~MayMiss(ts) /\ lg = << >>
AtOver(s, p, a, ts) ==
  /\ a = << >>
  /\ \/ ts = << >> /\ Foreign(s, p)
     \/ HearsErr(s, p) /\ MayMiss(ts)
     \/ ts # << >> /\ Hunting(s, p, ts)

\* The inductive invariant of a plain dialogue.
DialogueInv ==
  /\ tries \in Seq(Try) /\ NeverMissesTwo
  /\ phase # "in" => logged = << >> /\ Refused(tries)
  /\ \/ phase = "greeting" /\ AtGreeting(sniffer, pending, asked, tries)
     \/ phase = "user" /\ AtUser(sniffer, pending, asked, tries)
     \/ phase = "pass" /\ AtPass(sniffer, pending, login, asked, tries)
     \/ phase = "sent" /\ AtSent(sniffer, pending, login, asked, tries)
     \/ phase = "in" /\ AtIn(sniffer, pending, asked, tries, logged)
     \/ phase = "over" /\ AtOver(sniffer, pending, asked, tries)

\* Commands that wait for their answers.
LEMMA Commands ==
  /\ \A c : <<c>> # << >> /\ Head(<<c>>) = c /\ Tail(<<c>>) = << >> /\ Append(<< >>, c) = <<c>>
  /\ \A c, d : <<c>> = <<d>> => c = d
OBVIOUS

\* The last of a sequence.
LEMMA LastIn ==
  ASSUME NEW S, NEW ts \in Seq(S), ts # << >> PROVE ts[Len(ts)] \in S
<1>1. Len(ts) \in Nat /\ Len(ts) # 0
  BY LenProperties, EmptySeq
<1>2. Len(ts) \in 1..Len(ts)
  BY <1>1
<1> QED
  BY <1>2, ElementOfSeq

\* One character more: s makes t of it, and q is left.
Hears(s, p, t, q) ==
  /\ SnifferType(s) /\ SnifferType(t) /\ p \in Seq(Symbol) /\ p # << >>
  /\ t = ParsePop3Sniffer(s, Head(p))
  /\ q = IF t.state \in Final THEN << >> ELSE Tail(p)

\* What is left depends on whether the state is final.
LEMMA HearsRest ==
  ASSUME NEW s, NEW p, NEW t, NEW q, Hears(s, p, t, q)
  PROVE  /\ t.state \notin {"POP3_FINISH", "POP3_SNIFF_SUCCESSFUL"} => q = Tail(p)
         /\ t.state \in {"POP3_FINISH", "POP3_SNIFF_SUCCESSFUL"} => q = << >>
BY DEF Hears, Final

\* No character of what is hunted in succeeds.
LEMMA HuntsUserHears ==
  ASSUME NEW s, NEW p, NEW t, NEW q, Hears(s, p, t, q), NEW n \in {0, 5}, HuntsUser(s, p, n)
  PROVE  (HuntsUser(t, q, n) \/ HuntsUser(t, q, 5)) /\ t.state # "POP3_SNIFF_SUCCESSFUL"
<1>1. HuntsUser(t, Tail(p), n) \/ HuntsUser(t, Tail(p), 5)
  BY HuntsUserOn DEF Hears
<1>2. t.state = "POP3_USER_COMMAND"
  BY <1>1 DEF HuntsUser
<1>3. q = Tail(p)
  BY <1>2, HearsRest
<1> QED
  BY <1>1, <1>2, <1>3

\* Nor of what is hunted in with either counter.
LEMMA HuntingHears ==
  ASSUME NEW s, NEW p, NEW t, NEW q, Hears(s, p, t, q), NEW ts
  PROVE  /\ Hunting(s, p, ts) => Hunting(t, q, ts) /\ t.state # "POP3_SNIFF_SUCCESSFUL"
         /\ Missed(s, p, ts) => Missed(t, q, ts) /\ t.state # "POP3_SNIFF_SUCCESSFUL"
<1>1. HuntsUser(s, p, 5) => HuntsUser(t, q, 5) /\ t.state # "POP3_SNIFF_SUCCESSFUL"
  BY HuntsUserHears
<1>2. HuntsUser(s, p, 0) =>
        (HuntsUser(t, q, 0) \/ HuntsUser(t, q, 5)) /\ t.state # "POP3_SNIFF_SUCCESSFUL"
  BY HuntsUserHears
<1> QED
  BY <1>1, <1>2 DEF Hunting, Missed

\* A refusal, up to the search for the next login.
LEMMA HearsErrHears ==
  ASSUME PlainDialogue, NEW l \in Logins, NEW s, NEW p, NEW t, NEW q, Hears(s, p, t, q),
         NEW ts, HearsErr(s, p), MayMiss(ts)
  PROVE  (HearsErr(t, q) \/ Hunting(t, q, ts)) /\ t.state # "POP3_SNIFF_SUCCESSFUL"
<1>1. HearsErr(t, Tail(p)) \/ HuntsUser(t, Tail(p), 0)
  BY HearsErrOn DEF Hears
<1>2. t.state \in {"POP3_CHECK_CREDS", "POP3_USER_COMMAND"}
  BY <1>1 DEF HuntsUser, HearsErr
<1>3. q = Tail(p)
  BY <1>2, HearsRest
<1> QED
  BY <1>1, <1>2, <1>3 DEF Hunting

\* The phases of the client, one character further.
LEMMA UserHears ==
  ASSUME PlainDialogue, NEW l \in Logins, NEW s, NEW p, NEW t, NEW q, Hears(s, p, t, q),
         NEW a, NEW ts, AtUser(s, p, a, ts)
  PROVE  AtUser(t, q, a, ts) /\ t.state # "POP3_SNIFF_SUCCESSFUL"
<1>1. CASE a = << >> /\ ts = << >> /\ Greeted(s, p)
  <2>1. Greeted(t, Tail(p)) \/ HuntsUser(t, Tail(p), 5)
    BY <1>1, GreetedOn DEF Hears
  <2>2. t.state \in {"POP3_INIT", "POP3_USER_COMMAND"}
    BY <2>1 DEF Greeted, HuntsUser
  <2>3. q = Tail(p)
    BY <2>2, HearsRest
  <2> QED
    BY <1>1, <2>1, <2>2, <2>3 DEF AtUser, Hunting
<1>2. CASE a \in {<< >>, <<"CAPA">>} /\ Hunting(s, p, ts)
  BY <1>2, HuntingHears DEF AtUser
<1>3. CASE a = << >> /\ HearsErr(s, p) /\ MayMiss(ts)
  <2>1. (HearsErr(t, q) \/ Hunting(t, q, ts)) /\ t.state # "POP3_SNIFF_SUCCESSFUL"
    BY <1>3, HearsErrHears
  <2> QED
    BY <1>3, <2>1 DEF AtUser
<1> QED
  BY <1>1, <1>2, <1>3 DEF AtUser

LEMMA PassHears ==
  ASSUME PlainDialogue, NEW l \in Logins, NEW s, NEW p, NEW t, NEW q, Hears(s, p, t, q),
         NEW a, NEW ts, AtPass(s, p, l, a, ts)
  PROVE  AtPass(t, q, l, a, ts) /\ t.state # "POP3_SNIFF_SUCCESSFUL"
<1> DEFINE five == 5
           zero == 0
<1>1. CASE a = <<"USER">> /\ TakesUser(s, p, l, five)
  <2>1. TakesUser(t, Tail(p), l, 5) \/ ReadsUser(t, Tail(p), l)
    <3>1. five \in {0, 5} /\ five # 0
      OBVIOUS
    <3> HIDE DEF five
    <3>2. TakesUser(t, Tail(p), l, five) \/ ReadsUser(t, Tail(p), l)
      BY <1>1, <3>1, TakesUserOn DEF Hears
    <3> QED
      BY <3>2 DEF five
  <2>2. t.state \in {"POP3_USER_COMMAND", "POP3_READ_USER"}
    BY <2>1 DEF TakesUser, ReadsUser
  <2>3. q = Tail(p)
    BY <2>2, HearsRest
  <2> QED
    BY <1>1, <2>1, <2>2, <2>3 DEF AtPass
<1>2. CASE a = <<"USER">> /\ TakesUser(s, p, l, zero) /\ MayMiss(ts)
  <2>1. TakesUser(t, Tail(p), l, 0) \/ HuntsUser(t, Tail(p), 5)
    <3>1. zero \in {0, 5} /\ zero # 5
      OBVIOUS
    <3> HIDE DEF zero
    <3>2. TakesUser(t, Tail(p), l, zero) \/ HuntsUser(t, Tail(p), 5)
      BY <1>2, <3>1, TakesUserOn DEF Hears
    <3> QED
      BY <3>2 DEF zero
  <2>2. t.state = "POP3_USER_COMMAND"
    BY <2>1 DEF TakesUser, HuntsUser
  <2>3. q = Tail(p)
    BY <2>2, HearsRest
  <2> QED
    BY <1>2, <2>1, <2>2, <2>3 DEF AtPass, Missed
<1>3. CASE a = <<"USER">> /\ ReadsUser(s, p, l)
  <2>1. ReadsUser(t, Tail(p), l) \/ HuntsPass(t, Tail(p), l)
    BY <1>3, ReadsUserOn DEF Hears
  <2>2. t.state \in {"POP3_READ_USER", "POP3_PASS_COMMAND"}
    BY <2>1 DEF HuntsPass, ReadsUser
  <2>3. q = Tail(p)
    BY <2>2, HearsRest
  <2> QED
    BY <1>3, <2>1, <2>2, <2>3 DEF AtPass
<1>4. CASE a \in {<< >>, <<"CAPA">>, <<"USER">>} /\ HuntsPass(s, p, l)
  <2>1. HuntsPass(t, Tail(p), l)
    BY <1>4, HuntsPassOn DEF Hears
  <2>2. t.state = "POP3_PASS_COMMAND"
    BY <2>1 DEF HuntsPass
  <2>3. q = Tail(p)
    BY <2>2, HearsRest
  <2> QED
    BY <1>4, <2>1, <2>2, <2>3 DEF AtPass
<1>5. CASE a \in {<< >>, <<"CAPA">>, <<"USER">>} /\ Missed(s, p, ts)
  BY <1>5, HuntingHears DEF AtPass
<1> QED
  BY <1>1, <1>2, <1>3, <1>4, <1>5 DEF AtPass

LEMMA SentHears ==
  ASSUME PlainDialogue, NEW l \in Logins, NEW s, NEW p, NEW t, NEW q, Hears(s, p, t, q),
         NEW a, NEW ts, AtSent(s, p, l, a, ts)
  PROVE  AtSent(t, q, l, a, ts) /\ t.state # "POP3_SNIFF_SUCCESSFUL"
<1>1. a = <<"PASS">>
  BY DEF AtSent
<1>2. CASE TakesPass(s, p, l)
  <2>1. TakesPass(t, Tail(p), l) \/ ReadsPass(t, Tail(p), l)
    BY <1>2, TakesPassOn DEF Hears
  <2>2. t.state \in {"POP3_PASS_COMMAND", "POP3_READ_PASS"}
    BY <2>1 DEF TakesPass, ReadsPass
  <2>3. q = Tail(p)
    BY <2>2, HearsRest
  <2> QED
    BY <1>1, <2>1, <2>2, <2>3 DEF AtSent
<1>3. CASE ReadsPass(s, p, l)
  <2>1. ReadsPass(t, Tail(p), l) \/ Awaits(t, Tail(p), l)
    BY <1>3, ReadsPassOn DEF Hears
  <2>2. t.state \in {"POP3_CHECK_CREDS", "POP3_READ_PASS"}
    BY <2>1 DEF Awaits, ReadsPass
  <2>3. q = Tail(p)
    BY <2>2, HearsRest
  <2> QED
    BY <1>1, <2>1, <2>2, <2>3 DEF AtSent
<1>4. CASE Awaits(s, p, l)
  BY <1>4 DEF Awaits, Hears
<1>5. CASE Missed(s, p, ts)
  BY <1>1, <1>5, HuntingHears DEF AtSent
<1> QED
  BY <1>2, <1>3, <1>4, <1>5 DEF AtSent

\* What is logged then.
Logs(t, lg) ==
  IF t.state = "POP3_SNIFF_SUCCESSFUL" THEN Append(lg, [user |-> t.user, pass |-> t.pass])
  ELSE lg

\* Where the login is in, success logs the credentials of it.
LEMMA InHears ==
  ASSUME PlainDialogue, NEW s, NEW p, NEW t, NEW q, Hears(s, p, t, q),
         NEW a, NEW ts \in Seq(Try), NEW lg, AtIn(s, p, a, ts, lg)
  PROVE  AtIn(t, q, a, ts, Logs(t, lg))
<1> DEFINE l == ts[Len(ts)].login
<1>1. a \in {<< >>, <<"CAPA">>} /\ ts # << >> /\ ts[Len(ts)].ok
  BY DEF AtIn
<1>2. l \in Logins
  <2>1. ts[Len(ts)] \in Try
    BY <1>1, LastIn
  <2> QED
    BY <2>1 DEF Try
<1> HIDE DEF l
<1>3. CASE HearsOk(s, p, l) /\ MayMiss(ts) /\ lg = << >>
  <2>1. HearsOk(t, Tail(p), l) \/ (t.state = "POP3_SNIFF_SUCCESSFUL" /\ Knows(t, l))
    BY <1>2, <1>3, HearsOkOn DEF Hears
  <2>2. CASE HearsOk(t, Tail(p), l)
    <3>1. t.state = "POP3_CHECK_CREDS"
      BY <2>2 DEF HearsOk
    <3>2. q = Tail(p) /\ Logs(t, lg) = lg
      BY <3>1, HearsRest DEF Logs
    <3> QED
      BY <1>1, <1>3, <2>2, <3>2 DEF AtIn, l
  <2>3. CASE t.state = "POP3_SNIFF_SUCCESSFUL" /\ Knows(t, l)
    <3>1. q = << >>
      BY <2>3, HearsRest
    <3>2. [user |-> t.user, pass |-> t.pass] = Credentials(l)
      BY <2>3 DEF Knows, Credentials
    <3>3. Logs(t, lg) = <<Credentials(l)>>
      BY <1>3, <2>3, <3>2, Commands DEF Logs
    <3> QED
      BY <1>1, <1>3, <2>3, <3>1, <3>3 DEF AtIn, l
  <2> QED
    BY <2>1, <2>2, <2>3
<1>4. CASE p = << >>
  BY <1>4 DEF Hears
<1>5. CASE HuntsUser(s, p, 5) /\ ~MayMiss(ts) /\ lg = << >>
  <2>1. HuntsUser(t, q, 5) /\ t.state # "POP3_SNIFF_SUCCESSFUL"
    BY <1>5, HuntsUserHears
  <2> QED
    BY <1>1, <1>5, <2>1 DEF AtIn, Logs
<1> QED
  BY <1>3, <1>4, <1>5 DEF AtIn, l

\* What comes behind the end of the dialogue.
LEMMA OverHears ==
  ASSUME PlainDialogue, NEW l \in Logins, NEW s, NEW p, NEW t, NEW q, Hears(s, p, t, q),
         NEW a, NEW ts, AtOver(s, p, a, ts)
  PROVE  AtOver(t, q, a, ts) /\ t.state # "POP3_SNIFF_SUCCESSFUL"
<1>1. a = << >>
  BY DEF AtOver
<1>2. CASE ts = << >> /\ Foreign(s, p)
  <2>1. t.state = "POP3_FINISH"
    BY <1>2, ForeignOn DEF Hears
  <2>2. q = << >>
    BY <2>1, HearsRest
  <2> QED
    BY <1>1, <1>2, <2>1, <2>2 DEF AtOver, Foreign
<1>3. CASE HearsErr(s, p) /\ MayMiss(ts)
  <2>1. (HearsErr(t, q) \/ Hunting(t, q, ts)) /\ t.state # "POP3_SNIFF_SUCCESSFUL"
    BY <1>3, HearsErrHears
  <2>2. ts # << >>
    BY <1>3 DEF MayMiss
  <2> QED
    BY <1>1, <1>3, <2>1, <2>2 DEF AtOver
<1>4. CASE ts # << >> /\ Hunting(s, p, ts)
  BY <1>1, <1>4, HuntingHears DEF AtOver
<1> QED
  BY <1>2, <1>3, <1>4 DEF AtOver

\* The steps of the dialogue.
LEMMA ConsumeDialogue ==
  ASSUME PlainDialogue, IInv, IInv', DialogueInv, Consume
  PROVE  DialogueInv'
<1>1. Hears(sniffer, pending, sniffer', pending') /\ login \in Logins
  BY DEF IInv, Sound, Consume, Hears
<1>2. /\ phase' = phase /\ login' = login /\ asked' = asked /\ tries' = tries
      /\ logged' = IF sniffer'.state = "POP3_SNIFF_SUCCESSFUL"
                   THEN Append(logged, [user |-> sniffer'.user, pass |-> sniffer'.pass])
                   ELSE logged
  BY DEF Consume
<1>3. /\ tries' \in Seq(Try) /\ NeverMissesTwo'
      /\ tries \in Seq(Try)
      /\ phase # "in" => logged = << >> /\ Refused(tries')
  BY <1>2 DEF DialogueInv, NeverMissesTwo
<1>4. CASE phase = "greeting" /\ AtGreeting(sniffer, pending, asked, tries)
  BY <1>1, <1>4 DEF Hears, AtGreeting
<1>5. CASE phase = "user" /\ AtUser(sniffer, pending, asked, tries)
  <2>1. AtUser(sniffer', pending', asked, tries) /\ logged' = logged
    BY <1>1, <1>2, <1>5, UserHears
  <2> QED
    BY <1>2, <1>3, <1>5, <2>1 DEF DialogueInv
<1>6. CASE phase = "pass" /\ AtPass(sniffer, pending, login, asked, tries)
  <2>1. AtPass(sniffer', pending', login, asked, tries) /\ logged' = logged
    BY <1>1, <1>2, <1>6, PassHears
  <2> QED
    BY <1>2, <1>3, <1>6, <2>1 DEF DialogueInv
<1>7. CASE phase = "sent" /\ AtSent(sniffer, pending, login, asked, tries)
  <2>1. AtSent(sniffer', pending', login, asked, tries) /\ logged' = logged
    BY <1>1, <1>2, <1>7, SentHears
  <2> QED
    BY <1>2, <1>3, <1>7, <2>1 DEF DialogueInv
<1>8. CASE phase = "in" /\ AtIn(sniffer, pending, asked, tries, logged)
  <2>1. AtIn(sniffer', pending', asked, tries, logged')
    <3>1. AtIn(sniffer', pending', asked, tries, Logs(sniffer', logged))
      BY <1>1, <1>3, <1>8, InHears
    <3> QED
      BY <1>2, <3>1 DEF Logs
  <2> QED
    BY <1>2, <1>3, <1>8, <2>1 DEF DialogueInv
<1>9. CASE phase = "over" /\ AtOver(sniffer, pending, asked, tries)
  <2>1. AtOver(sniffer', pending', asked, tries) /\ logged' = logged
    BY <1>1, <1>2, <1>9, OverHears
  <2> QED
    BY <1>2, <1>3, <1>9, <2>1 DEF DialogueInv
<1> QED
  BY <1>4, <1>5, <1>6, <1>7, <1>8, <1>9 DEF DialogueInv

\* A line is handed over where nothing is left of the one before.
LEMMA SniffIs ==
  ASSUME NEW x, Sniff(x)
  PROVE  /\ pending = << >> /\ sniffer' = sniffer /\ logged' = logged
         /\ sniffer.state \in {"POP3_FINISH", "POP3_SNIFF_SUCCESSFUL"} => pending' = << >>
         /\ sniffer.state \notin {"POP3_FINISH", "POP3_SNIFF_SUCCESSFUL"} => pending' = Heard(x)
BY DEF Sniff, Final

\* Nothing is left, so no line is in the middle.
LEMMA NothingLeft ==
  ASSUME PlainDialogue, NEW l \in Logins, NEW s, SnifferType(s)
  PROVE  /\ ~Greeted(s, << >>) /\ ~HearsErr(s, << >>) /\ ~HearsOk(s, << >>, l)
         /\ \A n \in {0, 5} : ~TakesUser(s, << >>, l, n)
         /\ ~ReadsUser(s, << >>, l) /\ ~TakesPass(s, << >>, l) /\ ~ReadsPass(s, << >>, l)
<1>1. ASSUME NEW w \in Word, NEW rest \in Seq(Symbol), rest # << >>, NEW n \in {0, 5},
             FindsWord(s, << >>, w, n, w \o rest)
      PROVE  FALSE
  <2>1. w \in Seq(Symbol) /\ Len(w) = 5 /\ Len(rest) \in Nat \ {0}
    BY <1>1, LenProperties, EmptySeq DEF Word
  <2>2. w \o rest \in Seq(Symbol) /\ Len(w \o rest) = 5 + Len(rest)
    <3>1. w \o rest \in Seq(Symbol) /\ Len(w \o rest) = Len(w) + Len(rest)
      BY <2>1, ConcatProperties
    <3> QED
      BY <2>1, <3>1
  <2>3. s.read \in 0..5 /\ << >> = Left(w \o rest, s.read)
    BY <1>1 DEF FindsWord
  <2> DEFINE x == w \o rest
             k == s.read
  <2>4. x \in Seq(Symbol) /\ k \in 0..Len(x) /\ k # Len(x) /\ << >> = Left(x, k)
    BY <2>1, <2>2, <2>3
  <2> HIDE DEF x, k
  <2> QED
    BY <2>4, LeftIs
<1>2. ~Greeted(s, << >>)
  BY GreetedOn
<1>3. ~HearsErr(s, << >>)
  BY HearsErrOn
<1>4. ~HearsOk(s, << >>, l)
  BY HearsOkOn
<1>5. ~ReadsUser(s, << >>, l)
  BY ReadsUserOn
<1>6. ~ReadsPass(s, << >>, l)
  BY ReadsPassOn
<1>7. /\ l.user \o Eol \in Seq(Symbol) /\ l.user \o Eol # << >>
      /\ l.pass \o Eol \in Seq(Symbol) /\ l.pass \o Eol # << >>
  BY LoginIs
<1>8. ASSUME NEW n \in {0, 5}, TakesUser(s, << >>, l, n) PROVE FALSE
  <2>1. FindsWord(s, << >>, UserWord, n, UserWord \o (l.user \o Eol))
    BY <1>8 DEF TakesUser, UserLine
  <2> QED
    BY <1>1, <1>7, <2>1, CommandWords
<1>9. ASSUME TakesPass(s, << >>, l) PROVE FALSE
  <2>1. FindsWord(s, << >>, PassWord, 5, PassWord \o (l.pass \o Eol)) /\ 5 \in {0, 5}
    BY <1>9 DEF TakesPass, PassLine
  <2> QED
    BY <1>1, <1>7, <2>1, CommandWords
<1> QED
  BY <1>2, <1>3, <1>4, <1>5, <1>6, <1>8, <1>9

\* The next line, where nothing but a command is looked for.
LEMMA HuntsUserLine ==
  ASSUME NEW s, NEW n \in {0, 5}, HuntsUser(s, << >>, n),
         NEW p \in Seq(Symbol), Quiet(p, UserWord)
  PROVE  HuntsUser(s, p, n)
<1>1. s.state = "POP3_USER_COMMAND" /\ Searches(s, << >>, UserWord, n)
  BY DEF HuntsUser
<1>2. s.read = 0 /\ s.remaining = n
  BY <1>1, CommandWords, SearchesNothing
<1>3. Searches(s, p, UserWord, n)
  BY <1>2, CommandWords, SearchesLine
<1> QED
  BY <1>1, <1>3 DEF HuntsUser

LEMMA HuntingLine ==
  ASSUME NEW s, NEW ts, NEW p \in Seq(Symbol), Quiet(p, UserWord)
  PROVE  /\ Hunting(s, << >>, ts) => Hunting(s, p, ts)
         /\ Missed(s, << >>, ts) => Missed(s, p, ts)
<1>1. 0 \in {0, 5} /\ 5 \in {0, 5}
  OBVIOUS
<1>2. \A n \in {0, 5} : HuntsUser(s, << >>, n) => HuntsUser(s, p, n)
  BY HuntsUserLine
<1> QED
  BY <1>1, <1>2 DEF Hunting, Missed

LEMMA HuntsPassLine ==
  ASSUME NEW s, NEW l, HuntsPass(s, << >>, l), NEW p \in Seq(Symbol), Quiet(p, PassWord)
  PROVE  HuntsPass(s, p, l)
<1> DEFINE n == 5
<1>1. /\ s.state = "POP3_PASS_COMMAND" /\ s.user = Cut(l.user)
      /\ Searches(s, << >>, PassWord, n) /\ n \in {0, 5}
  BY DEF HuntsPass
<1> HIDE DEF n
<1>2. s.read = 0 /\ s.remaining = n
  BY <1>1, CommandWords, SearchesNothing
<1>3. Searches(s, p, PassWord, n)
  BY <1>1, <1>2, CommandWords, SearchesLine
<1> QED
  BY <1>1, <1>3 DEF HuntsPass, n

\* The command itself.
LEMMA FindsLine ==
  ASSUME NEW s, NEW w \in Word, NEW n \in {0, 5}, Searches(s, << >>, w, n),
         NEW x \in Seq(Symbol)
  PROVE  FindsWord(s, x, w, n, x)
<1>1. s.read = 0 /\ s.remaining = n
  BY SearchesNothing
<1>2. Counts(s.remaining, n, s.read)
  BY <1>1, CountsFrom
<1>3. Left(x, s.read) = x
  BY <1>1, LeftAll
<1>4. s.read \in 0..5 /\ s.read # 5
  BY <1>1
<1> QED
  BY <1>2, <1>3, <1>4 DEF FindsWord

LEMMA TakesUserLine ==
  ASSUME PlainDialogue, NEW l \in Logins, NEW s, NEW n \in {0, 5}, HuntsUser(s, << >>, n)
  PROVE  TakesUser(s, UserLine(l), l, n)
<1>1. s.state = "POP3_USER_COMMAND" /\ Searches(s, << >>, UserWord, n)
  BY DEF HuntsUser
<1>2. UserLine(l) \in Seq(Symbol)
  BY CommandLine, CommandWords DEF UserLine
<1>3. FindsWord(s, UserLine(l), UserWord, n, UserLine(l))
  BY <1>1, <1>2, CommandWords, FindsLine
<1> QED
  BY <1>1, <1>3 DEF TakesUser

LEMMA TakesPassLine ==
  ASSUME PlainDialogue, NEW l \in Logins, NEW s, HuntsPass(s, << >>, l)
  PROVE  TakesPass(s, PassLine(l), l)
<1>1. /\ s.state = "POP3_PASS_COMMAND" /\ s.user = Cut(l.user)
      /\ Searches(s, << >>, PassWord, 5) /\ 5 \in {0, 5}
  BY DEF HuntsPass
<1>2. PassLine(l) \in Seq(Symbol)
  BY CommandLine, CommandWords DEF PassLine
<1>3. FindsWord(s, PassLine(l), PassWord, 5, PassLine(l))
  BY <1>1, <1>2, CommandWords, FindsLine
<1> QED
  BY <1>1, <1>3 DEF TakesPass

\* An answer is handed over as it is heard, and nothing is found in it.
LEMMA AnswerQuiet ==
  ASSUME PlainDialogue, NEW l \in Logins, NEW text \in Texts
  PROVE  /\ Answer(Ok, text) \in Seq(Symbol) /\ Answer(Err, text) \in Seq(Symbol)
         /\ Quiet(Answer(Ok, text), UserWord) /\ Quiet(Answer(Ok, text), PassWord)
         /\ Quiet(Answer(Err, text), UserWord)
<1>1. Answer(Ok, text) \in Seq(Symbol) /\ Answer(Err, text) \in Seq(Symbol)
  BY AnswerIs
<1> QED
  BY <1>1 DEF PlainDialogue, Answer

LEMMA GreetDialogue ==
  ASSUME PlainDialogue, IInv, DialogueInv, NEW line \in {Ok, Err, Capa}, Greet(line)
  PROVE  DialogueInv'
<1>1. /\ phase = "greeting" /\ Sniff(line \o Eol) /\ asked' = asked /\ tries' = tries
      /\ phase' = IF line = Ok THEN "user" ELSE "over"
  BY DEF Greet
<1>2. /\ sniffer.state = "POP3_INIT" /\ sniffer.read = 0 /\ sniffer.remaining = 3
      /\ asked = << >> /\ tries = << >> /\ logged = << >>
      /\ tries \in Seq(Try) /\ NeverMissesTwo
  BY <1>1 DEF DialogueInv, AtGreeting
<1>3. Heard(line \o Eol) = line \o Eol /\ line \o Eol \in Seq(Symbol) /\ login \in Logins
  BY ShortLines DEF IInv
<1>4. sniffer' = sniffer /\ logged' = logged /\ pending' = line \o Eol
  BY <1>1, <1>2, <1>3, SniffIs
<1>5. tries' \in Seq(Try) /\ NeverMissesTwo' /\ logged' = << >> /\ Refused(tries')
  BY <1>1, <1>2, <1>4 DEF NeverMissesTwo, Refused
<1>6. CASE line = Ok
  <2>1. Left(Ok \o Eol, 0) = Ok \o Eol
    BY <1>3, <1>6, LeftAll
  <2>2. Greeted(sniffer', pending')
    BY <1>2, <1>4, <1>6, <2>1 DEF Greeted
  <2> QED
    BY <1>1, <1>2, <1>5, <1>6, <2>2 DEF DialogueInv, AtUser
<1>7. CASE line # Ok
  <2>1. Foreign(sniffer', pending')
    BY <1>2, <1>4, <1>7 DEF Foreign
  <2> QED
    BY <1>1, <1>2, <1>5, <1>7, <2>1 DEF DialogueInv, AtOver
<1> QED
  BY <1>6, <1>7

LEMMA SendUserDialogue ==
  ASSUME PlainDialogue, IInv, DialogueInv, NEW l \in Logins, SendUser(l)
  PROVE  DialogueInv'
<1>1. /\ phase = "user" /\ asked = << >> /\ Sniff(UserWord \o l.user \o Eol)
      /\ phase' = "pass" /\ login' = l /\ tries' = tries
  BY DEF SendUser, MaySend, PlainDialogue
<1>2. asked' = <<"USER">>
  BY <1>1, Commands DEF SendUser
<1>3. /\ AtUser(sniffer, << >>, << >>, tries) /\ logged = << >> /\ Refused(tries)
      /\ tries \in Seq(Try) /\ NeverMissesTwo /\ SnifferType(sniffer)
  BY <1>1, SniffIs DEF DialogueInv, IInv, Sound
<1>4. Hunting(sniffer, << >>, tries)
  BY <1>3, NothingLeft DEF AtUser
<1>5. sniffer.state = "POP3_USER_COMMAND"
  BY <1>4 DEF Hunting, HuntsUser
<1>6. Heard(UserWord \o l.user \o Eol) = UserLine(l)
  BY CommandLine, CommandWords DEF UserLine
<1>7. sniffer' = sniffer /\ logged' = logged /\ pending' = UserLine(l)
  BY <1>1, <1>5, <1>6, SniffIs
<1>8. TakesUser(sniffer, UserLine(l), l, 5)
      \/ (TakesUser(sniffer, UserLine(l), l, 0) /\ MayMiss(tries))
  <2>1. \A n \in {0, 5} : HuntsUser(sniffer, << >>, n) => TakesUser(sniffer, UserLine(l), l, n)
    BY TakesUserLine
  <2> QED
    BY <1>4, <2>1 DEF Hunting
<1>9. AtPass(sniffer', pending', login', asked', tries')
  BY <1>1, <1>2, <1>7, <1>8 DEF AtPass
<1> QED
  BY <1>1, <1>3, <1>7, <1>9 DEF DialogueInv, NeverMissesTwo

LEMMA SendPassDialogue ==
  ASSUME PlainDialogue, IInv, DialogueInv, SendPass
  PROVE  DialogueInv'
<1>1. /\ phase = "pass" /\ asked = << >> /\ Sniff(PassWord \o login.pass \o Eol)
      /\ phase' = "sent" /\ login' = login /\ tries' = tries /\ login \in Logins
  BY DEF SendPass, MaySend, PlainDialogue, IInv
<1>2. asked' = <<"PASS">>
  BY <1>1, Commands DEF SendPass
<1>3. /\ AtPass(sniffer, << >>, login, << >>, tries) /\ logged = << >> /\ Refused(tries)
      /\ tries \in Seq(Try) /\ NeverMissesTwo /\ SnifferType(sniffer)
  BY <1>1, SniffIs DEF DialogueInv, IInv, Sound
<1>4. HuntsPass(sniffer, << >>, login) \/ Missed(sniffer, << >>, tries)
  BY <1>3, Commands DEF AtPass
<1>5. sniffer.state \in {"POP3_USER_COMMAND", "POP3_PASS_COMMAND"}
  BY <1>4 DEF Missed, HuntsUser, HuntsPass
<1>6. Heard(PassWord \o login.pass \o Eol) = PassLine(login) /\ PassLine(login) \in Seq(Symbol)
  BY <1>1, CommandLine, CommandWords DEF PassLine
<1>7. sniffer' = sniffer /\ logged' = logged /\ pending' = PassLine(login)
  BY <1>1, <1>5, <1>6, SniffIs
<1>8. TakesPass(sniffer, PassLine(login), login) \/ Missed(sniffer, PassLine(login), tries)
  BY <1>1, <1>4, <1>6, TakesPassLine, HuntingLine, PassLineQuiet
<1>9. AtSent(sniffer', pending', login', asked', tries')
  BY <1>1, <1>2, <1>7, <1>8 DEF AtSent
<1> QED
  BY <1>1, <1>3, <1>7, <1>9 DEF DialogueInv, NeverMissesTwo

\* A line that is not a login's: whatever is hunted, still is.
LEMMA QuietLine ==
  ASSUME PlainDialogue, IInv, NEW x \in Seq(Symbol), NEW y, Sniff(y), Heard(y) = x,
         Quiet(x, UserWord), Quiet(x, PassWord), DialogueInv,
         phase \in {"user", "pass", "in"}, phase' = phase, login' = login, tries' = tries,
         asked' \in {<< >>, <<"CAPA">>},
         phase # "pass" => asked \in {<< >>, <<"CAPA">>},
         phase = "user" => asked = << >> \/ asked = <<"CAPA">>
  PROVE  DialogueInv'
<1>1. /\ pending = << >> /\ sniffer' = sniffer /\ logged' = logged /\ SnifferType(sniffer)
      /\ login \in Logins
  BY SniffIs DEF IInv, Sound
<1>2. /\ tries' \in Seq(Try) /\ NeverMissesTwo' /\ tries \in Seq(Try)
      /\ phase # "in" => logged' = << >> /\ Refused(tries')
  BY <1>1 DEF DialogueInv, NeverMissesTwo
<1>3. sniffer.state \notin {"POP3_FINISH", "POP3_SNIFF_SUCCESSFUL"} => pending' = x
  BY SniffIs
<1>4. CASE phase = "user"
  <2>1. Hunting(sniffer, << >>, tries)
    BY <1>1, <1>4, NothingLeft DEF DialogueInv, AtUser
  <2>2. sniffer.state = "POP3_USER_COMMAND"
    BY <2>1 DEF Hunting, HuntsUser
  <2>3. Hunting(sniffer, x, tries)
    BY <2>1, HuntingLine
  <2>4. AtUser(sniffer', pending', asked', tries')
    BY <1>1, <1>3, <2>2, <2>3 DEF AtUser
  <2> QED
    BY <1>2, <1>4, <2>4 DEF DialogueInv
<1>5. CASE phase = "pass"
  <2>1. AtPass(sniffer, << >>, login, asked, tries)
    BY <1>1, <1>5 DEF DialogueInv
  <2>2. \A n \in {0, 5} : ~TakesUser(sniffer, << >>, login, n)
    BY <1>1, NothingLeft
  <2>3. ~TakesUser(sniffer, << >>, login, 0) /\ ~TakesUser(sniffer, << >>, login, 5)
    BY <2>2
  <2>4. HuntsPass(sniffer, << >>, login) \/ Missed(sniffer, << >>, tries)
    BY <1>1, <2>1, <2>3, NothingLeft DEF AtPass
  <2>5. sniffer.state \in {"POP3_USER_COMMAND", "POP3_PASS_COMMAND"}
    BY <2>4 DEF Missed, HuntsUser, HuntsPass
  <2>6. HuntsPass(sniffer, x, login) \/ Missed(sniffer, x, tries)
    BY <2>4, HuntingLine, HuntsPassLine
  <2>7. AtPass(sniffer', pending', login', asked', tries')
    BY <1>1, <1>3, <2>5, <2>6 DEF AtPass
  <2> QED
    BY <1>2, <1>5, <2>7 DEF DialogueInv
<1>6. CASE phase = "in"
  <2> DEFINE last == tries[Len(tries)]
  <2>1. AtIn(sniffer, << >>, asked, tries, logged)
    BY <1>1, <1>6 DEF DialogueInv
  <2>2. tries # << >> /\ last.ok
    BY <2>1 DEF AtIn
  <2>3. last.login \in Logins
    <3>1. last \in Try
      BY <1>2, <2>2, LastIn
    <3> QED
      BY <3>1 DEF Try
  <2>4. ~HearsOk(sniffer, << >>, last.login)
    BY <1>1, <2>3, NothingLeft
  <2>5. CASE sniffer.state = "POP3_SNIFF_SUCCESSFUL" /\ MayMiss(tries)
             /\ logged = <<Credentials(last.login)>>
    <3>1. pending' = << >>
      BY <2>5, SniffIs
    <3>2. AtIn(sniffer', pending', asked', tries', logged')
      BY <1>1, <2>2, <2>5, <3>1 DEF AtIn
    <3> QED
      BY <1>2, <1>6, <3>2 DEF DialogueInv
  <2>6. CASE HuntsUser(sniffer, << >>, 5) /\ ~MayMiss(tries) /\ logged = << >>
    <3>1. \A n \in {0, 5} : HuntsUser(sniffer, << >>, n) => HuntsUser(sniffer, x, n)
      BY HuntsUserLine
    <3>2. HuntsUser(sniffer, x, 5) /\ sniffer.state = "POP3_USER_COMMAND"
      BY <2>6, <3>1 DEF HuntsUser
    <3>3. AtIn(sniffer', pending', asked', tries', logged')
      BY <1>1, <1>3, <2>2, <2>6, <3>2 DEF AtIn
    <3> QED
      BY <1>2, <1>6, <3>3 DEF DialogueInv
  <2> QED
    BY <2>1, <2>4, <2>5, <2>6 DEF AtIn
<1> QED
  BY <1>4, <1>5, <1>6

LEMMA SendOtherDialogue ==
  ASSUME PlainDialogue, IInv, DialogueInv, SendOther
  PROVE  DialogueInv'
<1>1. /\ phase \in {"user", "pass", "in"} /\ phase' = phase /\ login' = login /\ tries' = tries
      /\ asked = << >> /\ asked' = <<"CAPA">> /\ Sniff(Capa \o Eol)
  BY DEF SendOther
<1>2. /\ Capa \o Eol \in Seq(Symbol) /\ Heard(Capa \o Eol) = Capa \o Eol
      /\ Quiet(Capa \o Eol, UserWord) /\ Quiet(Capa \o Eol, PassWord)
  BY ShortLines DEF IInv
<1> QED
  BY <1>1, <1>2, QuietLine

LEMMA AnswerOtherDialogue ==
  ASSUME PlainDialogue, IInv, DialogueInv, NEW text \in Texts, AnswerOther(text)
  PROVE  DialogueInv'
<1>1. /\ asked # << >> /\ Head(asked) = "CAPA" /\ Sniff(Ok \o text \o Eol)
      /\ asked' = Tail(asked) /\ phase' = phase /\ login' = login /\ tries' = tries
  BY DEF AnswerOther
<1>2. asked # <<"USER">> /\ asked # <<"PASS">>
  BY <1>1, Commands
<1>3. phase \in {"user", "pass", "in"} /\ asked = <<"CAPA">>
  BY <1>1, <1>2 DEF DialogueInv, AtGreeting, AtUser, AtPass, AtSent, AtIn, AtOver
<1>4. asked' = << >>
  BY <1>1, <1>3, Commands
<1> DEFINE x == Answer(Ok, text)
<1>5. x \in Seq(Symbol) /\ Quiet(x, UserWord) /\ Quiet(x, PassWord)
  BY AnswerQuiet DEF IInv
<1>6. Heard(Ok \o text \o Eol) = x
  BY DEF Answer
<1> HIDE DEF x
<1> QED
  BY <1>1, <1>3, <1>4, <1>5, <1>6, QuietLine

LEMMA AnswerUserDialogue ==
  ASSUME PlainDialogue, IInv, DialogueInv, NEW ok \in BOOLEAN, NEW text \in Texts,
         AnswerUser(ok, text)
  PROVE  DialogueInv'
<1>1. ok
  BY DEF AnswerUser, PlainDialogue
<1>2. /\ asked # << >> /\ Head(asked) = "USER" /\ Sniff(Ok \o text \o Eol)
      /\ asked' = Tail(asked) /\ phase' = phase /\ login' = login /\ tries' = tries
  BY <1>1 DEF AnswerUser
<1>3. asked # <<"CAPA">> /\ asked # <<"PASS">>
  BY <1>2, Commands
<1>4. phase = "pass" /\ asked = <<"USER">>
  BY <1>2, <1>3 DEF DialogueInv, AtGreeting, AtUser, AtPass, AtSent, AtIn, AtOver
<1>5. asked' = << >>
  BY <1>2, <1>4, Commands
<1> DEFINE x == Answer(Ok, text)
<1>6. x \in Seq(Symbol) /\ Quiet(x, UserWord) /\ Quiet(x, PassWord)
  BY AnswerQuiet DEF IInv
<1>7. Heard(Ok \o text \o Eol) = x
  BY DEF Answer
<1> HIDE DEF x
<1> QED
  BY <1>2, <1>4, <1>5, <1>6, <1>7, QuietLine

\* A login more in the history: of the last two one was looked at.
LEMMA TriesMore ==
  ASSUME tries \in Seq(Try), NeverMissesTwo, NEW try \in Try, tries' = Append(tries, try),
         ~try.looked => MayMiss(tries)
  PROVE  /\ tries' \in Seq(Try) /\ NeverMissesTwo' /\ tries' # << >>
         /\ tries'[Len(tries')] = try
<1> DEFINE ts == tries'
           n == Len(tries)
<1>1. /\ ts \in Seq(Try) /\ n \in Nat /\ Len(ts) = n + 1 /\ ts[n + 1] = try
      /\ \A i \in 1..n : ts[i] = tries[i]
  BY AppendProperties, LenProperties
<1>2. ts # << >> /\ ts[Len(ts)] = try
  BY <1>1, EmptySeq
<1>3. DOMAIN tries = 1..n /\ DOMAIN ts = 1..(n + 1)
  BY <1>1, LenProperties
<1>4. \A i \in 1..n : ~tries[i].looked => i > 1 /\ tries[i - 1].looked
  BY <1>3 DEF NeverMissesTwo
<1>5. MayMiss(tries) => n \in 1..n /\ tries[n].looked
  BY <1>1, EmptySeq DEF MayMiss
<1> HIDE DEF ts, n
<1>6. ASSUME NEW i \in 1..(n + 1), ~ts[i].looked PROVE i > 1 /\ ts[i - 1].looked
  <2>1. CASE i \in 1..n
    <3>1. i > 1 /\ tries[i - 1].looked
      BY <1>1, <1>4, <1>6, <2>1
    <3>2. i - 1 \in 1..n
      BY <1>1, <2>1, <3>1
    <3> QED
      BY <1>1, <3>1, <3>2
  <2>2. CASE i = n + 1
    <3>1. MayMiss(tries)
      BY <1>1, <1>6, <2>2
    <3>2. n \in 1..n /\ tries[n].looked /\ i - 1 = n /\ i > 1
      BY <1>1, <1>5, <2>2, <3>1
    <3> QED
      BY <1>1, <3>2
  <2> QED
    BY <1>1, <2>1, <2>2
<1>7. \A i \in DOMAIN ts : ~ts[i].looked => i > 1 /\ ts[i - 1].looked
  BY <1>3, <1>6
<1> QED
  BY <1>1, <1>2, <1>7 DEF NeverMissesTwo, ts

\* The verdict of a login that the sniffer knows, and of one that it missed.
LEMMA AnswerPassDialogue ==
  ASSUME PlainDialogue, IInv, DialogueInv, NEW ok \in BOOLEAN, NEW text \in Texts,
         AnswerPass(ok, text)
  PROVE  DialogueInv'
<1> DEFINE try == [login |-> login, ok |-> ok, looked |-> LookedAt]
           x == Answer(IF ok THEN Ok ELSE Err, text)
           y == (IF ok THEN Ok ELSE Err) \o text \o Eol
<1>1. /\ asked # << >> /\ Head(asked) = "PASS" /\ Sniff(y)
      /\ asked' = Tail(asked) /\ login' = login /\ tries' = Append(tries, try)
  BY DEF AnswerPass
<1>2. (ok => phase' = "in") /\ (~ok => phase' \in {"user", "over"})
  <2> DEFINE few == Len(tries') < MaxTries
  <2>1. phase' = CASE ok -> "in" [] ~ok /\ few -> "user" [] OTHER -> "over"
    BY DEF AnswerPass
  <2> HIDE DEF few
  <2>2. CASE ok
    BY <2>1, <2>2
  <2>3. CASE ~ok /\ few
    BY <2>1, <2>3
  <2>4. CASE ~ok /\ ~few
    BY <2>1, <2>4
  <2> QED
    BY <2>2, <2>3, <2>4
<1>3. asked # <<"USER">> /\ asked # <<"CAPA">>
  BY <1>1, Commands
<1>4. phase = "sent" /\ asked = <<"PASS">>
  BY <1>1, <1>3 DEF DialogueInv, AtGreeting, AtUser, AtPass, AtSent, AtIn, AtOver
<1>5. asked' = << >>
  BY <1>1, <1>4, Commands
<1>6. /\ pending = << >> /\ sniffer' = sniffer /\ logged' = logged /\ login \in Logins
      /\ SnifferType(sniffer)
      /\ sniffer.state \notin {"POP3_FINISH", "POP3_SNIFF_SUCCESSFUL"} => pending' = Heard(y)
  BY <1>1, SniffIs DEF IInv, Sound
<1>7. /\ AtSent(sniffer, << >>, login, asked, tries)
      /\ tries \in Seq(Try) /\ NeverMissesTwo /\ logged = << >>
  BY <1>4, <1>6 DEF DialogueInv
<1>8. Awaits(sniffer, << >>, login) \/ Missed(sniffer, << >>, tries)
  BY <1>6, <1>7, NothingLeft DEF AtSent
<1>9. Heard(y) = x /\ x \in Seq(Symbol) /\ Quiet(x, UserWord)
  BY <1>6, AnswerQuiet DEF Answer
<1>10. /\ try \in Try /\ try.login = login /\ try.ok = ok /\ try.looked = LookedAt
  BY <1>6 DEF Try, LookedAt
<1>11. LookedAt <=> Awaits(sniffer, << >>, login)
  <2>1. Awaits(sniffer, << >>, login) => LookedAt
    BY DEF Awaits, Knows, LookedAt, Credentials
  <2>2. Missed(sniffer, << >>, tries) => ~LookedAt
    BY DEF Missed, HuntsUser, LookedAt
  <2>3. Missed(sniffer, << >>, tries) => ~Awaits(sniffer, << >>, login)
    BY DEF Missed, HuntsUser, Awaits
  <2> QED
    BY <1>8, <2>1, <2>2, <2>3
<1> HIDE DEF try, x, y
<1>12. ~try.looked => MayMiss(tries)
  BY <1>8, <1>10, <1>11 DEF Missed
<1>13. /\ tries' \in Seq(Try) /\ NeverMissesTwo' /\ tries' # << >>
       /\ tries'[Len(tries')] = try
  BY <1>1, <1>7, <1>10, <1>12, TriesMore
<1>14. /\ MayMiss(tries') <=> Awaits(sniffer, << >>, login)
       /\ Refused(tries') <=> ~ok
       /\ tries'[Len(tries')].ok = ok /\ tries'[Len(tries')].login = login
  BY <1>10, <1>11, <1>13 DEF MayMiss, Refused
<1>15. logged' = << >>
  BY <1>6, <1>7
<1>16. CASE Awaits(sniffer, << >>, login)
  <2>1. /\ sniffer.state = "POP3_CHECK_CREDS" /\ Knows(sniffer, login)
        /\ sniffer.remaining = 0 /\ sniffer.read = 0 /\ sniffer.check_read = 0
    BY <1>16 DEF Awaits
  <2>2. pending' = x /\ x = Left(x, 0)
    BY <1>6, <1>9, <2>1, LeftAll
  <2>3. CASE ok
    <3>1. x = Answer(Ok, text)
      BY <2>3 DEF x
    <3>2. HearsOk(sniffer', pending', login)
      BY <1>6, <2>1, <2>2, <3>1 DEF HearsOk
    <3>3. AtIn(sniffer', pending', asked', tries', logged')
      BY <1>5, <1>13, <1>14, <1>15, <1>16, <2>3, <3>2 DEF AtIn
    <3> QED
      BY <1>2, <1>13, <2>3, <3>3 DEF DialogueInv
  <2>4. CASE ~ok
    <3>1. x = Answer(Err, text)
      BY <2>4 DEF x
    <3>2. HearsErr(sniffer', pending')
      BY <1>6, <2>1, <2>2, <3>1 DEF HearsErr
    <3>3. /\ AtUser(sniffer', pending', asked', tries')
          /\ AtOver(sniffer', pending', asked', tries')
      BY <1>5, <1>14, <1>16, <3>2 DEF AtUser, AtOver
    <3>4. CASE phase' = "user"
      BY <1>13, <1>14, <1>15, <2>4, <3>3, <3>4 DEF DialogueInv
    <3>5. CASE phase' = "over"
      BY <1>13, <1>14, <1>15, <2>4, <3>3, <3>5 DEF DialogueInv
    <3> QED
      BY <1>2, <2>4, <3>4, <3>5
  <2> QED
    BY <2>3, <2>4
<1>17. CASE Missed(sniffer, << >>, tries)
  <2>1. HuntsUser(sniffer, << >>, 5) /\ sniffer.state = "POP3_USER_COMMAND"
    BY <1>17 DEF Missed, HuntsUser
  <2>2. pending' = x
    BY <1>6, <1>9, <2>1
  <2>3. HuntsUser(sniffer', pending', 5)
    <3>1. \A n \in {0, 5} : HuntsUser(sniffer, << >>, n) => HuntsUser(sniffer, x, n)
      BY <1>9, HuntsUserLine
    <3> QED
      BY <1>6, <2>1, <2>2, <3>1
  <2>4. ~MayMiss(tries')
    BY <1>14, <2>1 DEF Awaits
  <2>5. CASE ok
    <3>1. AtIn(sniffer', pending', asked', tries', logged')
      BY <1>5, <1>13, <1>14, <1>15, <2>3, <2>4, <2>5 DEF AtIn
    <3> QED
      BY <1>2, <1>13, <2>5, <3>1 DEF DialogueInv
  <2>6. CASE ~ok
    <3>1. /\ AtUser(sniffer', pending', asked', tries')
          /\ AtOver(sniffer', pending', asked', tries')
      BY <1>5, <1>13, <2>3 DEF AtUser, AtOver, Hunting
    <3>2. CASE phase' = "user"
      BY <1>13, <1>14, <1>15, <2>6, <3>1, <3>2 DEF DialogueInv
    <3>3. CASE phase' = "over"
      BY <1>13, <1>14, <1>15, <2>6, <3>1, <3>3 DEF DialogueInv
    <3> QED
      BY <1>2, <2>6, <3>2, <3>3
  <2> QED
    BY <2>5, <2>6
<1> QED
  BY <1>8, <1>16, <1>17

LEMMA StepDialogue ==
  ASSUME PlainDialogue, IInv, IInv', DialogueInv, [Next]_vars
  PROVE  DialogueInv'
<1>1. CASE Consume
  BY <1>1, ConsumeDialogue
<1>2. ASSUME NEW line \in {Ok, Err, Capa}, Greet(line) PROVE DialogueInv'
  BY <1>2, GreetDialogue
<1>3. ASSUME NEW l \in Logins, SendUser(l) PROVE DialogueInv'
  BY <1>3, SendUserDialogue
<1>4. CASE SendPass
  BY <1>4, SendPassDialogue
<1>5. CASE SendOther
  BY <1>5, SendOtherDialogue
<1>6. ASSUME NEW text \in Texts, NEW ok \in BOOLEAN, AnswerUser(ok, text) PROVE DialogueInv'
  BY <1>6, AnswerUserDialogue
<1>7. ASSUME NEW text \in Texts, NEW ok \in BOOLEAN, AnswerPass(ok, text) PROVE DialogueInv'
  BY <1>7, AnswerPassDialogue
<1>8. ASSUME NEW text \in Texts, AnswerOther(text) PROVE DialogueInv'
  BY <1>8, AnswerOtherDialogue
<1>9. CASE UNCHANGED vars
  BY <1>9 DEF vars, DialogueInv, NeverMissesTwo
<1>10. CASE Over
  BY <1>9, <1>10 DEF Over
<1> QED
  BY <1>1, <1>2, <1>3, <1>4, <1>5, <1>6, <1>7, <1>8, <1>9, <1>10 DEF Next, Client, Server

LEMMA InitDialogue ==
  ASSUME Init PROVE DialogueInv
<1>1. /\ sniffer.state = "POP3_INIT" /\ sniffer.read = 0 /\ sniffer.remaining = 3
      /\ pending = << >> /\ asked = << >> /\ tries = << >> /\ logged = << >>
      /\ phase = "greeting"
  BY WordLengths DEF Init
<1>2. AtGreeting(sniffer, pending, asked, tries)
  BY <1>1 DEF AtGreeting
<1>3. tries \in Seq(Try) /\ DOMAIN tries = {}
  BY <1>1, EmptySeq
<1> QED
  BY <1>1, <1>2, <1>3 DEF DialogueInv, NeverMissesTwo, Refused

LEMMA InductiveDialogue ==
  ASSUME PlainDialogue PROVE Spec => []DialogueInv
<1>1. Init => DialogueInv
  BY InitDialogue
<1>2. IInv /\ IInv' /\ DialogueInv /\ [Next]_vars => DialogueInv'
  BY StepDialogue
<1> QED
  BY <1>1, <1>2, Inductive, PTL DEF Spec

-----------------------------------------------------------------------------
(* Theorems *)

\* No field holds more than it has room for and no counter leaves its range,
\* whatever the two sides of the tunnel send, for every size of the fields.
THEOREM TypeCorrect == Spec => []TypeOK
<1>1. IInv => TypeOK
  BY DEF IInv, Sound, SnifferType, TypeOK, Uint8
<1> QED
  BY <1>1, Inductive, PTL

\* No comparison reads behind the terminator of its word, although remaining
\* may have wrapped.
THEOREM IndexWithinWordCorrect == Spec => []IndexWithinWord
<1>1. IInv => IndexWithinWord
  BY WordLengths DEF IInv, Sound, InWord, IndexWithinWord
<1> QED
  BY <1>1, Inductive, PTL

\* Where nothing in a dialogue but the two commands looks like them, the sniffer
\* logs the credentials of the login that the server has accepted, and none that
\* it has refused.
THEOREM LoggedWereAcceptedCorrect == PlainDialogue => (Spec => []LoggedWereAccepted)
<1> SUFFICES ASSUME PlainDialogue PROVE Spec => []LoggedWereAccepted
  OBVIOUS
<1>1. DialogueInv => LoggedWereAccepted
  BY DEF DialogueInv, AtIn, LoggedWereAccepted, LastTry
<1> QED
  BY <1>1, InductiveDialogue, PTL

\* There, an accepted login is logged exactly if the sniffer had its two commands.
THEOREM LoggedIffLookedAtCorrect == PlainDialogue => (Spec => []LoggedIffLookedAt)
<1> SUFFICES ASSUME PlainDialogue PROVE Spec => []LoggedIffLookedAt
  OBVIOUS
<1>1. IInv /\ DialogueInv => LoggedIffLookedAt
  <2> SUFFICES ASSUME IInv, DialogueInv, pending = << >>, tries # << >>
               PROVE  logged # << >> <=> LastTry.ok /\ LastTry.looked
    BY DEF LoggedIffLookedAt
  <2>1. CASE phase # "in"
    BY <2>1 DEF DialogueInv, Refused, LastTry
  <2>2. CASE phase = "in"
    <3>1. AtIn(sniffer, << >>, asked, tries, logged) /\ tries \in Seq(Try)
          /\ SnifferType(sniffer)
      BY <2>2 DEF DialogueInv, IInv, Sound
    <3>2. tries[Len(tries)].login \in Logins
      <4>1. tries[Len(tries)] \in Try
        BY <3>1, LastIn
      <4> QED
        BY <4>1 DEF Try
    <3>3. ~HearsOk(sniffer, << >>, tries[Len(tries)].login)
      BY <3>1, <3>2, NothingLeft
    <3>4. \/ MayMiss(tries) /\ logged = <<Credentials(tries[Len(tries)].login)>>
          \/ ~MayMiss(tries) /\ logged = << >>
      BY <3>1, <3>3 DEF AtIn
    <3>5. tries[Len(tries)].ok
      BY <3>1 DEF AtIn
    <3> QED
      BY <3>4, <3>5, Commands DEF MayMiss, LastTry
  <2> QED
    BY <2>1, <2>2
<1> QED
  BY <1>1, Inductive, InductiveDialogue, PTL

\* There, the first login is not missed, and no two in a row are, although -ERR
\* leaves the counter of the word at 0.
THEOREM NeverMissesTwoCorrect == PlainDialogue => (Spec => []NeverMissesTwo)
<1> SUFFICES ASSUME PlainDialogue PROVE Spec => []NeverMissesTwo
  OBVIOUS
<1>1. DialogueInv => NeverMissesTwo
  BY DEF DialogueInv
<1> QED
  BY <1>1, InductiveDialogue, PTL

=============================================================================
