--------------------------- MODULE MkImageProofs ---------------------------
(***************************************************************************)
(* What mkimage.py makes of a command line, for every line of any length   *)
(* whose quotes come in pairs.                                             *)
(***************************************************************************)
EXTENDS MkImage, FiniteSetTheorems, SequenceTheorems, WellFoundedInduction, TLAPS

-----------------------------------------------------------------------------
(* Induction along a sequence, from the least number principle: the        *)
(* library's own induction theorems take an operator, these take a set and *)
(* a function.                                                             *)

\* A set of numbers has a least one.
LEMMA LeastNumber ==
  ASSUME NEW T \in SUBSET Nat, T # {}
  PROVE  \E x \in T : \A y \in T : x <= y
<1> DEFINE R == {p \in Nat \X Nat : p[1] < p[2]}
<1>1. OpToRel(<, Nat) = R
  BY DEF OpToRel
<1>2. IsWellFoundedOn(R, Nat)
  BY <1>1, NatLessThanWellFounded
<1>3. PICK x \in T : \A y \in T : <<y, x>> \notin R
  BY <1>2, WFMin
<1>4. \A y \in T : ~(y < x)
  BY <1>3
<1>5. QED
  BY <1>4

\* What holds of 0 and goes from each number to the next holds up to the last.
LEMMA StepByStep ==
  ASSUME NEW N \in Nat, NEW T,
         0 \in T, \A n \in 0..N : n # N /\ n \in T => n + 1 \in T
  PROVE  0..N \subseteq T
<1> SUFFICES ASSUME (0..N) \ T # {} PROVE FALSE
    OBVIOUS
<1>1. PICK x \in (0..N) \ T : \A y \in (0..N) \ T : x <= y
  <2>1. (0..N) \ T \in SUBSET Nat
    OBVIOUS
  <2>2. QED
    BY <2>1, LeastNumber
<1>2. x # 0 /\ x - 1 \in 0..N /\ x - 1 # N
  BY <1>1
<1>3. x - 1 \in T
  BY <1>1, <1>2
<1>4. QED
  BY <1>1, <1>2, <1>3

\* N steps in S, and what they lead to from a start.
Stepping(N, S) == [(1..N) \X S -> S]

Leads(start, N, step, S) ==
  \E f \in [0..N -> S] : f[0] = start /\ \A n \in 1..N : f[n] = step[<<n, f[n - 1]>>]

\* Steps taken one after another lead somewhere.
LEMMA StepsLead ==
  ASSUME NEW S, NEW start \in S, NEW N \in Nat, NEW step \in Stepping(N, S)
  PROVE  Leads(start, N, step, S)
<1> USE DEF Stepping
<1> DEFINE Led(n, f) == f \in [0..n -> S] /\ f[0] = start /\ \A i \in 1..n : f[i] = step[<<i, f[i - 1]>>]
           T == {n \in 0..N : \E f \in [0..n -> S] : Led(n, f)}
<1>1. 0 \in T
  <2> DEFINE g == [i \in 0..0 |-> start]
  <2>1. g \in [0..0 -> S] /\ g[0] = start
    OBVIOUS
  <2>2. Led(0, g)
    BY <2>1
  <2> HIDE DEF g, Led
  <2>3. QED
    BY <2>1, <2>2
<1>2. ASSUME NEW n \in 0..N, n # N, n \in T PROVE n + 1 \in T
  <2>1. PICK f \in [0..n -> S] : Led(n, f)
    BY <1>2
  <2> DEFINE g == [i \in 0..n + 1 |-> IF i = n + 1 THEN step[<<n + 1, f[n]>>] ELSE f[i]]
  <2>2. n + 1 \in 1..N /\ f[n] \in S
    BY <1>2
  <2>3. g \in [0..n + 1 -> S]
    BY <2>2
  <2>4. g[0] = start
    BY <2>1
  <2>5. ASSUME NEW i \in 1..n + 1 PROVE g[i] = step[<<i, g[i - 1]>>]
    <3>1. CASE i = n + 1
      <4>1. n \in 0..n + 1 /\ n # n + 1 /\ n + 1 \in 0..n + 1
        OBVIOUS
      <4>2. g[n] = f[n] /\ g[n + 1] = step[<<n + 1, f[n]>>]
        BY <4>1
      <4> HIDE DEF g
      <4>3. QED
        BY <3>1, <4>2
    <3>2. CASE i # n + 1
      <4>1. i \in 1..n /\ i - 1 \in 0..n /\ i - 1 # n + 1
        BY <3>2
      <4>2. QED
        BY <2>1, <3>2, <4>1
    <3>3. QED
      BY <3>1, <3>2
  <2>6. Led(n + 1, g)
    BY <2>3, <2>4, <2>5
  <2> HIDE DEF g, Led
  <2>7. QED
    BY <2>2, <2>3, <2>6
<1>3. N \in T
  <2> HIDE DEF T
  <2>1. 0..N \subseteq T
    BY <1>1, <1>2, StepByStep
  <2>2. QED
    BY <2>1
<1>4. PICK f \in [0..N -> S] : Led(N, f)
  BY <1>3
<1>5. QED
  BY <1>4 DEF Leads

\* What holds of the empty sequence, and of a sequence with one more whenever
\* it holds without, holds of every sequence.
LEMMA Appending ==
  ASSUME NEW S, NEW T, <<>> \in T,
         \A s \in Seq(S), c \in S : s \in T => Append(s, c) \in T
  PROVE  Seq(S) \subseteq T
<1> SUFFICES ASSUME NEW t \in Seq(S), t \notin T PROVE FALSE
    OBVIOUS
<1> DEFINE L == {n \in Nat : \E s \in Seq(S) : s \notin T /\ Len(s) = n}
<1>1. Len(t) \in L
  OBVIOUS
<1>2. PICK n \in L : \A m \in L : n <= m
  <2>1. L \in SUBSET Nat /\ L # {}
    BY <1>1
  <2> HIDE DEF L
  <2>2. QED
    BY <2>1, LeastNumber
<1>3. PICK s \in Seq(S) : s \notin T /\ Len(s) = n
  OBVIOUS
<1>4. s # <<>>
  BY <1>3
<1>5. PICK u \in Seq(S), c \in S : s = Append(u, c)
  BY <1>4, SequenceEmptyOrAppend
<1>6. Len(s) = Len(u) + 1
  BY <1>5
<1>7. u \notin T
  BY <1>3, <1>5
<1>8. Len(u) \in L
  BY <1>7
<1> HIDE DEF L
<1>9. Len(u) \in Nat /\ n \in Nat /\ Len(u) < n
  BY <1>3, <1>6
<1>10. QED
  BY <1>2, <1>8, <1>9

\* A stretch with one more.
LEMMA StretchGrows ==
  ASSUME NEW S, NEW s \in Seq(S), NEW m \in 1..Len(s), NEW n \in m..Len(s)
  PROVE  SubSeq(s, m, n) = Append(SubSeq(s, m, n - 1), s[n])
<1>1. SubSeq(s, m, n) = SubSeq(s, m, n - 1) \o <<s[n]>>
  BY SubSeqRecursiveSecond
<1>2. SubSeq(s, m, n - 1) \in Seq(S) /\ s[n] \in S
  OBVIOUS
<1>3. QED
  BY <1>1, <1>2, AppendIsConcat

\* Two put together, with one more.
LEMMA ConcatGrows ==
  ASSUME NEW S, NEW s \in Seq(S), NEW t \in Seq(S), NEW c \in S
  PROVE  s \o t \in Seq(S) /\ s \o Append(t, c) = Append(s \o t, c)
<1> DEFINE u == s \o t
<1>1. u \in Seq(S)
  BY ConcatProperties
<1>2. <<c>> \in Seq(S)
  OBVIOUS
<1>3. Append(t, c) = t \o <<c>>
  BY AppendIsConcat
<1>4. Append(u, c) = u \o <<c>>
  <2> HIDE DEF u
  <2>1. QED
    BY <1>1, AppendIsConcat
<1>5. u \o <<c>> = s \o (t \o <<c>>)
  <2> DEFINE v == <<c>>
  <2>1. v \in Seq(S)
    BY <1>2
  <2> HIDE DEF v
  <2>2. (s \o t) \o v = s \o (t \o v)
    BY <2>1, ConcatAssociative
  <2>3. QED
    BY <2>2 DEF v
<1>6. QED
  BY <1>1, <1>3, <1>4, <1>5

-----------------------------------------------------------------------------
(* Reading a command line, piece by piece.                                 *)

\* The pieces of a donor's line, and the one that is appended.
Pieces == Chars \cup {Stay}

LEMMA SpaceIsNoQuote == Space # Quote
BY DEF Space, Quote

ReadState == [words : Seq(Seq(Pieces)), word : Seq(Pieces), quoted : BOOLEAN]

\* What was read after each of the pieces.
Reads(r, cmd) ==
  /\ r \in [0..Len(cmd) -> ReadState]
  /\ r[0] = NothingRead
  /\ \A n \in 1..Len(cmd) : r[n] = ReadChar(r[n - 1], cmd[n])

\* The words there are once the last one is ended.
Ended(s) == IF s.word = <<>> THEN s.words ELSE Append(s.words, s.word)

\* A piece ends the word, or goes into it.
LEMMA ReadCharIs ==
  ASSUME NEW s \in ReadState, NEW c \in Pieces
  PROVE  /\ ReadChar(s, c) \in ReadState
         /\ c = Space /\ ~s.quoted =>
              ReadChar(s, c) = [words |-> Ended(s), word |-> <<>>, quoted |-> FALSE]
         /\ ~(c = Space /\ ~s.quoted) =>
              ReadChar(s, c) = [words |-> s.words, word |-> Append(s.word, c),
                                quoted |-> (s.quoted # (c = Quote))]
<1>1. s = [words |-> s.words, word |-> s.word, quoted |-> s.quoted]
  BY DEF ReadState
<1>2. s.words \in Seq(Seq(Pieces)) /\ s.word \in Seq(Pieces) /\ s.quoted \in BOOLEAN
  BY DEF ReadState
<1>3. CASE c = Space /\ ~s.quoted
  <2>1. s.quoted = FALSE
    BY <1>2, <1>3
  <2>2. ReadChar(s, c) = [words |-> Ended(s), word |-> <<>>, quoted |-> FALSE]
    BY <1>1, <1>3, <2>1 DEF ReadChar, Ended
  <2>3. Ended(s) \in Seq(Seq(Pieces)) /\ <<>> \in Seq(Pieces)
    BY <1>2 DEF Ended
  <2>4. [words |-> Ended(s), word |-> <<>>, quoted |-> FALSE] \in ReadState
    BY <2>3 DEF ReadState
  <2>5. QED
    BY <1>3, <2>2, <2>4
<1>4. CASE ~(c = Space /\ ~s.quoted)
  <2> DEFINE q == (s.quoted # (c = Quote))
  <2>1. ReadChar(s, c) = [words |-> s.words, word |-> Append(s.word, c), quoted |-> q]
    BY <1>1, <1>4 DEF ReadChar
  <2>2. Append(s.word, c) \in Seq(Pieces)
    BY <1>2
  <2>3. q \in BOOLEAN
    OBVIOUS
  <2> HIDE DEF q
  <2>4. [words |-> s.words, word |-> Append(s.word, c), quoted |-> q] \in ReadState
    BY <1>2, <2>2, <2>3 DEF ReadState
  <2>5. ReadChar(s, c) \in ReadState
    BY <2>1, <2>4
  <2>6. QED
    BY <1>4, <2>1, <2>5 DEF q
<1>5. QED
  BY <1>3, <1>4

\* It has been read then.
LEMMA ReadCharTyped == \A s \in ReadState, c \in Pieces : ReadChar(s, c) \in ReadState
  BY ReadCharIs

\* Every line can be read, and its words are those there are at its end.
LEMMA Reading ==
  ASSUME NEW cmd \in Seq(Pieces)
  PROVE  \E r : Reads(r, cmd) /\ Words(cmd) = Ended(r[Len(cmd)])
<1> DEFINE N == Len(cmd)
           Eq(r) == r = [n \in 0..N |-> IF n = 0 THEN NothingRead ELSE ReadChar(r[n - 1], cmd[n])]
           step == [p \in (1..N) \X ReadState |-> ReadChar(p[2], cmd[p[1]])]
           read == CHOOSE read : Eq(read)
<1>1. N \in Nat /\ \A n \in 1..N : cmd[n] \in Pieces
  OBVIOUS
<1>2. NothingRead \in ReadState
  <2>1. <<>> \in Seq(Pieces) /\ <<>> \in Seq(Seq(Pieces))
    OBVIOUS
  <2>2. QED
    BY <2>1 DEF NothingRead, ReadState
<1>3. step \in [(1..N) \X ReadState -> ReadState]
  BY <1>1, ReadCharTyped
<1>4. PICK f \in [0..N -> ReadState] :
        f[0] = NothingRead /\ \A n \in 1..N : f[n] = step[<<n, f[n - 1]>>]
  <2> HIDE DEF step, N
  <2>1. step \in Stepping(N, ReadState)
    BY <1>3 DEF Stepping
  <2>2. Leads(NothingRead, N, step, ReadState)
    BY <1>1, <1>2, <2>1, StepsLead
  <2>3. QED
    BY <2>2 DEF Leads
<1>5. Eq(f)
  <2>1. \A n \in 1..N, s \in ReadState : step[<<n, s>>] = ReadChar(s, cmd[n])
    OBVIOUS
  <2> HIDE DEF step
  <2>2. \A n \in 1..N : f[n - 1] \in ReadState
    BY <1>1
  <2>3. \A n \in 1..N : f[n] = ReadChar(f[n - 1], cmd[n])
    BY <1>4, <2>1, <2>2
  <2>4. QED
    BY <1>1, <1>4, <2>3
<1>6. Eq(read)
  <2> HIDE DEF Eq
  <2>1. QED
    BY <1>5
<1>7. Words(cmd) = Ended(read[N])
  BY DEF Words, Ended
<1>8. read[0] = NothingRead /\ \A n \in 1..N : read[n] = ReadChar(read[n - 1], cmd[n])
  <2> HIDE DEF read
  <2>1. QED
    BY <1>1, <1>6
<1>9. \A n \in 0..N : read[n] \in ReadState
  <2> DEFINE T == {n \in 0..N : read[n] \in ReadState}
  <2> HIDE DEF read
  <2>1. 0 \in T
    BY <1>1, <1>2, <1>8
  <2>2. ASSUME NEW n \in 0..N, n # N, n \in T PROVE n + 1 \in T
    <3>1. n + 1 \in 1..N /\ (n + 1) - 1 = n
      BY <1>1, <2>2
    <3>2. read[n + 1] = ReadChar(read[n], cmd[n + 1]) /\ cmd[n + 1] \in Pieces
      BY <1>1, <1>8, <3>1
    <3>3. read[n] \in ReadState
      BY <2>2
    <3>4. QED
      BY <3>1, <3>2, <3>3, ReadCharTyped
  <2> HIDE DEF T
  <2>3. 0..N \subseteq T
    BY <1>1, <2>1, <2>2, StepByStep
  <2>4. QED
    BY <2>3 DEF T
<1>10. read \in [0..N -> ReadState]
  <2> HIDE DEF read
  <2>1. read = [n \in 0..N |-> read[n]]
    BY <1>6
  <2>2. QED
    BY <1>9, <2>1
<1> HIDE DEF read
<1>11. QED
  BY <1>7, <1>8, <1>10 DEF Reads

\* Lines that begin alike are read alike as long as they do.
LEMMA ReadsAgree ==
  ASSUME NEW a \in Seq(Pieces), NEW b \in Seq(Pieces), Len(a) <= Len(b),
         \A n \in 1..Len(a) : b[n] = a[n],
         NEW r, NEW q, Reads(r, a), Reads(q, b)
  PROVE  \A n \in 0..Len(a) : q[n] = r[n]
<1> DEFINE N == Len(a)
           T == {n \in 0..N : q[n] = r[n]}
<1>1. N \in Nat /\ 0 \in T
  BY DEF Reads
<1>2. ASSUME NEW n \in 0..N, n # N, n \in T PROVE n + 1 \in T
  <2>1. n + 1 \in 1..Len(a) /\ n + 1 \in 1..Len(b) /\ (n + 1) - 1 = n
    BY <1>2
  <2>2. r[n + 1] = ReadChar(r[n], a[n + 1])
    BY <2>1 DEF Reads
  <2>3. q[n + 1] = ReadChar(q[n], b[n + 1])
    BY <2>1 DEF Reads
  <2>4. q[n] = r[n] /\ b[n + 1] = a[n + 1]
    BY <1>2, <2>1
  <2>5. QED
    BY <2>1, <2>2, <2>3, <2>4
<1> HIDE DEF T
<1>3. 0..N \subseteq T
  BY <1>1, <1>2, StepByStep
<1>4. QED
  BY <1>3 DEF T

\* The state a whole line leaves.
After(cmd) == (CHOOSE r : Reads(r, cmd))[Len(cmd)]

\* However the line was read.
LEMMA AfterIs ==
  ASSUME NEW cmd \in Seq(Pieces), NEW r, Reads(r, cmd)
  PROVE  After(cmd) = r[Len(cmd)] /\ After(cmd) \in ReadState
<1> DEFINE q == CHOOSE q : Reads(q, cmd)
<1>1. Reads(q, cmd)
  OBVIOUS
<1>2. After(cmd) = q[Len(cmd)]
  BY DEF After
<1> HIDE DEF q
<1>3. \A n \in 0..Len(cmd) : q[n] = r[n]
  BY <1>1, ReadsAgree
<1>4. Len(cmd) \in 0..Len(cmd)
  OBVIOUS
<1>5. q[Len(cmd)] \in ReadState
  BY <1>1, <1>4 DEF Reads
<1>6. QED
  BY <1>2, <1>3, <1>4, <1>5

\* It can be had a piece at a time, and ends in the line's words.
LEMMA AfterTyped ==
  ASSUME NEW cmd \in Seq(Pieces)
  PROVE  After(cmd) \in ReadState /\ Words(cmd) = Ended(After(cmd))
<1>1. PICK r : Reads(r, cmd) /\ Words(cmd) = Ended(r[Len(cmd)])
  BY Reading
<1>2. QED
  BY <1>1, AfterIs

LEMMA AfterNothing == After(<<>>) = NothingRead
<1>1. <<>> \in Seq(Pieces) /\ Len(<<>>) = 0
  OBVIOUS
<1>2. PICK r : Reads(r, <<>>)
  BY <1>1, Reading
<1>3. QED
  BY <1>1, <1>2, AfterIs DEF Reads

LEMMA AfterMore ==
  ASSUME NEW cmd \in Seq(Pieces), NEW c \in Pieces
  PROVE  After(Append(cmd, c)) = ReadChar(After(cmd), c)
<1> DEFINE more == Append(cmd, c)
<1>1. /\ more \in Seq(Pieces) /\ Len(cmd) \in Nat /\ Len(more) = Len(cmd) + 1
      /\ \A n \in 1..Len(cmd) : more[n] = cmd[n]
      /\ more[Len(cmd) + 1] = c
  BY AppendProperties
<1> HIDE DEF more
<1>2. PICK r : Reads(r, cmd)
  BY Reading
<1>3. PICK q : Reads(q, more)
  BY <1>1, Reading
<1>4. \A n \in 0..Len(cmd) : q[n] = r[n]
  BY <1>1, <1>2, <1>3, ReadsAgree
<1>5. q[Len(cmd)] = r[Len(cmd)]
  BY <1>1, <1>4
<1>6. q[Len(cmd) + 1] = ReadChar(q[Len(cmd)], more[Len(cmd) + 1])
  BY <1>1, <1>3 DEF Reads
<1>7. After(cmd) = r[Len(cmd)] /\ After(more) = q[Len(more)]
  BY <1>1, <1>2, <1>3, AfterIs
<1>8. QED
  BY <1>1, <1>5, <1>6, <1>7 DEF more

-----------------------------------------------------------------------------
(* Words: what reads as the one word it is.                                *)

Word ==
  {w \in Seq(Pieces) : w # <<>> /\ After(w) = [words |-> <<>>, word |-> w, quoted |-> FALSE]}

\* A state whose words are words, and whose word is being read as it would be
\* alone.
Sound(s) ==
  /\ s \in ReadState
  /\ s.words \in Seq(Word)
  /\ After(s.word) = [words |-> <<>>, word |-> s.word, quoted |-> s.quoted]

LEMMA SoundEnded ==
  ASSUME NEW s, Sound(s), ~s.quoted
  PROVE  Ended(s) \in Seq(Word)
<1>1. CASE s.word = <<>>
  BY <1>1 DEF Ended, Sound
<1>2. CASE s.word # <<>>
  <2>1. s.quoted = FALSE
    BY DEF Sound, ReadState
  <2>2. s.word \in Word
    BY <1>2, <2>1 DEF Sound, ReadState, Word
  <2>3. QED
    BY <1>2, <2>2 DEF Ended, Sound
<1>3. QED
  BY <1>1, <1>2

\* One more piece leaves it so.
LEMMA SoundMore ==
  ASSUME NEW s, Sound(s), NEW c \in Pieces
  PROVE  Sound(ReadChar(s, c))
<1>1. s \in ReadState /\ ReadChar(s, c) \in ReadState
  BY ReadCharTyped DEF Sound
<1>2. CASE c = Space /\ ~s.quoted
  <2>1. ReadChar(s, c) = [words |-> Ended(s), word |-> <<>>, quoted |-> FALSE]
    BY <1>1, <1>2, ReadCharIs
  <2>2. Ended(s) \in Seq(Word)
    BY <1>2, SoundEnded
  <2>3. After(<<>>) = [words |-> <<>>, word |-> <<>>, quoted |-> FALSE]
    BY AfterNothing DEF NothingRead
  <2>4. QED
    BY <1>1, <2>1, <2>2, <2>3 DEF Sound
<1>3. CASE ~(c = Space /\ ~s.quoted)
  <2> DEFINE q == (s.quoted # (c = Quote))
             alone == [words |-> <<>>, word |-> s.word, quoted |-> s.quoted]
             more == Append(s.word, c)
  <2>1. ReadChar(s, c) = [words |-> s.words, word |-> more, quoted |-> q]
    BY <1>1, <1>3, ReadCharIs
  <2>2. s.word \in Seq(Pieces) /\ s.quoted \in BOOLEAN
    BY <1>1 DEF ReadState
  <2>3. alone \in ReadState
    <3>1. <<>> \in Seq(Seq(Pieces))
      OBVIOUS
    <3>2. QED
      BY <2>2, <3>1 DEF ReadState
  <2>4. ReadChar(alone, c) = [words |-> <<>>, word |-> more, quoted |-> q]
    BY <1>3, <2>3, ReadCharIs
  <2>5. After(more) = ReadChar(alone, c)
    BY <2>2, AfterMore DEF Sound
  <2> HIDE DEF q, more, alone
  <2>6. QED
    BY <1>1, <2>1, <2>4, <2>5 DEF Sound
<1>4. QED
  BY <1>2, <1>3

\* So every line is read.
LEMMA AfterSound == \A cmd \in Seq(Pieces) : Sound(After(cmd))
<1> DEFINE T == {cmd \in Seq(Pieces) : Sound(After(cmd))}
<1>1. <<>> \in T
  <2>1. <<>> \in Seq(Pieces) /\ <<>> \in Seq(Word)
    OBVIOUS
  <2>2. After(<<>>) = [words |-> <<>>, word |-> <<>>, quoted |-> FALSE]
    BY AfterNothing DEF NothingRead
  <2>3. After(<<>>) \in ReadState
    BY <2>1, AfterTyped
  <2>4. Sound(After(<<>>))
    <3> DEFINE s == After(<<>>)
    <3>1. s.words = <<>> /\ s.word = <<>> /\ s.quoted = FALSE
      BY <2>2
    <3>2. After(s.word) = [words |-> <<>>, word |-> s.word, quoted |-> s.quoted]
      BY <2>2, <3>1
    <3>3. s \in ReadState
      BY <2>3
    <3> HIDE DEF s
    <3>4. Sound(s)
      BY <2>1, <3>1, <3>2, <3>3 DEF Sound
    <3>5. QED
      BY <3>4 DEF s
  <2>5. QED
    BY <2>1, <2>4
<1>2. ASSUME NEW cmd \in Seq(Pieces), NEW c \in Pieces, cmd \in T PROVE Append(cmd, c) \in T
  <2>1. Sound(After(cmd))
    BY <1>2
  <2>2. Append(cmd, c) \in Seq(Pieces)
    OBVIOUS
  <2>3. Sound(After(Append(cmd, c)))
    BY <2>1, AfterMore, SoundMore
  <2>4. QED
    BY <2>2, <2>3
<1> HIDE DEF T
<1>3. Seq(Pieces) \subseteq T
  BY <1>1, <1>2, Appending
<1>4. QED
  BY <1>3 DEF T

-----------------------------------------------------------------------------
(* Words put together are read back as they were.                          *)

\* After a line whose quotes are closed, and a space, the rest is read as it
\* would be alone.
Further(words, s) == [words |-> words \o s.words, word |-> s.word, quoted |-> s.quoted]

LEMMA FurtherMore ==
  ASSUME NEW words \in Seq(Seq(Pieces)), NEW s \in ReadState, NEW c \in Pieces
  PROVE  ReadChar(Further(words, s), c) = Further(words, ReadChar(s, c))
<1> DEFINE far == Further(words, s)
<1>1. s.words \in Seq(Seq(Pieces)) /\ s.word \in Seq(Pieces) /\ s.quoted \in BOOLEAN
  BY DEF ReadState
<1>2. words \o s.words \in Seq(Seq(Pieces))
  BY <1>1, ConcatProperties
<1>3. /\ far \in ReadState
      /\ far.words = words \o s.words /\ far.word = s.word /\ far.quoted = s.quoted
  BY <1>1, <1>2 DEF ReadState, Further
<1> HIDE DEF far
<1>4. CASE c = Space /\ ~s.quoted
  <2>1. ReadChar(s, c) = [words |-> Ended(s), word |-> <<>>, quoted |-> FALSE]
    BY <1>4, ReadCharIs
  <2>2. ReadChar(far, c) = [words |-> Ended(far), word |-> <<>>, quoted |-> FALSE]
    BY <1>3, <1>4, ReadCharIs
  <2>3. Ended(far) = words \o Ended(s)
    <3>1. CASE s.word = <<>>
      BY <1>3, <3>1 DEF Ended
    <3>2. CASE s.word # <<>>
      <4>1. words \o Append(s.words, s.word) = Append(words \o s.words, s.word)
        <5> DEFINE t == s.words
                   w == s.word
                   S == Seq(Pieces)
        <5>1. words \in Seq(S) /\ t \in Seq(S) /\ w \in S
          BY <1>1
        <5> HIDE DEF t, w, S
        <5>2. words \o Append(t, w) = Append(words \o t, w)
          BY <5>1, ConcatGrows, SMT
        <5>3. QED
          BY <5>2, Zenon DEF t, w
      <4>2. Ended(s) = Append(s.words, s.word) /\ Ended(far) = Append(far.words, far.word)
        BY <1>3, <3>2 DEF Ended
      <4>3. QED
        BY <1>3, <4>1, <4>2
    <3>3. QED
      BY <3>1, <3>2
  <2>4. Further(words, ReadChar(s, c)) = [words |-> words \o Ended(s), word |-> <<>>, quoted |-> FALSE]
    BY <2>1 DEF Further
  <2>5. QED
    BY <2>2, <2>3, <2>4 DEF far
<1>5. CASE ~(c = Space /\ ~s.quoted)
  <2> DEFINE q == (s.quoted # (c = Quote))
  <2>1. ReadChar(s, c) = [words |-> s.words, word |-> Append(s.word, c), quoted |-> q]
    BY <1>5, ReadCharIs
  <2>2. q = (far.quoted # (c = Quote))
    BY <1>3
  <2>3. ReadChar(far, c) = [words |-> far.words, word |-> Append(far.word, c), quoted |-> q]
    <3>1. ~(c = Space /\ ~far.quoted)
      BY <1>3, <1>5
    <3>2. ReadChar(far, c) = [words |-> far.words, word |-> Append(far.word, c),
                              quoted |-> (far.quoted # (c = Quote))]
      BY <1>3, <3>1, ReadCharIs
    <3> HIDE DEF q
    <3>3. QED
      BY <2>2, <3>2
  <2> HIDE DEF q
  <2>4. Further(words, ReadChar(s, c)) = [words |-> words \o s.words, word |-> Append(s.word, c), quoted |-> q]
    BY <2>1 DEF Further
  <2>5. QED
    BY <1>3, <2>3, <2>4 DEF far
<1>6. QED
  BY <1>4, <1>5

LEMMA AfterFurther ==
  ASSUME NEW a \in Seq(Pieces), ~After(a).quoted
  PROVE  \A b \in Seq(Pieces) :
           After((a \o <<Space>>) \o b) = Further(Ended(After(a)), After(b))
<1> DEFINE as == a \o <<Space>>
           words == Ended(After(a))
           T == {b \in Seq(Pieces) : After(as \o b) = Further(words, After(b))}
<1>1. Space \in Pieces /\ as = Append(a, Space) /\ as \in Seq(Pieces)
  <2>1. Space \in Pieces
    BY DEF Pieces, Chars
  <2>2. a \o <<Space>> = Append(a, Space)
    BY <2>1, AppendIsConcat
  <2>3. Append(a, Space) \in Seq(Pieces)
    BY <2>1, AppendProperties
  <2>4. QED
    BY <2>1, <2>2, <2>3
<1>2. words \in Seq(Seq(Pieces))
  BY AfterTyped DEF Ended, ReadState
<1>3. <<>> \in T
  <2>1. After(as) = [words |-> words, word |-> <<>>, quoted |-> FALSE]
    <3>1. After(as) = ReadChar(After(a), Space)
      BY <1>1, AfterMore
    <3>2. After(a) \in ReadState
      BY AfterTyped
    <3>3. QED
      BY <1>1, <3>1, <3>2, ReadCharIs
  <2> HIDE DEF words
  <2>2. Further(words, After(<<>>)) = [words |-> words \o <<>>, word |-> <<>>, quoted |-> FALSE]
    <3>1. After(<<>>).words = <<>> /\ After(<<>>).word = <<>> /\ After(<<>>).quoted = FALSE
      BY AfterNothing DEF NothingRead
    <3>2. QED
      BY <3>1 DEF Further
  <2>3. words \o <<>> = words
    BY <1>2, ConcatEmptySeq
  <2>4. as \o <<>> = as
    BY <1>1, ConcatEmptySeq
  <2>5. <<>> \in Seq(Pieces)
    OBVIOUS
  <2> HIDE DEF as
  <2>6. QED
    BY <2>1, <2>2, <2>3, <2>4, <2>5
<1> HIDE DEF as, words
<1>4. ASSUME NEW b \in Seq(Pieces), NEW c \in Pieces, b \in T PROVE Append(b, c) \in T
  <2>1. /\ as \o b \in Seq(Pieces) /\ Append(b, c) \in Seq(Pieces)
        /\ as \o Append(b, c) = Append(as \o b, c)
    <3>1. as \o b \in Seq(Pieces) /\ as \o Append(b, c) = Append(as \o b, c)
      <4>1. as \in Seq(Pieces)
        BY <1>1
      <4>2. \A u \in Seq(Pieces), v \in Seq(Pieces), d \in Pieces :
              u \o v \in Seq(Pieces) /\ u \o Append(v, d) = Append(u \o v, d)
        BY ConcatGrows
      <4>3. QED
        BY <4>1, <4>2, Zenon
    <3>2. Append(b, c) \in Seq(Pieces)
      BY AppendProperties
    <3>3. QED
      BY <3>1, <3>2
  <2>2. After(as \o Append(b, c)) = ReadChar(After(as \o b), c)
    BY <2>1, AfterMore
  <2>3. After(as \o b) = Further(words, After(b))
    BY <1>4
  <2>4. After(Append(b, c)) = ReadChar(After(b), c) /\ After(b) \in ReadState
    BY AfterMore, AfterTyped
  <2>5. ReadChar(Further(words, After(b)), c) = Further(words, ReadChar(After(b), c))
    BY <1>2, <2>4, FurtherMore
  <2>6. QED
    BY <2>1, <2>2, <2>3, <2>4, <2>5
<1> HIDE DEF T
<1>5. Seq(Pieces) \subseteq T
  BY <1>3, <1>4, Appending
<1>6. QED
  BY <1>5 DEF T, as, words

\* A word after a space.
Followed(line, word) == line \o <<Space>> \o word

LEMMA FollowedTyped ==
  ASSUME NEW u \in Seq(Pieces), NEW w \in Seq(Pieces)
  PROVE  Followed(u, w) \in Seq(Pieces)
<1> DEFINE sp == Space
           one == <<sp>>
           v == u \o one
<1>1. sp \in Pieces
  BY DEF Pieces, Chars
<1> HIDE DEF sp
<1>2. one \in Seq(Pieces)
  BY <1>1
<1> HIDE DEF one
<1>3. v \in Seq(Pieces)
  BY <1>2, ConcatProperties
<1> HIDE DEF v
<1>4. v \o w \in Seq(Pieces)
  BY <1>3, ConcatProperties
<1>5. QED
  BY <1>4 DEF Followed, v, one, sp

\* The line as it grows by a word.
LEMMA Joining ==
  ASSUME NEW ws \in Seq(Seq(Pieces))
  PROVE  \E f \in [0..Len(ws) -> Seq(Pieces)] :
           /\ Joined(ws) = f[Len(ws)]
           /\ f[0] = <<>>
           /\ \A n \in 1..Len(ws) :
                f[n] = IF n = 1 THEN ws[1] ELSE Followed(f[n - 1], ws[n])
<1> DEFINE N == Len(ws)
           S == Seq(Pieces)
           Put(line, n) == IF n = 1 THEN ws[1] ELSE Followed(line, ws[n])
           Eq(f) == f = [n \in 0..N |-> IF n = 0 THEN <<>> ELSE Put(f[n - 1], n)]
           step == [p \in (1..N) \X S |-> Put(p[2], p[1])]
           line == CHOOSE line : Eq(line)
<1>1. N \in Nat
  OBVIOUS
<1>2. <<>> \in S /\ \A n \in 1..N : ws[n] \in S
  OBVIOUS
<1>3. \A n \in 1..N, u \in S : Put(u, n) \in S
  BY <1>2, FollowedTyped
<1>4. Joined(ws) = line[N]
  BY DEF Joined, Followed
<1> HIDE DEF N, S, Put
<1>5. \A n \in 1..N, u \in S : step[<<n, u>>] = Put(u, n)
  OBVIOUS
<1>6. step \in Stepping(N, S)
  BY <1>3 DEF Stepping
<1> HIDE DEF step
<1>7. PICK f \in [0..N -> S] : f[0] = <<>> /\ \A n \in 1..N : f[n] = step[<<n, f[n - 1]>>]
  <2>1. Leads(<<>>, N, step, S)
    BY <1>1, <1>2, <1>6, StepsLead
  <2>2. QED
    BY <2>1 DEF Leads
<1>8. \A n \in 1..N : f[n] = Put(f[n - 1], n)
  <2>1. \A n \in 1..N : f[n - 1] \in S
    BY <1>1
  <2>2. QED
    BY <1>5, <1>7, <2>1
<1>9. Eq(f)
  <2>1. \A n \in 0..N : f[n] = IF n = 0 THEN <<>> ELSE Put(f[n - 1], n)
    BY <1>1, <1>7, <1>8
  <2>2. QED
    BY <2>1
<1>10. Eq(line)
  <2> HIDE DEF Eq
  <2>1. QED
    BY <1>9
<1> HIDE DEF line
<1>11. line[0] = <<>> /\ \A n \in 1..N : line[n] = Put(line[n - 1], n)
  BY <1>1, <1>10
<1>12. \A n \in 0..N : line[n] = f[n]
  <2> DEFINE T == {n \in 0..N : line[n] = f[n]}
  <2>1. 0 \in T
    BY <1>1, <1>7, <1>11
  <2>2. ASSUME NEW n \in 0..N, n # N, n \in T PROVE n + 1 \in T
    <3>1. n + 1 \in 1..N /\ (n + 1) - 1 = n
      BY <1>1, <2>2
    <3>2. line[n + 1] = Put(line[n], n + 1) /\ f[n + 1] = Put(f[n], n + 1)
      BY <1>8, <1>11, <3>1
    <3>3. QED
      BY <1>1, <2>2, <3>1, <3>2
  <2> HIDE DEF T
  <2>3. 0..N \subseteq T
    BY <1>1, <2>1, <2>2, StepByStep
  <2>4. QED
    BY <2>3 DEF T
<1>13. Joined(ws) = f[N]
  BY <1>1, <1>4, <1>12
<1>14. QED
  BY <1>7, <1>8, <1>13 DEF N, S, Put

LEMMA WordIs ==
  ASSUME NEW w \in Word
  PROVE  /\ w \in Seq(Pieces) /\ w # <<>>
         /\ After(w) = [words |-> <<>>, word |-> w, quoted |-> FALSE]
BY DEF Word

\* The words put together are the words that are read.
LEMMA JoinedReads ==
  ASSUME NEW ws \in Seq(Word), ws # <<>>
  PROVE  Joined(ws) \in Seq(Pieces) /\ Words(Joined(ws)) = ws
<1> DEFINE N == Len(ws)
           Read(n) == [words |-> SubSeq(ws, 1, n - 1), word |-> ws[n], quoted |-> FALSE]
<1>1. N \in Nat /\ N # 0 /\ \A n \in 1..N : ws[n] \in Word
  OBVIOUS
<1>2. ws \in Seq(Seq(Pieces))
  <2>1. Word \subseteq Seq(Pieces)
    BY DEF Word
  <2>2. QED
    BY <2>1, SeqMonotonic
<1>3. PICK f \in [0..N -> Seq(Pieces)] :
        /\ Joined(ws) = f[N]
        /\ f[0] = <<>>
        /\ \A n \in 1..N : f[n] = IF n = 1 THEN ws[1] ELSE Followed(f[n - 1], ws[n])
  BY <1>2, Joining
<1>4. \A n \in 1..N : Append(SubSeq(ws, 1, n - 1), ws[n]) = SubSeq(ws, 1, n)
  BY <1>1, StretchGrows
<1>5. \A n \in 1..N : Ended(Read(n)) = SubSeq(ws, 1, n)
  <2> SUFFICES ASSUME NEW n \in 1..N PROVE Ended(Read(n)) = SubSeq(ws, 1, n)
      OBVIOUS
  <2>1. ws[n] # <<>>
    BY <1>1, WordIs
  <2>2. Ended(Read(n)) = Append(SubSeq(ws, 1, n - 1), ws[n])
    BY <2>1 DEF Ended
  <2>3. QED
    BY <1>4, <2>2
<1> DEFINE T == {n \in 0..N : n = 0 \/ After(f[n]) = Read(n)}
<1>6. 0 \in T
  BY <1>1
<1>7. ASSUME NEW n \in 0..N, n # N, n \in T PROVE n + 1 \in T
  <2>1. n + 1 \in 1..N /\ n + 1 \in 0..N /\ (n + 1) - 1 = n /\ f[n] \in Seq(Pieces)
    BY <1>1, <1>7
  <2>2. ws[n + 1] \in Seq(Pieces) /\ After(ws[n + 1]) = [words |-> <<>>, word |-> ws[n + 1], quoted |-> FALSE]
    BY <1>1, <2>1, WordIs
  <2>3. CASE n = 0
    <3>1. f[1] = ws[1]
      BY <1>3, <2>1, <2>3
    <3>2. SubSeq(ws, 1, 0) = <<>>
      BY SubSeqEmpty
    <3>3. After(f[n + 1]) = Read(n + 1)
      BY <2>1, <2>2, <2>3, <3>1, <3>2
    <3>4. QED
      BY <2>1, <3>3
  <2>4. CASE n # 0
    <3>1. n \in 1..N
      BY <2>1, <2>4
    <3>2. After(f[n]) = Read(n)
      BY <1>7, <2>4
    <3>3. f[n + 1] = Followed(f[n], ws[n + 1])
      BY <1>3, <2>1, <2>4
    <3>4. ~After(f[n]).quoted /\ Ended(After(f[n])) = SubSeq(ws, 1, n)
      <4>1. Ended(Read(n)) = SubSeq(ws, 1, n)
        BY <1>5, <3>1
      <4>2. ~Read(n).quoted
        OBVIOUS
      <4> HIDE DEF Read
      <4>3. QED
        BY <3>2, <4>1, <4>2
    <3>5. After(f[n + 1]) = Further(SubSeq(ws, 1, n), After(ws[n + 1]))
      BY <2>1, <2>2, <3>3, <3>4, AfterFurther DEF Followed
    <3>6. SubSeq(ws, 1, n) \o <<>> = SubSeq(ws, 1, n)
      <4>1. SubSeq(ws, 1, n) \in Seq(Word)
        BY <1>1, <3>1
      <4>2. QED
        BY <4>1, ConcatEmptySeq
    <3>7. Further(SubSeq(ws, 1, n), After(ws[n + 1])) = Read(n + 1)
      BY <2>1, <2>2, <3>6 DEF Further
    <3>8. QED
      BY <2>1, <3>5, <3>7
  <2>5. QED
    BY <2>3, <2>4
<1> HIDE DEF T
<1>8. 0..N \subseteq T
  BY <1>1, <1>6, <1>7, StepByStep
<1>9. After(f[N]) = Read(N)
  BY <1>1, <1>8 DEF T
<1>10. f[N] \in Seq(Pieces)
  BY <1>1
<1>11. Words(f[N]) = SubSeq(ws, 1, N)
  <2>1. Words(f[N]) = Ended(After(f[N]))
    BY <1>10, AfterTyped
  <2>2. Ended(Read(N)) = SubSeq(ws, 1, N)
    <3>1. N \in 1..N
      BY <1>1
    <3> HIDE DEF N, Read
    <3>2. QED
      BY <1>5, <3>1
  <2> HIDE DEF Read
  <2>3. QED
    BY <1>9, <2>1, <2>2
<1>12. QED
  BY <1>3, <1>10, <1>11, SubSeqFull

\* The words kept so far.
LEMMA Keeping ==
  ASSUME NEW ws \in Seq(Word)
  PROVE  \E f \in [0..Len(ws) -> Seq(Word)] :
           /\ Kept(ws) = f[Len(ws)]
           /\ f[0] = <<>>
           /\ \A n \in 1..Len(ws) :
                f[n] = IF Dropped(ws[n]) THEN f[n - 1] ELSE Append(f[n - 1], ws[n])
<1> DEFINE N == Len(ws)
           S == Seq(Word)
           Put(u, n) == IF Dropped(ws[n]) THEN u ELSE Append(u, ws[n])
           Eq(f) == f = [n \in 0..N |-> IF n = 0 THEN <<>> ELSE Put(f[n - 1], n)]
           step == [p \in (1..N) \X S |-> Put(p[2], p[1])]
           left == CHOOSE left : Eq(left)
<1>1. N \in Nat
  OBVIOUS
<1>2. <<>> \in S /\ \A n \in 1..N : ws[n] \in Word
  OBVIOUS
<1>3. \A n \in 1..N, u \in S : Put(u, n) \in S
  BY <1>2
<1>4. Kept(ws) = left[N]
  <2>1. Eq(left) <=> left = [n \in 0..N |-> IF n = 0 THEN <<>>
                                            ELSE IF Dropped(ws[n]) THEN left[n - 1]
                                            ELSE Append(left[n - 1], ws[n])]
    OBVIOUS
  <2>2. QED
    BY DEF Kept
<1> HIDE DEF N, S, Put
<1>5. \A n \in 1..N, u \in S : step[<<n, u>>] = Put(u, n)
  OBVIOUS
<1>6. step \in Stepping(N, S)
  BY <1>3 DEF Stepping
<1> HIDE DEF step
<1>7. PICK f \in [0..N -> S] : f[0] = <<>> /\ \A n \in 1..N : f[n] = step[<<n, f[n - 1]>>]
  <2>1. Leads(<<>>, N, step, S)
    BY <1>1, <1>2, <1>6, StepsLead
  <2>2. QED
    BY <2>1 DEF Leads
<1>8. Eq(f)
  <2>1. \A n \in 1..N : f[n - 1] \in S
    BY <1>1
  <2>2. \A n \in 1..N : f[n] = Put(f[n - 1], n)
    BY <1>5, <1>7, <2>1
  <2>3. \A n \in 0..N : f[n] = IF n = 0 THEN <<>> ELSE Put(f[n - 1], n)
    BY <1>1, <1>7, <2>2
  <2>4. QED
    BY <2>3
<1>9. Eq(left)
  <2> HIDE DEF Eq
  <2>1. QED
    BY <1>8
<1> HIDE DEF left
<1>10. left[0] = <<>> /\ \A n \in 1..N : left[n] = Put(left[n - 1], n)
  BY <1>1, <1>9
<1>11. \A n \in 0..N : left[n] \in S
  <2> DEFINE T == {n \in 0..N : left[n] \in S}
  <2>1. 0 \in T
    BY <1>1, <1>2, <1>10
  <2>2. ASSUME NEW n \in 0..N, n # N, n \in T PROVE n + 1 \in T
    <3>1. n + 1 \in 1..N /\ n + 1 \in 0..N /\ (n + 1) - 1 = n
      BY <1>1, <2>2
    <3>2. left[n + 1] = Put(left[n], n + 1)
      BY <1>10, <3>1
    <3>3. QED
      BY <1>3, <2>2, <3>1, <3>2
  <2> HIDE DEF T
  <2>3. 0..N \subseteq T
    BY <1>1, <2>1, <2>2, StepByStep
  <2>4. QED
    BY <2>3 DEF T
<1>12. left \in [0..N -> S]
  <2>1. left = [n \in 0..N |-> left[n]]
    BY <1>9
  <2>2. QED
    BY <1>11, <2>1
<1>13. QED
  BY <1>4, <1>10, <1>12 DEF N, S, Put

\* The words that are kept are words.
LEMMA KeptWords ==
  ASSUME NEW ws \in Seq(Word)
  PROVE  Kept(ws) \in Seq(Word)
<1>1. PICK f \in [0..Len(ws) -> Seq(Word)] : Kept(ws) = f[Len(ws)]
  BY Keeping
<1>2. Len(ws) \in 0..Len(ws)
  OBVIOUS
<1>3. QED
  BY <1>1, <1>2

\* One sequence is another's first n without those that are dropped: e says
\* where each was.
Picks(e, some, all, n) ==
  /\ e \in [1..Len(some) -> 1..n]
  /\ \A j \in 1..Len(some) : some[j] = all[e[j]] /\ ~Dropped(all[e[j]])
  /\ \A i, j \in 1..Len(some) : i < j => e[i] < e[j]
  /\ \A i \in 1..n : ~Dropped(all[i]) => \E j \in 1..Len(some) : e[j] = i

\* They are the words that are not dropped, each of them, in their order.
LEMMA KeptPicks ==
  ASSUME NEW ws \in Seq(Word)
  PROVE  \E e : Picks(e, Kept(ws), ws, Len(ws))
<1> DEFINE N == Len(ws)
<1>1. N \in Nat /\ \A n \in 1..N : ws[n] \in Word
  OBVIOUS
<1>2. PICK f \in [0..N -> Seq(Word)] :
        /\ Kept(ws) = f[N]
        /\ f[0] = <<>>
        /\ \A n \in 1..N : f[n] = IF Dropped(ws[n]) THEN f[n - 1] ELSE Append(f[n - 1], ws[n])
  BY Keeping
<1> DEFINE T == {n \in 0..N : \E e : Picks(e, f[n], ws, n)}
<1> HIDE DEF N
<1>3. 0 \in T
  <2> DEFINE e == [j \in 1..0 |-> 0]
  <2>1. Len(f[0]) = 0
    BY <1>2
  <2>2. e \in [1..0 -> 1..0]
    OBVIOUS
  <2> HIDE DEF e
  <2>3. Picks(e, f[0], ws, 0)
    BY <2>1, <2>2 DEF Picks
  <2>4. QED
    BY <1>1, <2>3
<1>4. ASSUME NEW n \in 0..N, n # N, n \in T PROVE n + 1 \in T
  <2>1. n \in Nat /\ n + 1 \in 1..N /\ n + 1 \in 0..N /\ (n + 1) - 1 = n
    BY <1>1, <1>4
  <2>2. PICK e : Picks(e, f[n], ws, n)
    BY <1>4
  <2> DEFINE L == Len(f[n])
  <2>3. L \in Nat /\ f[n] \in Seq(Word) /\ ws[n + 1] \in Word
    BY <1>1, <2>1
  <2>4. e \in [1..L -> 1..n]
    BY <2>2 DEF Picks
  <2>5. CASE Dropped(ws[n + 1])
    <3>1. f[n + 1] = f[n]
      BY <1>2, <2>1, <2>5
    <3>2. e \in [1..L -> 1..n + 1]
      BY <2>1, <2>4
    <3>3. \A i \in 1..n + 1 : ~Dropped(ws[i]) => i \in 1..n
      BY <2>1, <2>5
    <3>4. Picks(e, f[n + 1], ws, n + 1)
      BY <2>2, <3>1, <3>2, <3>3 DEF Picks
    <3>5. QED
      BY <2>1, <3>4
  <2>6. CASE ~Dropped(ws[n + 1])
    <3> DEFINE some == f[n + 1]
               g == [j \in 1..L + 1 |-> IF j = L + 1 THEN n + 1 ELSE e[j]]
    <3>1. some = Append(f[n], ws[n + 1])
      BY <1>2, <2>1, <2>6
    <3>2. /\ Len(some) = L + 1 /\ some[L + 1] = ws[n + 1]
          /\ \A j \in 1..L : some[j] = f[n][j]
      BY <2>3, <3>1, AppendProperties
    <3>3. /\ g \in [1..L + 1 -> 1..n + 1] /\ g[L + 1] = n + 1
          /\ \A j \in 1..L : g[j] = e[j] /\ e[j] \in 1..n
      <4> HIDE DEF L
      <4>1. \A j \in 1..L : e[j] \in 1..n /\ e[j] \in 1..n + 1 /\ j \in 1..L + 1 /\ j # L + 1
        BY <2>1, <2>3, <2>4
      <4>2. n + 1 \in 1..n + 1 /\ L + 1 \in 1..L + 1
        BY <2>1, <2>3
      <4>3. \A j \in 1..L + 1 : j = L + 1 \/ j \in 1..L
        BY <2>3
      <4>4. QED
        BY <4>1, <4>2, <4>3
    <3>4. \A j \in 1..L + 1 : j \in 1..L \/ j = L + 1
      BY <2>3
    <3>5. \A j \in 1..L : f[n][j] = ws[e[j]] /\ ~Dropped(ws[e[j]])
      BY <2>2 DEF Picks
    <3>6. \A i, j \in 1..L : i < j => e[i] < e[j]
      BY <2>2 DEF Picks
    <3>7. \A i \in 1..n : ~Dropped(ws[i]) => \E j \in 1..L : e[j] = i
      BY <2>2 DEF Picks
    <3> HIDE DEF g, some, L
    <3>8. \A j \in 1..L + 1 : some[j] = ws[g[j]] /\ ~Dropped(ws[g[j]])
      BY <2>6, <3>2, <3>3, <3>4, <3>5
    <3>9. \A i, j \in 1..L + 1 : i < j => g[i] < g[j]
      <4> SUFFICES ASSUME NEW i \in 1..L + 1, NEW j \in 1..L + 1, i < j PROVE g[i] < g[j]
          OBVIOUS
      <4>1. i \in 1..L /\ g[i] = e[i] /\ e[i] \in 1..n
        BY <2>3, <3>3
      <4>2. CASE j \in 1..L
        BY <3>3, <3>6, <4>1, <4>2
      <4>3. CASE j = L + 1
        BY <2>1, <3>3, <4>1, <4>3
      <4>4. QED
        BY <3>4, <4>2, <4>3
    <3>10. \A i \in 1..n + 1 : ~Dropped(ws[i]) => \E j \in 1..L + 1 : g[j] = i
      <4> SUFFICES ASSUME NEW i \in 1..n + 1, ~Dropped(ws[i]) PROVE \E j \in 1..L + 1 : g[j] = i
          OBVIOUS
      <4>1. CASE i = n + 1
        BY <2>3, <3>3, <4>1
      <4>2. CASE i # n + 1
        <5>1. i \in 1..n
          BY <2>1, <4>2
        <5>2. PICK j \in 1..L : e[j] = i
          BY <3>7, <5>1
        <5>3. j \in 1..L + 1 /\ g[j] = i
          BY <2>3, <3>3, <5>2
        <5>4. QED
          BY <5>3
      <4>3. QED
        BY <4>1, <4>2
    <3>11. Picks(g, some, ws, n + 1)
      BY <3>2, <3>3, <3>8, <3>9, <3>10 DEF Picks
    <3>12. QED
      BY <2>1, <3>11 DEF some
  <2>7. QED
    BY <2>5, <2>6
<1> HIDE DEF T
<1>5. 0..N \subseteq T
  BY <1>1, <1>3, <1>4, StepByStep
<1>6. QED
  BY <1>1, <1>2, <1>5 DEF T, N

-----------------------------------------------------------------------------
(* The words the kernel sees are the words that are read.                  *)

\* One piece more is one quote more, or none.
LEMMA QuotesNext ==
  ASSUME NEW cmd, NEW n \in Nat
  PROVE  /\ Quotes(cmd, 0) = 0
         /\ Quotes(cmd, n) \in Nat
         /\ Quotes(cmd, n + 1) = Quotes(cmd, n) + (IF cmd[n + 1] = Quote THEN 1 ELSE 0)
<1> DEFINE Q(m) == {i \in 1..m : cmd[i] = Quote}
<1>1. Q(0) = {}
  OBVIOUS
<1>2. IsFiniteSet(Q(n))
  <2>1. IsFiniteSet(1..n) /\ Q(n) \subseteq 1..n
    BY FS_Interval
  <2> HIDE DEF Q
  <2>2. QED
    BY <2>1, FS_Subset
<1>3. n + 1 \notin Q(n)
  OBVIOUS
<1>4. cmd[n + 1] = Quote => Cardinality(Q(n + 1)) = Cardinality(Q(n)) + 1
  <2> SUFFICES ASSUME cmd[n + 1] = Quote PROVE Cardinality(Q(n + 1)) = Cardinality(Q(n)) + 1
      OBVIOUS
  <2>1. Q(n + 1) = Q(n) \cup {n + 1}
    OBVIOUS
  <2> HIDE DEF Q
  <2>2. QED
    BY <1>2, <1>3, <2>1, FS_AddElement
<1>5. cmd[n + 1] # Quote => Q(n + 1) = Q(n)
  OBVIOUS
<1>6. \A m : Quotes(cmd, m) = Cardinality(Q(m))
  BY DEF Quotes
<1> HIDE DEF Q
<1>7. Cardinality(Q(0)) = 0 /\ Cardinality(Q(n)) \in Nat
  BY <1>1, <1>2, FS_EmptySet, FS_CardinalityType
<1>8. QED
  BY <1>4, <1>5, <1>6, <1>7

\* A quote is open after an odd number of them.
LEMMA QuotedOdd ==
  ASSUME NEW cmd \in Seq(Pieces), NEW r, Reads(r, cmd)
  PROVE  \A n \in 0..Len(cmd) : r[n].quoted <=> Quotes(cmd, n) % 2 = 1
<1> DEFINE N == Len(cmd)
           T == {n \in 0..N : r[n].quoted <=> Quotes(cmd, n) % 2 = 1}
<1>1. N \in Nat
  OBVIOUS
<1>2. 0 \in T
  <2>1. r[0].quoted = FALSE
    BY DEF Reads, NothingRead
  <2>2. Quotes(cmd, 0) = 0
    BY QuotesNext
  <2>3. QED
    BY <1>1, <2>1, <2>2
<1>3. ASSUME NEW n \in 0..N, n # N, n \in T PROVE n + 1 \in T
  <2>1. n \in Nat /\ n + 1 \in 1..N /\ n + 1 \in 0..N /\ (n + 1) - 1 = n
    BY <1>1, <1>3
  <2>2. cmd[n + 1] \in Pieces
    BY <2>1
  <2>3. r[n] \in ReadState /\ r[n + 1] = ReadChar(r[n], cmd[n + 1])
    BY <1>3, <2>1 DEF Reads
  <2>4. r[n].quoted <=> Quotes(cmd, n) % 2 = 1
    BY <1>3
  <2>5. /\ Quotes(cmd, n) \in Nat
        /\ Quotes(cmd, n + 1) = Quotes(cmd, n) + (IF cmd[n + 1] = Quote THEN 1 ELSE 0)
    BY <2>1, QuotesNext
  <2>6. r[n + 1].quoted <=> Quotes(cmd, n + 1) % 2 = 1
    <3>1. CASE cmd[n + 1] = Space /\ ~r[n].quoted
      <4>1. r[n + 1].quoted = FALSE
        BY <2>2, <2>3, <3>1, ReadCharIs
      <4>2. Quotes(cmd, n + 1) = Quotes(cmd, n)
        BY <2>5, <3>1, SpaceIsNoQuote
      <4>3. QED
        BY <2>4, <3>1, <4>1, <4>2
    <3>2. CASE ~(cmd[n + 1] = Space /\ ~r[n].quoted)
      <4>1. r[n + 1].quoted <=> ~(r[n].quoted <=> cmd[n + 1] = Quote)
        <5> DEFINE q == (r[n].quoted # (cmd[n + 1] = Quote))
        <5>1. ReadChar(r[n], cmd[n + 1]) = [words |-> r[n].words, word |-> Append(r[n].word, cmd[n + 1]),
                                            quoted |-> q]
          BY <2>2, <2>3, <3>2, ReadCharIs
        <5> HIDE DEF q
        <5>2. r[n + 1].quoted = q
          BY <2>3, <5>1
        <5>3. r[n].quoted \in BOOLEAN
          BY <2>3 DEF ReadState
        <5>4. QED
          BY <5>2, <5>3 DEF q
      <4>2. CASE cmd[n + 1] = Quote
        <5>1. Quotes(cmd, n + 1) % 2 = 1 <=> ~(Quotes(cmd, n) % 2 = 1)
          BY <2>5, <4>2
        <5>2. r[n + 1].quoted <=> ~r[n].quoted
          BY <2>4, <4>1, <4>2
        <5>3. QED
          BY <2>4, <5>1, <5>2
      <4>3. CASE cmd[n + 1] # Quote
        <5>1. Quotes(cmd, n + 1) = Quotes(cmd, n)
          BY <2>5, <4>3
        <5>2. r[n + 1].quoted <=> r[n].quoted
          BY <2>4, <4>1, <4>3
        <5>3. QED
          BY <2>4, <5>1, <5>2
      <4>4. QED
        BY <4>2, <4>3
    <3>3. QED
      BY <3>1, <3>2
  <2>7. QED
    BY <2>1, <2>6
<1> HIDE DEF T
<1>4. 0..N \subseteq T
  BY <1>1, <1>2, <1>3, StepByStep
<1>5. QED
  BY <1>4 DEF T

\* A piece ends a word for both or for neither.
LEMMA BreakEnds ==
  ASSUME NEW cmd \in Seq(Pieces), NEW r, Reads(r, cmd), NEW n \in 1..Len(cmd)
  PROVE  Break(cmd, n) <=> cmd[n] = Space /\ ~r[n - 1].quoted
<1>1. n - 1 \in Nat /\ n - 1 \in 0..Len(cmd) /\ (n - 1) + 1 = n
  OBVIOUS
<1>2. r[n - 1].quoted <=> Quotes(cmd, n - 1) % 2 = 1
  BY <1>1, QuotedOdd
<1>3. /\ Quotes(cmd, n - 1) \in Nat
      /\ Quotes(cmd, n) = Quotes(cmd, n - 1) + (IF cmd[n] = Quote THEN 1 ELSE 0)
  <2> DEFINE m == n - 1
  <2>1. m \in Nat /\ m + 1 = n
    BY <1>1
  <2> HIDE DEF m
  <2>2. /\ Quotes(cmd, m) \in Nat
        /\ Quotes(cmd, m + 1) = Quotes(cmd, m) + (IF cmd[m + 1] = Quote THEN 1 ELSE 0)
    BY <2>1, QuotesNext
  <2>3. QED
    BY <2>1, <2>2 DEF m
<1>4. cmd[n] = Space => Quotes(cmd, n) = Quotes(cmd, n - 1)
  BY <1>3, SpaceIsNoQuote
<1>5. QED
  BY <1>2, <1>3, <1>4 DEF Break

\* A stretch free of breaks that one follows, or the end, is a whole word.
LEMMA WordEndIs ==
  ASSUME NEW cmd \in Seq(Pieces), NEW b \in 1..Len(cmd), NEW e \in b..Len(cmd),
         \A k \in b..e : ~Break(cmd, k),
         e = Len(cmd) \/ Break(cmd, e + 1)
  PROVE  WordEnd(cmd, b) = e
<1> DEFINE Whole(j) ==
             /\ \A k \in b..j : ~Break(cmd, k)
             /\ j = Len(cmd) \/ Break(cmd, j + 1)
<1>1. Len(cmd) \in Nat /\ Whole(e)
  OBVIOUS
<1>2. ASSUME NEW j \in b..Len(cmd), Whole(j) PROVE j = e
  <2>1. CASE j < e
    <3>1. j + 1 \in b..e /\ j # Len(cmd)
      BY <1>1, <2>1
    <3>2. QED
      BY <1>2, <3>1
  <2>2. CASE e < j
    <3>1. e + 1 \in b..j /\ e # Len(cmd)
      BY <1>1, <2>2
    <3>2. QED
      BY <1>2, <3>1
  <2>3. QED
    BY <1>1, <2>1, <2>2
<1>3. WordEnd(cmd, b) = CHOOSE j \in b..Len(cmd) : Whole(j)
  BY DEF WordEnd
<1> HIDE DEF Whole
<1>4. QED
  BY <1>1, <1>2, <1>3

\* There is such a stretch from every place that is no break.
LEMMA WordEnds ==
  ASSUME NEW cmd \in Seq(Pieces), NEW b \in 1..Len(cmd), ~Break(cmd, b)
  PROVE  WordEnd(cmd, b) \in b..Len(cmd)
<1> DEFINE L == {j \in b..Len(cmd) : j = Len(cmd) \/ Break(cmd, j + 1)}
<1>1. Len(cmd) \in L /\ L \in SUBSET Nat /\ Len(cmd) \in Nat
  OBVIOUS
<1>2. PICK e \in L : \A j \in L : e <= j
  <2> HIDE DEF L
  <2>1. QED
    BY <1>1, LeastNumber
<1>3. ASSUME NEW k \in b..e PROVE ~Break(cmd, k)
  <2>1. CASE k = b
    BY <2>1
  <2>2. CASE k # b
    <3>1. k - 1 \in b..Len(cmd) /\ (k - 1) + 1 = k /\ k - 1 < e
      BY <1>1, <2>2
    <3>2. k - 1 \notin L
      <4> HIDE DEF L
      <4>1. QED
        BY <1>1, <1>2, <3>1
    <3>3. QED
      BY <3>1, <3>2
  <2>3. QED
    BY <2>1, <2>2
<1>4. WordEnd(cmd, b) = e
  BY <1>1, <1>3, WordEndIs
<1>5. QED
  BY <1>4

\* The word that starts at a place.
WordAt(cmd, n) == SubSeq(cmd, n, WordEnd(cmd, n))

LEMMA WordAtTyped ==
  ASSUME NEW cmd \in Seq(Pieces), NEW n \in 1..Len(cmd), Starts(cmd, n)
  PROVE  WordAt(cmd, n) \in Seq(Pieces)
<1>1. WordEnd(cmd, n) \in n..Len(cmd)
  BY WordEnds DEF Starts
<1>2. QED
  BY <1>1 DEF WordAt

\* The kernel's words as the line is gone along.
LEMMA KernelReading ==
  ASSUME NEW cmd \in Seq(Pieces)
  PROVE  \E k : /\ KernelWords(cmd) = k[Len(cmd)]
                /\ k[0] = <<>>
                /\ \A n \in 1..Len(cmd) :
                     k[n] = IF Starts(cmd, n) THEN Append(k[n - 1], WordAt(cmd, n)) ELSE k[n - 1]
<1> DEFINE N == Len(cmd)
           S == Seq(Seq(Pieces))
           Put(u, n) == IF Starts(cmd, n) THEN Append(u, WordAt(cmd, n)) ELSE u
           Eq(f) == f = [n \in 0..N |-> IF n = 0 THEN <<>> ELSE Put(f[n - 1], n)]
           step == [p \in (1..N) \X S |-> Put(p[2], p[1])]
           words == CHOOSE words : Eq(words)
<1>1. N \in Nat
  OBVIOUS
<1>2. <<>> \in S
  OBVIOUS
<1>3. \A n \in 1..N, u \in S : Put(u, n) \in S
  BY WordAtTyped
<1>4. KernelWords(cmd) = words[N]
  <2>1. Eq(words) <=> words = [n \in 0..N |-> IF n = 0 THEN <<>>
                                              ELSE IF Starts(cmd, n)
                                              THEN Append(words[n - 1], SubSeq(cmd, n, WordEnd(cmd, n)))
                                              ELSE words[n - 1]]
    BY DEF WordAt
  <2>2. QED
    BY DEF KernelWords, WordAt
<1> HIDE DEF N, S, Put
<1>5. \A n \in 1..N, u \in S : step[<<n, u>>] = Put(u, n)
  OBVIOUS
<1>6. step \in Stepping(N, S)
  BY <1>3 DEF Stepping
<1> HIDE DEF step
<1>7. PICK f \in [0..N -> S] : f[0] = <<>> /\ \A n \in 1..N : f[n] = step[<<n, f[n - 1]>>]
  <2>1. Leads(<<>>, N, step, S)
    BY <1>1, <1>2, <1>6, StepsLead
  <2>2. QED
    BY <2>1 DEF Leads
<1>8. Eq(f)
  <2>1. \A n \in 1..N : f[n - 1] \in S
    BY <1>1
  <2>2. \A n \in 1..N : f[n] = Put(f[n - 1], n)
    BY <1>5, <1>7, <2>1
  <2>3. \A n \in 0..N : f[n] = IF n = 0 THEN <<>> ELSE Put(f[n - 1], n)
    BY <1>1, <1>7, <2>2
  <2>4. QED
    BY <2>3
<1>9. Eq(words)
  <2> HIDE DEF Eq
  <2>1. QED
    BY <1>8
<1> HIDE DEF words
<1>10. words[0] = <<>> /\ \A n \in 1..N : words[n] = Put(words[n - 1], n)
  BY <1>1, <1>9
<1>11. QED
  BY <1>4, <1>10 DEF N, Put

\* mkimage.py splits a line as the kernel does.
LEMMA WordsAreKernelWords ==
  ASSUME NEW cmd \in Seq(Pieces)
  PROVE  Words(cmd) = KernelWords(cmd)
<1> DEFINE N == Len(cmd)
<1>1. N \in Nat
  OBVIOUS
<1>2. PICK r : Reads(r, cmd) /\ Words(cmd) = Ended(r[N])
  BY Reading
<1>3. PICK k :
        /\ KernelWords(cmd) = k[N]
        /\ k[0] = <<>>
        /\ \A n \in 1..N :
             k[n] = IF Starts(cmd, n) THEN Append(k[n - 1], WordAt(cmd, n)) ELSE k[n - 1]
  BY KernelReading
<1> DEFINE Between(n) == r[n].word = <<>> /\ (n = 0 \/ Break(cmd, n)) /\ k[n] = r[n].words
           Within(n, b) ==
             /\ \A j \in b..n : ~Break(cmd, j)
             /\ r[n].word = SubSeq(cmd, b, n)
             /\ k[n] = Append(r[n].words, WordAt(cmd, b))
           T == {n \in 0..N : Between(n) \/ \E b \in 1..n : Within(n, b)}
<1>4. \A n \in 0..N : \A b \in 1..n : Within(n, b) /\ (n = N \/ Break(cmd, n + 1)) => k[n] = Ended(r[n])
  <2> SUFFICES ASSUME NEW n \in 0..N, NEW b \in 1..n, Within(n, b), n = N \/ Break(cmd, n + 1)
               PROVE  k[n] = Ended(r[n])
      OBVIOUS
  <2>1. b \in 1..N /\ n \in b..N
    BY <1>1
  <2>2. WordEnd(cmd, b) = n
    BY <2>1, WordEndIs
  <2>3. r[n].word # <<>>
    <3>1. Len(SubSeq(cmd, b, n)) = n - b + 1
      BY <2>1, SubSeqProperties
    <3> DEFINE u == SubSeq(cmd, b, n)
    <3>2. Len(u) # 0 /\ r[n].word = u
      BY <2>1, <3>1
    <3> HIDE DEF u, Within
    <3>3. u # <<>>
      BY <3>2
    <3>4. QED
      BY <3>2, <3>3
  <2>4. QED
    BY <2>2, <2>3 DEF Ended, WordAt
<1>5. \A n \in 0..N : Between(n) => k[n] = Ended(r[n])
  BY DEF Ended
<1>6. 0 \in T
  BY <1>1, <1>2, <1>3 DEF Reads, NothingRead
<1>7. ASSUME NEW n \in 0..N, n # N, n \in T PROVE n + 1 \in T
  <2>1. n + 1 \in 1..N /\ n + 1 \in 0..N /\ (n + 1) - 1 = n
    BY <1>1, <1>7
  <2>2. cmd[n + 1] \in Pieces /\ r[n] \in ReadState /\ r[n + 1] = ReadChar(r[n], cmd[n + 1])
    BY <1>2, <1>7, <2>1 DEF Reads
  <2>3. Break(cmd, n + 1) <=> cmd[n + 1] = Space /\ ~r[n].quoted
    BY <1>2, <2>1, BreakEnds
  <2>4. k[n + 1] = IF Starts(cmd, n + 1) THEN Append(k[n], WordAt(cmd, n + 1)) ELSE k[n]
    BY <1>3, <2>1
  <2>5. Starts(cmd, n + 1) <=> ~Break(cmd, n + 1) /\ (n = 0 \/ Break(cmd, n))
    BY <2>1 DEF Starts
  <2>6. CASE Break(cmd, n + 1)
    <3>1. r[n + 1] = [words |-> Ended(r[n]), word |-> <<>>, quoted |-> FALSE]
      BY <2>2, <2>3, <2>6, ReadCharIs
    <3>2. k[n + 1] = k[n]
      BY <2>4, <2>5, <2>6
    <3>3. k[n] = Ended(r[n])
      <4> HIDE DEF Between, Within
      <4>1. QED
        BY <1>4, <1>5, <1>7, <2>6
    <3>4. Between(n + 1)
      BY <2>6, <3>1, <3>2, <3>3
    <3> HIDE DEF Between, Within
    <3>5. QED
      BY <2>1, <3>4
  <2>7. CASE ~Break(cmd, n + 1)
    <3>1. r[n + 1].words = r[n].words /\ r[n + 1].word = Append(r[n].word, cmd[n + 1])
      <4> DEFINE s == r[n]
                 c == cmd[n + 1]
      <4>1. s \in ReadState /\ c \in Pieces /\ r[n + 1] = ReadChar(s, c) /\ ~(c = Space /\ ~s.quoted)
        BY <2>2, <2>3, <2>7
      <4> HIDE DEF s, c
      <4>2. ReadChar(s, c) = [words |-> s.words, word |-> Append(s.word, c),
                              quoted |-> (s.quoted # (c = Quote))]
        BY <4>1, ReadCharIs
      <4>3. r[n + 1].words = s.words /\ r[n + 1].word = Append(s.word, c)
        BY <4>1, <4>2
      <4>4. QED
        BY <4>3 DEF s, c
    <3>2. ASSUME Between(n) PROVE Within(n + 1, n + 1)
      <4>1. k[n + 1] = Append(r[n + 1].words, WordAt(cmd, n + 1))
        BY <2>4, <2>5, <2>7, <3>1, <3>2
      <4>2. SubSeq(cmd, n + 1, n + 1) = Append(SubSeq(cmd, n + 1, n), cmd[n + 1])
        BY <2>1, StretchGrows
      <4>3. SubSeq(cmd, n + 1, n) = <<>>
        BY <2>1, SubSeqEmpty
      <4>4. \A j \in n + 1..n + 1 : ~Break(cmd, j)
        BY <2>1, <2>7
      <4>5. QED
        BY <3>1, <3>2, <4>1, <4>2, <4>3, <4>4
    <3>3. ASSUME NEW b \in 1..n, Within(n, b) PROVE Within(n + 1, b)
      <4>1. ~Break(cmd, n) /\ n # 0
        BY <1>1, <3>3
      <4>2. k[n + 1] = Append(r[n + 1].words, WordAt(cmd, b))
        BY <2>4, <2>5, <3>1, <3>3, <4>1
      <4>3. SubSeq(cmd, b, n + 1) = Append(SubSeq(cmd, b, n), cmd[n + 1])
        <5>1. b \in 1..N /\ n + 1 \in b..N
          BY <1>1, <2>1
        <5>2. QED
          BY <2>1, <5>1, StretchGrows
      <4>4. \A j \in b..n + 1 : ~Break(cmd, j)
        <5>1. \A j \in b..n + 1 : j \in b..n \/ j = n + 1
          BY <2>1
        <5>2. QED
          BY <2>7, <3>3, <5>1
      <4>5. QED
        BY <3>1, <3>3, <4>2, <4>3, <4>4
    <3> HIDE DEF Between, Within
    <3>4. Between(n) \/ \E b \in 1..n : Within(n, b)
      BY <1>7
    <3>5. \E b \in 1..n + 1 : Within(n + 1, b)
      <4>1. n + 1 \in 1..n + 1 /\ 1..n \subseteq 1..n + 1
        BY <1>1
      <4>2. QED
        BY <3>2, <3>3, <3>4, <4>1
    <3>6. QED
      BY <2>1, <3>5
  <2>8. QED
    BY <2>6, <2>7
<1> HIDE DEF T
<1>8. 0..N \subseteq T
  BY <1>1, <1>6, <1>7, StepByStep
<1>9. N \in 0..N
  BY <1>1
<1>10. k[N] = Ended(r[N])
  <2> HIDE DEF Between, Within
  <2>1. Between(N) \/ \E b \in 1..N : Within(N, b)
    BY <1>8, <1>9 DEF T
  <2>2. QED
    BY <1>4, <1>5, <1>9, <2>1
<1>11. QED
  BY <1>2, <1>3, <1>10

-----------------------------------------------------------------------------
(* mkimage.py's command line.                                              *)

LEMMA DonorIs ==
  ASSUME NEW donor \in Donors
  PROVE  donor \in Seq(Pieces) /\ Quotes(donor, Len(donor)) % 2 = 0
<1>1. PICK n \in Nat : donor \in [1..n -> Chars]
  BY CmdlineAssumption DEF Donors
<1>2. Chars \subseteq Pieces
  BY DEF Pieces
<1>3. donor \in [1..n -> Pieces]
  BY <1>1, <1>2
<1>4. QED
  BY <1>3 DEF Donors

\* The words of a donor, whose quotes come in pairs, are words.
LEMMA DonorWords ==
  ASSUME NEW donor \in Donors
  PROVE  Words(donor) \in Seq(Word)
<1>1. donor \in Seq(Pieces) /\ Len(donor) \in 0..Len(donor)
  BY DonorIs
<1>2. PICK r : Reads(r, donor)
  BY <1>1, Reading
<1>3. After(donor) = r[Len(donor)]
  BY <1>1, <1>2, AfterIs
<1>4. ~(Quotes(donor, Len(donor)) % 2 = 1)
  BY DonorIs
<1>5. ~After(donor).quoted
  BY <1>1, <1>2, <1>3, <1>4, QuotedOdd
<1>6. QED
  BY <1>1, <1>5, AfterSound, AfterTyped, SoundEnded

\* What is appended is a word.
LEMMA StayIsWord == <<Stay>> \in Word
<1> DEFINE c == Stay
<1>1. c \in Pieces /\ c # Space /\ c # Quote
  BY DEF Pieces, Space, Quote, Stay
<1> HIDE DEF c
<1>2. <<>> \in Seq(Pieces) /\ <<c>> \in Seq(Pieces) /\ Append(<<>>, c) = <<c>>
  BY <1>1
<1>3. After(<<c>>) = ReadChar(NothingRead, c)
  BY <1>1, <1>2, AfterMore, AfterNothing
<1>4. ReadChar(NothingRead, c) = [words |-> <<>>, word |-> <<c>>, quoted |-> FALSE]
  BY <1>1, <1>2 DEF ReadChar, NothingRead
<1>5. QED
  BY <1>2, <1>3, <1>4 DEF Word, c

\* To the kernel, what mkimage.py puts together is the donor's words without
\* the dropped ones, and the appended one, for a donor of any length whose
\* quotes come in pairs (mkimage.py:128-168).
THEOREM CmdlineKept == CmdlineKeepsWords
<1> SUFFICES ASSUME NEW donor \in Donors
             PROVE  KernelWords(Cmdline(donor)) = Append(Kept(KernelWords(donor)), <<Stay>>)
    BY DEF CmdlineKeepsWords
<1> DEFINE ws == Append(Kept(Words(donor)), <<Stay>>)
<1>1. ws \in Seq(Word) /\ ws # <<>>
  BY DonorWords, KeptWords, StayIsWord, AppendProperties
<1>2. Words(donor) = KernelWords(donor)
  BY DonorIs, WordsAreKernelWords
<1>3. Cmdline(donor) = Joined(ws)
  BY DEF Cmdline
<1>4. ws = Append(Kept(KernelWords(donor)), <<Stay>>)
  BY <1>2
<1> HIDE DEF ws
<1>5. Joined(ws) \in Seq(Pieces) /\ Words(Joined(ws)) = ws
  BY <1>1, JoinedReads
<1>6. KernelWords(Joined(ws)) = Words(Joined(ws))
  BY <1>5, WordsAreKernelWords
<1>7. QED
  BY <1>3, <1>4, <1>5, <1>6

\* So the words the kernel finds in it are those of the donor's that do not
\* start with what is to be dropped, each of them, in their order, and then
\* the appended one: no part of a dropped word is left, and no other is lost
\* (mkimage.py:124-128).
THEOREM NoWordLost ==
  \A donor \in Donors :
    \E kept, e :
      /\ Picks(e, kept, KernelWords(donor), Len(KernelWords(donor)))
      /\ KernelWords(Cmdline(donor)) = Append(kept, <<Stay>>)
<1> SUFFICES ASSUME NEW donor \in Donors
             PROVE  \E kept, e :
                      /\ Picks(e, kept, KernelWords(donor), Len(KernelWords(donor)))
                      /\ KernelWords(Cmdline(donor)) = Append(kept, <<Stay>>)
    OBVIOUS
<1>1. KernelWords(donor) \in Seq(Word)
  BY DonorIs, DonorWords, WordsAreKernelWords
<1>2. KernelWords(Cmdline(donor)) = Append(Kept(KernelWords(donor)), <<Stay>>)
  BY CmdlineKept DEF CmdlineKeepsWords
<1>3. PICK e : Picks(e, Kept(KernelWords(donor)), KernelWords(donor), Len(KernelWords(donor)))
  BY <1>1, KeptPicks
<1>4. QED
  BY <1>2, <1>3
=============================================================================
