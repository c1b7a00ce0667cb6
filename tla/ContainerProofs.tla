-------------------------- MODULE ContainerProofs ---------------------------
(***************************************************************************)
(* Proofs about the containers of the library: string buffer, circular     *)
(* buffer, ID table, bag and word map, for any number of elements, entries *)
(* and calls, any hash function and any sizes.                             *)
(***************************************************************************)
EXTENDS LibraryMC, SequenceTheorems, FiniteSetTheorems, NaturalsInduction, WellFoundedInduction, TLAPS

-----------------------------------------------------------------------------
(* Induction, and the functions that recursion over numbers defines *)

\* A set of numbers has a least one.
LEMMA LeastOf ==
  ASSUME NEW T \in SUBSET Nat, T # {}
  PROVE  \E k \in T : \A j \in T : ~(j < k)
  <1>1. \A x, y \in T : y < x => <<y, x>> \in OpToRel(<, Nat)
    BY Zenon DEF OpToRel
  <1> QED
    BY <1>1, NatLessThanWellFounded, WFMin, Zenon

\* A set of numbers up to n with 0 and, with a number, the next, has them all.
LEMMA Climb ==
  ASSUME NEW n \in Nat, NEW T, 0 \in T, \A k \in 0..n : k # n /\ k \in T => k + 1 \in T
  PROVE  \A k \in 0..n : k \in T
  <1> DEFINE N == {k \in 0..n : k \notin T}
  <1>1. SUFFICES ASSUME N # {} PROVE FALSE
    OBVIOUS
  <1>2. N \in SUBSET Nat
    OBVIOUS
  <1>3. PICK k \in N : \A j \in N : ~(j < k)
    <2> HIDE DEF N
    <2> QED
      BY <1>1, <1>2, LeastOf
  <1>4. k # 0 /\ k \in 0..n /\ k \notin T
    BY <1>3
  <1>5. k - 1 \in 0..n /\ k - 1 # n /\ k - 1 < k
    BY <1>4
  <1>6. k - 1 \notin T
    BY <1>4, <1>5
  <1>7. k - 1 \in N
    BY <1>5, <1>6
  <1> QED
    BY <1>3, <1>5, <1>7

\* The function f starts with a, and g says what follows.
Unfolds(f, n, S, a, g) == f \in [0..n -> S] /\ f[0] = a /\ \A i \in 1..n : f[i] = g[i][f[i - 1]]

\* There is one for every a and g.
LEMMA Recursion ==
  ASSUME NEW n \in Nat, NEW S, NEW a \in S, NEW g \in [1..n -> [S -> S]]
  PROVE  \E f : Unfolds(f, n, S, a, g)
  <1> DEFINE P(k) == \E f \in [0..k -> S] : f[0] = a /\ \A i \in 1..k : f[i] = g[i][f[i - 1]]
             T == {k \in 0..n : P(k)}
  <1>1. 0 \in T
    <2>1. PICK f \in [0..0 -> S] : f = [i \in 0..0 |-> a]
      OBVIOUS
    <2>2. f[0] = a /\ \A i \in 1..0 : f[i] = g[i][f[i - 1]]
      BY <2>1
    <2> QED
      BY <2>2
  <1>2. ASSUME NEW k \in 0..n, k # n, k \in T PROVE k + 1 \in T
    <2>1. PICK f \in [0..k -> S] : f[0] = a /\ \A i \in 1..k : f[i] = g[i][f[i - 1]]
      BY <1>2
    <2>2. k + 1 \in 1..n /\ k \in 0..k
      BY <1>2
    <2>3. g[k + 1] \in [S -> S] /\ f[k] \in S
      BY <2>2
    <2>4. PICK v \in S : v = g[k + 1][f[k]]
      BY <2>3
    <2>5. PICK h : h = [i \in 0..(k + 1) |-> IF i = k + 1 THEN v ELSE f[i]]
      OBVIOUS
    <2>6. h \in [0..(k + 1) -> S] /\ h[k + 1] = v /\ \A i \in 0..k : h[i] = f[i]
      BY <2>5
    <2>7. \A i \in 1..(k + 1) : h[i] = g[i][h[i - 1]]
      <3>1. \A i \in 1..k : i \in 0..k /\ i - 1 \in 0..k
        OBVIOUS
      <3>2. \A i \in 1..k : h[i] = g[i][h[i - 1]]
        BY <2>1, <2>6, <3>1
      <3>3. h[k + 1] = g[k + 1][h[(k + 1) - 1]]
        BY <2>2, <2>4, <2>6
      <3> QED
        BY <3>2, <3>3
    <2>8. h[0] = a
      BY <2>1, <2>6
    <2>9. P(k + 1)
      BY <2>6, <2>7, <2>8
    <2> QED
      BY <2>2, <2>9
  <1>3. n \in 0..n
    OBVIOUS
  <1>4. n \in T
    <2> HIDE DEF T
    <2> QED
      BY <1>1, <1>2, <1>3, Climb
  <1> QED
    BY <1>4 DEF Unfolds

-----------------------------------------------------------------------------
(* String buffer: the numbers *)

Buffers == [length : Int, bufferSize : Int, bufferRemaining : Int, allocated : Int, beyond : Int, uncounted : Int]

\* The bytes that the writes of strbuf.c do not count
Uncounted == {0, 1, 2, 8}

\* What strbuf.c:30 states of a buffer, and how far its writes have gone
GoodBuffer(b) ==
  /\ b \in Buffers /\ b.length = b.bufferSize - b.bufferRemaining /\ b.length >= 0
  /\ b.bufferRemaining >= 0 /\ b.bufferSize <= b.allocated
  /\ b.beyond = 0 \/ b.beyond <= b.uncounted - (b.allocated - b.bufferSize)
  /\ b.uncounted \in Uncounted

\* enlarge leaves the buffer good, with room for what was asked for.
LEMMA EnlargeMakesRoom ==
  ASSUME NEW b \in Buffers, NEW n \in Nat
  PROVE  /\ strbuf_enlarge(b, n) \in Buffers
         /\ GoodBuffer(b) => GoodBuffer(strbuf_enlarge(b, n)) /\ strbuf_enlarge(b, n).bufferRemaining >= n
  <1>1. CASE b.bufferRemaining > n
    BY <1>1 DEF strbuf_enlarge, GoodBuffer, Buffers
  <1>2. CASE ~(b.bufferRemaining > n)
    <2>1. PICK inc \in Int : inc = IF b.bufferSize + b.bufferRemaining < n THEN n ELSE b.bufferSize
      BY DEF Buffers
    <2>2. PICK c : c = [b EXCEPT !.bufferSize = @ + inc, !.bufferRemaining = @ + inc, !.allocated = b.bufferSize + inc]
      OBVIOUS
    <2>3. strbuf_enlarge(b, n) = c
      BY <1>2, <2>1, <2>2 DEF strbuf_enlarge
    <2>4. /\ c \in Buffers /\ c.length = b.length /\ c.bufferSize = b.bufferSize + inc
          /\ c.bufferRemaining = b.bufferRemaining + inc /\ c.allocated = b.bufferSize + inc
          /\ c.beyond = b.beyond /\ c.uncounted = b.uncounted
      <3>1. b = [length |-> b.length, bufferSize |-> b.bufferSize, bufferRemaining |-> b.bufferRemaining,
                 allocated |-> b.allocated, beyond |-> b.beyond, uncounted |-> b.uncounted]
        BY DEF Buffers
      <3>2. b.length \in Int /\ b.bufferSize \in Int /\ b.bufferRemaining \in Int /\ b.beyond \in Int /\ b.uncounted \in Int
        BY DEF Buffers
      <3>3. c = [length |-> b.length, bufferSize |-> b.bufferSize + inc, bufferRemaining |-> b.bufferRemaining + inc,
                 allocated |-> b.bufferSize + inc, beyond |-> b.beyond, uncounted |-> b.uncounted]
        BY <2>2, <3>1
      <3> QED
        BY <3>2, <3>3 DEF Buffers
    <2>5. GoodBuffer(b) => GoodBuffer(c) /\ c.bufferRemaining >= n
      BY <1>2, <2>1, <2>4 DEF GoodBuffer, Buffers
    <2> QED
      BY <2>3, <2>4, <2>5
  <1> QED
    BY <1>1, <1>2

\* Put leaves a good buffer good when there is room for the characters counted.
LEMMA PutInRoom ==
  ASSUME NEW b \in Buffers, NEW n \in Nat, NEW m \in Uncounted
  PROVE  /\ Put(b, n, n + m) \in Buffers /\ Put(b, n, n + m).bufferRemaining = b.bufferRemaining - n
         /\ GoodBuffer(b) /\ b.bufferRemaining >= n => GoodBuffer(Put(b, n, n + m))
  <1>1. PICK c : c = Put(b, n, n + m)
    OBVIOUS
  <1>2. PICK past \in Int : past = Larger(b.beyond, b.length + (n + m) - b.allocated)
    BY DEF Larger, Buffers, Uncounted
  <1>3. PICK most \in Int : most = Larger(b.uncounted, (n + m) - n)
    BY DEF Larger, Buffers, Uncounted
  <1>4. /\ c \in Buffers /\ c.length = b.length + n /\ c.bufferSize = b.bufferSize
        /\ c.bufferRemaining = b.bufferRemaining - n /\ c.allocated = b.allocated
        /\ c.beyond = past /\ c.uncounted = most
    <2>1. b = [length |-> b.length, bufferSize |-> b.bufferSize, bufferRemaining |-> b.bufferRemaining,
               allocated |-> b.allocated, beyond |-> b.beyond, uncounted |-> b.uncounted]
      BY DEF Buffers
    <2>2. b.length \in Int /\ b.bufferSize \in Int /\ b.bufferRemaining \in Int /\ b.allocated \in Int
      BY DEF Buffers
    <2>3. c = [length |-> b.length + n, bufferSize |-> b.bufferSize, bufferRemaining |-> b.bufferRemaining - n,
               allocated |-> b.allocated, beyond |-> past, uncounted |-> most]
      BY <1>1, <1>2, <1>3, <2>1 DEF Put
    <2> QED
      BY <2>2, <2>3 DEF Buffers
  <1>5. ASSUME GoodBuffer(b), b.bufferRemaining >= n PROVE GoodBuffer(c)
    <2>1. m \in Nat /\ b.uncounted \in Nat /\ b.beyond \in Int /\ b.length \in Int /\ b.allocated \in Int /\ b.bufferSize \in Int
      BY <1>5 DEF GoodBuffer, Buffers, Uncounted
    <2>2. most \in Uncounted /\ most >= m /\ most >= b.uncounted
      BY <1>3, <1>5, <2>1 DEF Larger, GoodBuffer
    <2>3. past = 0 \/ past <= most - (b.allocated - b.bufferSize)
      BY <1>2, <1>5, <2>1, <2>2 DEF Larger, GoodBuffer, Buffers
    <2> QED
      BY <1>4, <1>5, <2>2, <2>3 DEF GoodBuffer, Buffers
  <1> QED
    BY <1>1, <1>4, <1>5

\* A piece of any length leaves a good buffer good, with the \0 that strcpy writes or without it.
LEMMA PiecePut ==
  ASSUME NEW b, GoodBuffer(b), NEW n \in Nat
  PROVE  GoodBuffer(PutText(b, n)) /\ GoodBuffer(PutBinary(b, n))
  <1>1. PICK c : c = strbuf_enlarge(b, n) /\ GoodBuffer(c) /\ c.bufferRemaining >= n
    BY EnlargeMakesRoom DEF GoodBuffer
  <1>2. 0 \in Uncounted /\ 1 \in Uncounted /\ n + 0 = n
    BY DEF Uncounted
  <1>3. c \in Buffers
    BY <1>1 DEF GoodBuffer
  <1>4. GoodBuffer(Put(c, n, n + 1))
    BY <1>1, <1>2, <1>3, PutInRoom
  <1>5. GoodBuffer(Put(c, n, n + 0))
    BY <1>1, <1>2, <1>3, PutInRoom
  <1> QED
    BY <1>1, <1>2, <1>4, <1>5 DEF PutText, PutBinary

\* So does the \0 at the end of a format.
LEMMA EndPut ==
  ASSUME NEW b, GoodBuffer(b)
  PROVE  GoodBuffer(Terminated(b))
  <1>1. 1 \in Uncounted /\ 0 + 1 = 1 /\ b \in Buffers /\ b.bufferRemaining >= 0
    BY DEF Uncounted, GoodBuffer
  <1>2. GoodBuffer(Put(b, 0, 0 + 1))
    BY <1>1, PutInRoom
  <1> QED
    BY <1>1, <1>2 DEF Terminated

\* So does a character.
LEMMA CharPut ==
  ASSUME NEW b, GoodBuffer(b)
  PROVE  GoodBuffer(PutChar(b))
  <1>1. PICK c : c = IF b.bufferRemaining = 0 THEN strbuf_enlarge(b, 1) ELSE b
    OBVIOUS
  <1>2. GoodBuffer(c) /\ c.bufferRemaining >= 1
    <2>1. CASE b.bufferRemaining = 0
      BY <1>1, <2>1, EnlargeMakesRoom DEF GoodBuffer
    <2>2. CASE b.bufferRemaining # 0
      BY <1>1, <2>2 DEF GoodBuffer, Buffers
    <2> QED
      BY <2>1, <2>2
  <1>3. 0 \in Uncounted /\ 1 + 0 = 1
    BY DEF Uncounted
  <1>4. GoodBuffer(Put(c, 1, 1 + 0))
    BY <1>2, <1>3, PutInRoom DEF GoodBuffer
  <1> QED
    BY <1>1, <1>3, <1>4 DEF PutChar

\* The character i of a string of n, quoted or not
QuoteStep(c, n, i, kind) ==
  IF kind = "plain" THEN Put(c, 1, 1)
  ELSE Put(IF c.bufferRemaining < n - i + 1 + 2 THEN strbuf_enlarge(c, n - i + 1 + 2) ELSE c, 3, QuotedBytes(kind))

\* It finds the room it needs, and leaves room for the characters that follow.
LEMMA QuoteStepFits ==
  ASSUME NEW n \in Nat, NEW i \in 1..n, NEW kind, NEW c \in Buffers
  PROVE  /\ QuoteStep(c, n, i, kind) \in Buffers
         /\ GoodBuffer(c) /\ c.bufferRemaining >= n - (i - 1)
            => GoodBuffer(QuoteStep(c, n, i, kind)) /\ QuoteStep(c, n, i, kind).bufferRemaining >= n - i
  <1>1. PICK m \in Nat : m = n - i + 1 + 2
    OBVIOUS
  <1>2. CASE kind = "plain"
    <2>1. QuoteStep(c, n, i, kind) = Put(c, 1, 1 + 0) /\ 0 \in Uncounted
      BY <1>2 DEF QuoteStep, Uncounted
    <2>2. /\ Put(c, 1, 1 + 0) \in Buffers /\ Put(c, 1, 1 + 0).bufferRemaining = c.bufferRemaining - 1
          /\ GoodBuffer(c) /\ c.bufferRemaining >= 1 => GoodBuffer(Put(c, 1, 1 + 0))
      BY <2>1, PutInRoom
    <2>3. c.bufferRemaining \in Int
      BY DEF Buffers
    <2> QED
      BY <2>1, <2>2, <2>3
  <1>3. CASE kind # "plain"
    <2>1. PICK e : e = IF c.bufferRemaining < m THEN strbuf_enlarge(c, m) ELSE c
      OBVIOUS
    <2> PICK k \in Uncounted : QuotedBytes(kind) = 3 + k
      BY DEF QuotedBytes, Uncounted
    <2>2. QuoteStep(c, n, i, kind) = Put(e, 3, 3 + k)
      BY <1>1, <1>3, <2>1 DEF QuoteStep
    <2>3. e \in Buffers
      BY <2>1, EnlargeMakesRoom
    <2>4. GoodBuffer(c) => GoodBuffer(e) /\ e.bufferRemaining >= m
      <3>1. CASE c.bufferRemaining < m
        BY <2>1, <3>1, EnlargeMakesRoom
      <3>2. CASE ~(c.bufferRemaining < m)
        BY <2>1, <3>2 DEF Buffers
      <3> QED
        BY <3>1, <3>2
    <2>5. /\ Put(e, 3, 3 + k) \in Buffers /\ Put(e, 3, 3 + k).bufferRemaining = e.bufferRemaining - 3
          /\ GoodBuffer(e) /\ e.bufferRemaining >= 3 => GoodBuffer(Put(e, 3, 3 + k))
      BY <2>3, PutInRoom
    <2>6. e.bufferRemaining \in Int
      BY <2>3 DEF Buffers
    <2> QED
      BY <1>1, <2>2, <2>4, <2>5, <2>6
  <1> QED
    BY <1>2, <1>3

\* What the definition of Quoted says of a function
QuotesSo(f, b, s) ==
  f = [i \in 0 .. Len(s) |->
         LET remainToCopy == Len(s) - i + 1
         IN IF i = 0 THEN strbuf_enlarge(b, Len(s))
            ELSE IF s[i] = "plain" THEN Put(f[i - 1], 1, 1)
            ELSE Put(IF f[i - 1].bufferRemaining < remainToCopy + 2
                     THEN strbuf_enlarge(f[i - 1], remainToCopy + 2) ELSE f[i - 1],
                     3, QuotedBytes(s[i]))]

\* Quoted satisfies its own definition.
LEMMA QuotedSo == ASSUME NEW b, NEW s, \E f : QuotesSo(f, b, s) PROVE QuotesSo(Quoted(b, s), b, s)
  BY DEF QuotesSo, Quoted

\* A string with any characters to be quoted leaves a good buffer good: the room is never used up before its end.
LEMMA QuotedPut ==
  ASSUME NEW b, GoodBuffer(b), NEW n \in Nat, NEW s \in [1..n -> CharKind]
  PROVE  GoodBuffer(PutQuoted(b, s))
  <1>1. Len(s) = n /\ DOMAIN s = 1..n
    OBVIOUS
  <1>2. PICK a \in Buffers : a = strbuf_enlarge(b, n) /\ GoodBuffer(a) /\ a.bufferRemaining >= n
    BY EnlargeMakesRoom DEF GoodBuffer
  <1>3. PICK g : g = [i \in 1..n |-> [c \in Buffers |-> QuoteStep(c, n, i, s[i])]]
    OBVIOUS
  <1>4. g \in [1..n -> [Buffers -> Buffers]]
    BY <1>3, QuoteStepFits
  <1>5. PICK f \in [0..n -> Buffers] : f[0] = a /\ \A i \in 1..n : f[i] = g[i][f[i - 1]]
    <2>1. \E f : Unfolds(f, n, Buffers, a, g)
      BY <1>4, Recursion
    <2> QED
      BY <2>1 DEF Unfolds
  <1>6. \A i \in 1..n : i - 1 \in 0..n /\ f[i - 1] \in Buffers
    OBVIOUS
  <1>7. \A i \in 1..n : f[i] = QuoteStep(f[i - 1], n, i, s[i])
    BY <1>3, <1>5, <1>6
  <1>8. QuotesSo(f, b, s)
    <2> DEFINE value(i) == LET remainToCopy == Len(s) - i + 1
                           IN IF i = 0 THEN strbuf_enlarge(b, Len(s))
                              ELSE IF s[i] = "plain" THEN Put(f[i - 1], 1, 1)
                              ELSE Put(IF f[i - 1].bufferRemaining < remainToCopy + 2
                                       THEN strbuf_enlarge(f[i - 1], remainToCopy + 2) ELSE f[i - 1],
                     3, QuotedBytes(s[i]))
    <2>1. \A i \in 1..n : value(i) = f[i]
      BY <1>1, <1>7 DEF QuoteStep
    <2>2. value(0) = f[0]
      BY <1>1, <1>2, <1>5
    <2>3. \A i \in 0..n : value(i) = f[i]
      <3> HIDE DEF value
      <3> QED
        BY <2>1, <2>2
    <2>4. f = [i \in 0..n |-> f[i]]
      OBVIOUS
    <2>5. f = [i \in 0..n |-> value(i)]
      <3> HIDE DEF value
      <3> QED
        BY <2>3, <2>4
    <2> QED
      BY <1>1, <2>5 DEF QuotesSo
  <1>9. PICK h : h = Quoted(b, s) /\ QuotesSo(h, b, s)
    BY <1>8, QuotedSo
  <1>10. h[0] = a /\ \A i \in 1..n : h[i] = QuoteStep(h[i - 1], n, i, s[i])
    BY <1>1, <1>2, <1>9 DEF QuotesSo, QuoteStep
  <1> DEFINE T == {i \in 0..n : h[i] \in Buffers /\ GoodBuffer(h[i]) /\ h[i].bufferRemaining >= n - i}
  <1>11. 0 \in T
    BY <1>2, <1>10
  <1>12. ASSUME NEW k \in 0..n, k # n, k \in T PROVE k + 1 \in T
    <2>1. k + 1 \in 1..n /\ (k + 1) - 1 = k
      BY <1>12
    <2>2. PICK c \in Buffers : c = h[k] /\ GoodBuffer(c) /\ c.bufferRemaining >= n - k
      BY <1>12
    <2>3. h[k + 1] = QuoteStep(c, n, k + 1, s[k + 1])
      BY <1>10, <2>1, <2>2
    <2>4. h[k + 1] \in Buffers /\ GoodBuffer(h[k + 1]) /\ h[k + 1].bufferRemaining >= n - (k + 1)
      BY <2>1, <2>2, <2>3, QuoteStepFits
    <2> QED
      BY <2>1, <2>4
  <1>13. n \in T
    <2> HIDE DEF T
    <2>1. n \in 0..n
      OBVIOUS
    <2> QED
      BY <1>11, <1>12, <2>1, Climb
  <1> QED
    BY <1>1, <1>9, <1>13 DEF PutQuoted

\* A new buffer is good.
LEMMA BufferCreated == \A n \in StrBufLengths : GoodBuffer(strbuf_create(n))
  BY StrBufAssumption DEF strbuf_create, GoodBuffer, Buffers, Uncounted

\* Every call keeps the buffer good.
LEMMA StrBufStep == GoodBuffer(strbuf) /\ [StrBufNext]_strbuf => GoodBuffer(strbuf)'
  <1> SUFFICES ASSUME GoodBuffer(strbuf), [StrBufNext]_strbuf PROVE GoodBuffer(strbuf')
    OBVIOUS
  <1>1. StrBufPieces \subseteq Nat /\ \A n \in StrBufPieces : n + 1 \in Nat
    BY StrBufAssumption
  <1>2. CASE strbuf_sprintf
    BY <1>1, <1>2, PiecePut, CharPut, EndPut DEF strbuf_sprintf
  <1>3. CASE strbuf_sprintfQuoteSubstrings
    BY <1>1, <1>3, QuotedPut, EndPut DEF strbuf_sprintfQuoteSubstrings
  <1>4. CASE strbuf_stringList_append \/ \E n \in StrBufPieces : strbuf_appendBinary(n)
    BY <1>1, <1>4, PiecePut DEF strbuf_stringList_append, strbuf_appendBinary
  <1>5. CASE strbuf_destroy
    BY <1>5, BufferCreated DEF strbuf_destroy
  <1>6. CASE UNCHANGED strbuf
    BY <1>6
  <1> QED
    BY <1>2, <1>3, <1>4, <1>5, <1>6 DEF StrBufNext

\* A library step is a step of the string buffer, or leaves it alone.
LEMMA StrBufSteps == [Next]_libraryVars => [StrBufNext]_strbuf
  BY DEF Next, libraryVars

\* strbuf.c keeps the invariant of its structure, with the characters it counts in the allocation, for strings of
\* any length with any characters to be quoted, in any order; and its writes end past the allocation by no more than
\* the bytes it does not count: the terminating \0 of a buffer that has grown, and the rest of a quoted character.
THEOREM StringBufferStaysSound == Spec => []StrBufSound
  <1>1. Init => GoodBuffer(strbuf)
    <2>1. (CHOOSE n \in StrBufLengths : TRUE) \in StrBufLengths
      BY StrBufAssumption
    <2> QED
      BY <2>1, BufferCreated DEF Init, StrBufInit
  <1>2. GoodBuffer(strbuf) /\ [Next]_libraryVars => GoodBuffer(strbuf)'
    BY StrBufStep, StrBufSteps
  <1>3. GoodBuffer(strbuf) => StrBufSound
    BY DEF GoodBuffer, StrBufSound, Uncounted
  <1> QED
    BY <1>1, <1>2, <1>3, PTL DEF Spec

-----------------------------------------------------------------------------
(* Circular buffer: the slots *)

\* The remainder of a number that is less than two turns.
LEMMA ModTurn ==
  ASSUME NEW n \in Nat \ {0}, NEW x \in Nat, x < n + n
  PROVE  x % n = IF x < n THEN x ELSE x - n
  OBVIOUS

\* The i-th slot of those that start with slot t
CircSlot(t, i) ==
  IF t + i - 1 < 0 THEN t + i - 1 + CircSize ELSE IF t + i - 1 < CircSize THEN t + i - 1 ELSE t + i - 1 - CircSize

\* The slots go round the vector, each once.
LEMMA SlotFacts ==
  ASSUME NEW t \in 0..(CircSize - 1)
  PROVE  /\ Following(t) \in 0..(CircSize - 1) /\ CircSlot(t, 1) = t
         /\ \A i \in 0..CircSize : CircSlot(t, i) \in 0..(CircSize - 1)
         /\ \A i \in 0..CircSize : i # CircSize => /\ CircSlot(Following(t), i) = CircSlot(t, i + 1)
                                                   /\ Following(CircSlot(t, i)) = CircSlot(t, i + 1)
         /\ \A i, j \in 1..CircSize : CircSlot(t, i) = CircSlot(t, j) => i = j
         /\ CircSlot(t, CircSize) = CircSlot(t, 0)
  BY CircAssumption DEF CircSlot, Following

CircValues == CircElement \cup {NullPtr}

CircVectorShape(v) ==
  /\ v = [capacity |-> v.capacity, capacityIncrement |-> v.capacityIncrement, data |-> v.data, refCount |-> v.refCount]
  /\ v.data \in [1..CircSize -> CircValues]

\* A buffer whose head, tail and count agree, with an element in each slot they span and none in two slots.
GoodCirc(cb) ==
  /\ cb = [vector |-> cb.vector, headIndex |-> cb.headIndex, tailIndex |-> cb.tailIndex,
           elementCount |-> cb.elementCount, destroyFunc |-> cb.destroyFunc, exists |-> cb.exists]
  /\ CircVectorShape(cb.vector) /\ cb.tailIndex \in 0..(CircSize - 1) /\ cb.elementCount \in 0..CircSize
  /\ cb.headIndex = CircSlot(cb.tailIndex, cb.elementCount)
  /\ \A i \in 1..cb.elementCount : cb.vector.data[CircSlot(cb.tailIndex, i) + 1] \in CircElement
  /\ \A j, k \in 1..CircSize : cb.vector.data[j] = cb.vector.data[k] => j = k \/ cb.vector.data[j] = NullPtr

\* The elements of a buffer, oldest first
ItemsOf(cb) == [i \in 1..cb.elementCount |-> cb.vector.data[CircSlot(cb.tailIndex, i) + 1]]

\* An element is set in a vector that is full already.
LEMMA SetInVector ==
  ASSUME NEW v, CircVectorShape(v), NEW k \in 0..(CircSize - 1), NEW e \in CircValues
  PROVE  /\ CircVectorShape(vectorSetElementAt(v, k, e))
         /\ vectorSetElementAt(v, k, e).data = [v.data EXCEPT ![k + 1] = e]
  <1>1. CircSize \in Nat /\ k + 1 \in 1..CircSize
    BY CircAssumption
  <1>2. Len(v.data) = CircSize
    BY <1>1 DEF CircVectorShape
  <1>3. PICK d : d = [v.data EXCEPT ![k + 1] = e]
    OBVIOUS
  <1>4. d \in [1..CircSize -> CircValues]
    BY <1>3 DEF CircVectorShape
  <1>5. PICK w : w = [v EXCEPT !.data = d]
    OBVIOUS
  <1>6. w = vectorSetElementAt(v, k, e)
    <2>1. k # Len(v.data)
      BY <1>1, <1>2
    <2>2. vectorSetElementAt(v, k, e) = [v EXCEPT !.data[k + 1] = e]
      BY <2>1 DEF vectorSetElementAt
    <2> QED
      BY <1>3, <1>5, <2>2 DEF CircVectorShape
  <1>7. CircVectorShape(w) /\ w.data = d
    BY <1>4, <1>5 DEF CircVectorShape
  <1> QED
    BY <1>3, <1>6, <1>7

\* The remainders in CircItems are the slots.
LEMMA ItemsAre ==
  ASSUME NEW cb, GoodCirc(cb)
  PROVE  [i \in 1..cb.elementCount |-> vectorGetElementAt(cb.vector, (cb.tailIndex + i - 1) % CircSize)] = ItemsOf(cb)
  <1>1. ASSUME NEW i \in 1..cb.elementCount
        PROVE (cb.tailIndex + i - 1) % CircSize = CircSlot(cb.tailIndex, i)
    <2>1. PICK x \in Nat : x = cb.tailIndex + i - 1
      BY CircAssumption DEF GoodCirc
    <2>2. x < CircSize + CircSize /\ CircSize \in Nat \ {0}
      BY <2>1, CircAssumption DEF GoodCirc
    <2>3. x % CircSize = IF x < CircSize THEN x ELSE x - CircSize
      BY <2>2, ModTurn
    <2>4. PICK tail \in 0..(CircSize - 1) : tail = cb.tailIndex
      BY DEF GoodCirc
    <2>5. CircSlot(tail, i) = IF x < CircSize THEN x ELSE x - CircSize
      BY <2>1, <2>2, <2>4, CircAssumption DEF CircSlot
    <2> QED
      BY <2>1, <2>3, <2>4, <2>5
  <1> QED
    BY <1>1 DEF ItemsOf, vectorGetElementAt

\* The items are a sequence of elements, each once.
LEMMA ItemsFacts ==
  ASSUME NEW cb, GoodCirc(cb)
  PROVE  /\ ItemsOf(cb) \in Seq(CircElement) /\ Len(ItemsOf(cb)) = cb.elementCount
         /\ \A i \in 1..cb.elementCount : ItemsOf(cb)[i] = cb.vector.data[CircSlot(cb.tailIndex, i) + 1]
         /\ \A i, j \in 1..cb.elementCount : ItemsOf(cb)[i] = ItemsOf(cb)[j] => i = j
  <1>1. cb.elementCount \in Nat /\ cb.elementCount <= CircSize /\ CircSize \in Nat
    BY CircAssumption DEF GoodCirc
  <1>2. \A i \in 1..cb.elementCount : ItemsOf(cb)[i] = cb.vector.data[CircSlot(cb.tailIndex, i) + 1]
    BY DEF ItemsOf
  <1>3. ItemsOf(cb) \in [1..cb.elementCount -> CircElement]
    BY DEF ItemsOf, GoodCirc
  <1>4. ItemsOf(cb) \in Seq(CircElement) /\ Len(ItemsOf(cb)) = cb.elementCount
    BY <1>1, <1>3
  <1>5. \A i, j \in 1..cb.elementCount : ItemsOf(cb)[i] = ItemsOf(cb)[j] => i = j
    <2> SUFFICES ASSUME NEW i \in 1..cb.elementCount, NEW j \in 1..cb.elementCount, ItemsOf(cb)[i] = ItemsOf(cb)[j] PROVE i = j
      OBVIOUS
    <2>1. i \in 1..CircSize /\ j \in 1..CircSize /\ i \in 0..CircSize /\ j \in 0..CircSize
      BY <1>1
    <2>2. PICK a \in 0..(CircSize - 1) : a = CircSlot(cb.tailIndex, i)
      BY <2>1, SlotFacts DEF GoodCirc
    <2>3. PICK b \in 0..(CircSize - 1) : b = CircSlot(cb.tailIndex, j)
      BY <2>1, SlotFacts DEF GoodCirc
    <2>4. cb.vector.data[a + 1] = cb.vector.data[b + 1] /\ cb.vector.data[a + 1] # NullPtr
      BY <1>2, <1>3, <2>2, <2>3, CircAssumption
    <2>5. a + 1 \in 1..CircSize /\ b + 1 \in 1..CircSize
      BY <1>1
    <2>6. a + 1 = b + 1
      BY <2>4, <2>5 DEF GoodCirc
    <2>7. a = b
      BY <2>6
    <2>8. PICK t \in 0..(CircSize - 1) : t = cb.tailIndex
      BY DEF GoodCirc
    <2>9. CircSlot(t, i) = CircSlot(t, j)
      BY <2>2, <2>3, <2>7, <2>8
    <2> QED
      BY <2>1, <2>9, SlotFacts
  <1> QED
    BY <1>2, <1>4, <1>5

\* Two sequences are the same when their items are.
LEMMA SameSeq ==
  ASSUME NEW S, NEW s \in Seq(S), NEW t \in Seq(S), Len(s) = Len(t), \A i \in 1..Len(s) : s[i] = t[i]
  PROVE  s = t
  OBVIOUS

\* The tail goes: the rest stays, and the element is in no slot any more.
LEMMA TailGoes ==
  ASSUME NEW cb, GoodCirc(cb), cb.elementCount > 0, NEW c, c = WithoutTail(cb)
  PROVE     /\ GoodCirc(c) /\ c.elementCount = cb.elementCount - 1
            /\ c.destroyFunc = cb.destroyFunc /\ c.exists = cb.exists
            /\ \A k \in 1..CircSize : c.vector.data[k] \in {cb.vector.data[k], NullPtr}
            /\ \A k \in 1..CircSize : c.vector.data[k] # Oldest(cb)
            /\ Oldest(cb) = ItemsOf(cb)[1] /\ Oldest(cb) \in CircElement
            /\ \A i \in 1..c.elementCount : ItemsOf(c)[i] = ItemsOf(cb)[i + 1]
            /\ ItemsOf(c) = Tail(ItemsOf(cb))
  <1>1. PICK t \in 0..(CircSize - 1) : t = cb.tailIndex
    BY DEF GoodCirc
  <1>2. PICK n \in 1..CircSize : n = cb.elementCount
    BY CircAssumption DEF GoodCirc
  <1>3. PICK w : w = vectorSetElementAt(cb.vector, t, NullPtr) /\ CircVectorShape(w) /\ w.data = [cb.vector.data EXCEPT ![t + 1] = NullPtr]
    <2>1. CircVectorShape(cb.vector) /\ NullPtr \in CircValues
      BY DEF GoodCirc, CircValues
    <2> QED
      BY <2>1, SetInVector
  <1>5. /\ c = [vector |-> w, headIndex |-> cb.headIndex, tailIndex |-> Following(t),
                elementCount |-> n - 1, destroyFunc |-> cb.destroyFunc, exists |-> cb.exists]
    BY <1>1, <1>2, <1>3 DEF WithoutTail, GoodCirc
  <1>6. /\ c.vector = w /\ c.headIndex = cb.headIndex /\ c.tailIndex = Following(t) /\ c.elementCount = n - 1
        /\ c.destroyFunc = cb.destroyFunc /\ c.exists = cb.exists
    BY <1>5
  <1>7. t + 1 \in 1..CircSize /\ CircSize \in Nat
    BY CircAssumption
  <1>8. PICK d \in [1..CircSize -> CircValues] : d = cb.vector.data
    BY DEF GoodCirc, CircVectorShape
  <1>9. \A k \in 1..CircSize : w.data[k] = IF k = t + 1 THEN NullPtr ELSE d[k]
    BY <1>3, <1>7, <1>8
  <1>10. CircSlot(t, 1) = t /\ 1 \in 1..n /\ d[t + 1] \in CircElement
    <2>1. CircSlot(t, 1) = t
      BY SlotFacts
    <2> QED
      BY <1>1, <1>2, <1>8, <2>1 DEF GoodCirc
  <1>11. \A i \in 1..(n - 1) : /\ CircSlot(Following(t), i) = CircSlot(t, i + 1) /\ CircSlot(t, i + 1) \in 0..(CircSize - 1)
                               /\ CircSlot(t, i + 1) # t
    <2> SUFFICES ASSUME NEW i \in 1..(n - 1)
                 PROVE /\ CircSlot(Following(t), i) = CircSlot(t, i + 1) /\ CircSlot(t, i + 1) \in 0..(CircSize - 1)
                       /\ CircSlot(t, i + 1) # t
      OBVIOUS
    <2>1. i \in 0..CircSize /\ i # CircSize /\ i + 1 \in 1..CircSize /\ i + 1 \in 0..CircSize /\ 1 \in 1..CircSize /\ i + 1 # 1
      BY <1>7
    <2> QED
      BY <2>1, SlotFacts
  <1>12. \A i \in 1..(n - 1) : w.data[CircSlot(Following(t), i) + 1] = d[CircSlot(t, i + 1) + 1] /\ i + 1 \in 1..n
    <2> SUFFICES ASSUME NEW i \in 1..(n - 1) PROVE w.data[CircSlot(Following(t), i) + 1] = d[CircSlot(t, i + 1) + 1] /\ i + 1 \in 1..n
      OBVIOUS
    <2>1. PICK a \in 0..(CircSize - 1) : a = CircSlot(t, i + 1) /\ a = CircSlot(Following(t), i) /\ a # t
      BY <1>11
    <2>2. a + 1 \in 1..CircSize /\ a + 1 # t + 1
      BY <1>7, <2>1
    <2>3. w.data[a + 1] = d[a + 1]
      BY <1>9, <2>2
    <2> QED
      BY <2>1, <2>3
  <1>13. GoodCirc(c)
    <2>1. c.tailIndex \in 0..(CircSize - 1) /\ c.elementCount \in 0..CircSize
      BY <1>6, <1>7, SlotFacts
    <2>2. c.headIndex = CircSlot(c.tailIndex, c.elementCount)
      <3>1. n - 1 \in 0..CircSize /\ n - 1 # CircSize /\ (n - 1) + 1 = n
        BY <1>7
      <3>2. CircSlot(Following(t), n - 1) = CircSlot(t, n)
        BY <3>1, SlotFacts
      <3> QED
        BY <1>1, <1>2, <1>6, <3>2 DEF GoodCirc
    <2>3. \A i \in 1..c.elementCount : c.vector.data[CircSlot(c.tailIndex, i) + 1] \in CircElement
      BY <1>1, <1>2, <1>6, <1>8, <1>12 DEF GoodCirc
    <2>4. \A j, k \in 1..CircSize : c.vector.data[j] = c.vector.data[k] => j = k \/ c.vector.data[j] = NullPtr
      BY <1>6, <1>8, <1>9 DEF GoodCirc
    <2> QED
      BY <1>3, <1>5, <1>6, <2>1, <2>2, <2>3, <2>4 DEF GoodCirc
  <1>14. Oldest(cb) = d[t + 1] /\ ItemsOf(cb)[1] = d[t + 1]
    BY <1>1, <1>2, <1>8, <1>10 DEF Oldest, vectorGetElementAt, ItemsOf
  <1>15. \A k \in 1..CircSize : c.vector.data[k] \in {cb.vector.data[k], NullPtr}
    BY <1>6, <1>8, <1>9
  <1>16. \A k \in 1..CircSize : c.vector.data[k] # Oldest(cb)
    <2>1. d[t + 1] # NullPtr
      BY <1>10, CircAssumption
    <2>2. \A k \in 1..CircSize : d[k] = d[t + 1] => k = t + 1
      BY <1>7, <1>8, <2>1 DEF GoodCirc
    <2> QED
      BY <1>6, <1>9, <1>14, <2>1, <2>2
  <1>17. \A i \in 1..c.elementCount : ItemsOf(c)[i] = ItemsOf(cb)[i + 1]
    <2>1. \A i \in 1..(n - 1) : ItemsOf(c)[i] = w.data[CircSlot(Following(t), i) + 1]
      BY <1>6 DEF ItemsOf
    <2>2. \A i \in 1..n : ItemsOf(cb)[i] = d[CircSlot(t, i) + 1]
      BY <1>1, <1>2, <1>8 DEF ItemsOf
    <2> QED
      BY <1>6, <1>12, <2>1, <2>2
  <1>18. ItemsOf(c) = Tail(ItemsOf(cb))
    <2>1. PICK s \in Seq(CircElement) : s = ItemsOf(cb) /\ Len(s) = n
      BY <1>2, ItemsFacts
    <2>2. PICK r \in Seq(CircElement) : r = ItemsOf(c) /\ Len(r) = n - 1
      BY <1>6, <1>13, ItemsFacts
    <2>3. Tail(s) \in Seq(CircElement) /\ Len(Tail(s)) = n - 1 /\ \A i \in 1..(n - 1) : Tail(s)[i] = s[i + 1]
      BY <2>1
    <2>4. \A i \in 1..Len(r) : r[i] = Tail(s)[i]
      BY <1>6, <1>17, <2>1, <2>2, <2>3
    <2> QED
      BY <2>1, <2>2, <2>3, <2>4, SameSeq
  <1> QED
    BY <1>2, <1>6, <1>10, <1>13, <1>14, <1>15, <1>16, <1>17, <1>18

\* The buffer that circBuf_push leaves
Pushed(cb, e) ==
  LET m == MadeRoom(cb)
      head == Following(m.headIndex)
  IN [m EXCEPT !.headIndex = head, !.vector = vectorSetElementAt(@, head, e), !.elementCount = @ + 1]

\* A push puts the element after the head, in a full buffer instead of the oldest.
LEMMA PushGoes ==
  ASSUME NEW cb, GoodCirc(cb), NEW e \in CircElement, \A k \in 1..CircSize : cb.vector.data[k] # e, NEW c, c = Pushed(cb, e)
  PROVE     /\ GoodCirc(c) /\ c.destroyFunc = cb.destroyFunc /\ c.exists = cb.exists 
            /\ MadeRoom(cb).vector = cb.vector /\ MadeRoom(cb).destroyFunc = cb.destroyFunc
            /\ \A k \in 1..CircSize : c.vector.data[k] \in {cb.vector.data[k], e}
            /\ cb.elementCount = CircSize => \A k \in 1..CircSize : c.vector.data[k] # Oldest(cb)
            /\ cb.elementCount = CircSize => Oldest(cb) \in CircElement
            /\ ItemsOf(c) = Append(IF Len(ItemsOf(cb)) = CircSize THEN Tail(ItemsOf(cb)) ELSE ItemsOf(cb), e)
  <1>1. PICK t0 \in 0..(CircSize - 1) : t0 = cb.tailIndex
    BY DEF GoodCirc
  <1>2. PICK n0 \in 0..CircSize : n0 = cb.elementCount
    BY DEF GoodCirc
  <1>3. PICK d \in [1..CircSize -> CircValues] : d = cb.vector.data
    BY DEF GoodCirc, CircVectorShape
  <1>4. CircSize \in Nat /\ CircSize > 1 /\ NullPtr \notin CircElement
    BY CircAssumption
  <1>5. PICK m : m = MadeRoom(cb)
    OBVIOUS
  <1>6. PICK t \in 0..(CircSize - 1) : t = IF n0 = CircSize THEN Following(t0) ELSE t0
    BY SlotFacts
  <1>7. PICK n \in 0..CircSize : n = (IF n0 = CircSize THEN n0 - 1 ELSE n0) /\ n # CircSize
    BY <1>4
  <1>8. m = [vector |-> cb.vector, headIndex |-> cb.headIndex, tailIndex |-> t,
             elementCount |-> n, destroyFunc |-> cb.destroyFunc, exists |-> cb.exists]
    BY <1>1, <1>2, <1>5, <1>6, <1>7 DEF MadeRoom, GoodCirc
  <1>9. /\ m.vector = cb.vector /\ m.headIndex = cb.headIndex /\ m.tailIndex = t /\ m.elementCount = n
        /\ m.destroyFunc = cb.destroyFunc /\ m.exists = cb.exists
    BY <1>8
  <1>10. m.headIndex = CircSlot(t, n)
    <2>1. m.headIndex = CircSlot(t0, n0)
      BY <1>1, <1>2, <1>9 DEF GoodCirc
    <2>2. CASE n0 = CircSize
      <3>1. n \in 0..CircSize /\ n # CircSize /\ n + 1 = n0
        BY <1>4, <1>7, <2>2
      <3>2. CircSlot(Following(t0), n) = CircSlot(t0, n0)
        BY <3>1, SlotFacts
      <3> QED
        BY <1>6, <2>1, <2>2, <3>2
    <2>3. CASE n0 # CircSize
      BY <1>6, <1>7, <2>1, <2>3
    <2> QED
      BY <2>2, <2>3
  <1>11. PICK head \in 0..(CircSize - 1) : head = Following(m.headIndex) /\ head = CircSlot(t, n + 1)
    <2>1. n + 1 \in 0..CircSize
      BY <1>4, <1>7
    <2> QED
      BY <1>7, <1>10, <2>1, SlotFacts
  <1>12. PICK w : w = vectorSetElementAt(cb.vector, head, e) /\ CircVectorShape(w) /\ w.data = [d EXCEPT ![head + 1] = e]
    <2>1. CircVectorShape(cb.vector) /\ e \in CircValues
      BY DEF GoodCirc, CircValues
    <2> QED
      BY <1>3, <1>11, <2>1, SetInVector
  <1>13. c = [m EXCEPT !.headIndex = head, !.vector = vectorSetElementAt(@, head, e), !.elementCount = @ + 1]
    BY <1>5, <1>11 DEF Pushed
  <1>14. c = [vector |-> w, headIndex |-> head, tailIndex |-> t, elementCount |-> n + 1,
              destroyFunc |-> cb.destroyFunc, exists |-> cb.exists]
    BY <1>8, <1>12, <1>13
  <1>15. /\ c.vector = w /\ c.headIndex = head /\ c.tailIndex = t /\ c.elementCount = n + 1
         /\ c.destroyFunc = cb.destroyFunc /\ c.exists = cb.exists
    BY <1>14
  <1>16. head + 1 \in 1..CircSize
    BY <1>4, <1>11
  <1>17. \A k \in 1..CircSize : w.data[k] = IF k = head + 1 THEN e ELSE d[k]
    BY <1>12, <1>16
  <1>18. \A i \in 1..n : /\ w.data[CircSlot(t, i) + 1] = d[CircSlot(t, i) + 1] /\ d[CircSlot(t, i) + 1] \in CircElement
                         /\ d[CircSlot(t, i) + 1] = ItemsOf(cb)[IF n0 = CircSize THEN i + 1 ELSE i]
    <2> SUFFICES ASSUME NEW i \in 1..n
                 PROVE /\ w.data[CircSlot(t, i) + 1] = d[CircSlot(t, i) + 1] /\ d[CircSlot(t, i) + 1] \in CircElement
                       /\ d[CircSlot(t, i) + 1] = ItemsOf(cb)[IF n0 = CircSize THEN i + 1 ELSE i]
      OBVIOUS
    <2>1. i \in 1..CircSize /\ i \in 0..CircSize /\ i # CircSize /\ n + 1 \in 1..CircSize /\ i # n + 1
      BY <1>4, <1>7
    <2>2. PICK a \in 0..(CircSize - 1) : a = CircSlot(t, i)
      BY <2>1, SlotFacts
    <2>3. a # head
      BY <1>11, <2>1, <2>2, SlotFacts
    <2>4. a + 1 \in 1..CircSize /\ a + 1 # head + 1
      BY <1>4, <1>11, <2>3
    <2>5. w.data[a + 1] = d[a + 1]
      BY <1>17, <2>4
    <2>6. PICK j \in 1..n0 : j = (IF n0 = CircSize THEN i + 1 ELSE i) /\ a = CircSlot(t0, j)
      <3>1. CASE n0 = CircSize
        <4>1. i + 1 \in 1..n0
          BY <1>4, <1>7, <3>1
        <4>2. CircSlot(Following(t0), i) = CircSlot(t0, i + 1)
          BY <2>1, SlotFacts
        <4> QED
          BY <1>6, <2>2, <3>1, <4>1, <4>2
      <3>2. CASE n0 # CircSize
        BY <1>6, <1>7, <2>2, <3>2
      <3> QED
        BY <3>1, <3>2
    <2>7. ItemsOf(cb)[j] = d[a + 1] /\ d[a + 1] \in CircElement
      BY <1>1, <1>2, <1>3, <2>6 DEF ItemsOf, GoodCirc
    <2> QED
      BY <2>2, <2>5, <2>6, <2>7
  <1>19. w.data[CircSlot(t, n + 1) + 1] = e
    BY <1>11, <1>16, <1>17
  <1>20. GoodCirc(c)
    <2>1. \A i \in 1..c.elementCount : c.vector.data[CircSlot(c.tailIndex, i) + 1] \in CircElement
      <3>1. \A i \in 1..(n + 1) : i \in 1..n \/ i = n + 1
        BY <1>4
      <3> QED
        BY <1>15, <1>18, <1>19, <3>1
    <2>2. \A j, k \in 1..CircSize : c.vector.data[j] = c.vector.data[k] => j = k \/ c.vector.data[j] = NullPtr
      BY <1>3, <1>15, <1>17 DEF GoodCirc
    <2>3. c.elementCount \in 0..CircSize /\ c.headIndex = CircSlot(c.tailIndex, c.elementCount) /\ c.tailIndex \in 0..(CircSize - 1)
      BY <1>4, <1>7, <1>11, <1>15
    <2> QED
      BY <1>12, <1>14, <1>15, <2>1, <2>2, <2>3 DEF GoodCirc
  <1>21. \A k \in 1..CircSize : c.vector.data[k] \in {cb.vector.data[k], e}
    BY <1>3, <1>15, <1>17
  <1>22. n0 = CircSize => Oldest(cb) \in CircElement /\ \A k \in 1..CircSize : c.vector.data[k] # Oldest(cb)
    <2> SUFFICES ASSUME n0 = CircSize PROVE Oldest(cb) \in CircElement /\ \A k \in 1..CircSize : c.vector.data[k] # Oldest(cb)
      OBVIOUS
    <2>1. head = t0
      <3>1. n + 1 = CircSize /\ 0 \in 0..CircSize
        BY <1>4, <1>7
      <3>2. CircSlot(t, CircSize) = CircSlot(t, 0) /\ CircSlot(Following(t0), 0) = CircSlot(t0, 0 + 1) /\ CircSlot(t0, 1) = t0
        BY <1>4, <3>1, SlotFacts
      <3> QED
        BY <1>6, <1>11, <3>1, <3>2
    <2>2. Oldest(cb) = d[t0 + 1]
      BY <1>1, <1>3 DEF Oldest, vectorGetElementAt
    <2>3. d[t0 + 1] \in CircElement
      <3>1. CircSlot(t0, 1) = t0 /\ 1 \in 1..n0
        BY <1>4, SlotFacts
      <3> QED
        BY <1>1, <1>2, <1>3, <3>1 DEF GoodCirc
    <2>4. \A k \in 1..CircSize : d[k] = d[t0 + 1] => k = t0 + 1
      BY <1>3, <1>4, <1>16, <2>1, <2>3 DEF GoodCirc
    <2>5. e # d[t0 + 1]
      BY <1>3, <1>16, <2>1
    <2> QED
      BY <1>15, <1>17, <2>1, <2>2, <2>3, <2>4, <2>5
  <1>23. ItemsOf(c) = Append(IF Len(ItemsOf(cb)) = CircSize THEN Tail(ItemsOf(cb)) ELSE ItemsOf(cb), e)
    <2>1. PICK s \in Seq(CircElement) : s = ItemsOf(cb) /\ Len(s) = n0
      BY <1>2, ItemsFacts
    <2>2. PICK q \in Seq(CircElement) : q = (IF n0 = CircSize THEN Tail(s) ELSE s) /\ Len(q) = n
      <3>1. CASE n0 = CircSize
        <4>1. Tail(s) \in Seq(CircElement) /\ Len(Tail(s)) = n
          BY <1>4, <1>7, <2>1, <3>1
        <4> QED
          BY <3>1, <4>1
      <3>2. CASE n0 # CircSize
        BY <1>7, <2>1, <3>2
      <3> QED
        BY <3>1, <3>2
    <2>3. \A i \in 1..n : q[i] = s[IF n0 = CircSize THEN i + 1 ELSE i]
      BY <1>4, <1>7, <2>1, <2>2
    <2>4. PICK r \in Seq(CircElement) : /\ r = ItemsOf(c) /\ Len(r) = n + 1
                                        /\ \A i \in 1..(n + 1) : r[i] = w.data[CircSlot(t, i) + 1]
      BY <1>15, <1>20, ItemsFacts
    <2>5. PICK a \in Seq(CircElement) : a = Append(q, e) /\ Len(a) = n + 1 /\ a[n + 1] = e /\ \A i \in 1..n : a[i] = q[i]
      <3>1. Append(q, e) \in Seq(CircElement) /\ Len(Append(q, e)) = n + 1 /\ Append(q, e)[n + 1] = e
        BY <2>2
      <3>2. \A i \in 1..n : Append(q, e)[i] = q[i]
        BY <2>2
      <3> QED
        BY <3>1, <3>2
    <2>6. \A i \in 1..n : r[i] = a[i]
      <3>1. \A i \in 1..n : i \in 1..(n + 1)
        BY <1>4
      <3> QED
        BY <1>18, <2>1, <2>3, <2>4, <2>5, <3>1
    <2>7. r[n + 1] = a[n + 1]
      BY <1>4, <1>19, <2>4, <2>5
    <2>8. \A i \in 1..(n + 1) : i \in 1..n \/ i = n + 1
      BY <1>4
    <2>9. \A i \in 1..Len(r) : r[i] = a[i]
      BY <2>4, <2>6, <2>7, <2>8
    <2>10. r = a
      BY <2>4, <2>5, <2>9, SameSeq
    <2> QED
      BY <2>1, <2>2, <2>4, <2>5, <2>10
  <1> QED
    BY <1>2, <1>5, <1>9, <1>15, <1>20, <1>21, <1>22, <1>23

\* What the definition of Popping says of a function
PopsSo(f, cb) == f = [i \in 0 .. cb.elementCount |-> IF i = 0 THEN cb ELSE WithoutTail(f[i - 1])]

\* Popping satisfies its own definition.
LEMMA PoppingSo == ASSUME NEW cb, \E f : PopsSo(f, cb) PROVE PopsSo(Popping(cb), cb)
  BY DEF PopsSo, Popping

\* What i pops leave: the items after the first i, and the first i in no slot.
PoppedSo(c, cb, i) ==
  /\ GoodCirc(c) /\ c.elementCount = cb.elementCount - i /\ c.destroyFunc = cb.destroyFunc /\ c.exists = cb.exists
  /\ \A k \in 1..CircSize : c.vector.data[k] \in {cb.vector.data[k], NullPtr}
  /\ \A j \in 1..i : \A k \in 1..CircSize : c.vector.data[k] # ItemsOf(cb)[j]
  /\ \A j \in 1..c.elementCount : ItemsOf(c)[j] = ItemsOf(cb)[i + j]

\* One more pop
LEMMA PopsGo ==
  ASSUME NEW cb, GoodCirc(cb), NEW i \in 0..cb.elementCount, i # cb.elementCount, NEW c, PoppedSo(c, cb, i)
  PROVE  PoppedSo(WithoutTail(c), cb, i + 1) /\ Oldest(c) = ItemsOf(cb)[i + 1]
  <1>1. PICK n \in Nat : n = cb.elementCount /\ i \in 0..n /\ i # n
    BY CircAssumption DEF GoodCirc
  <1>2. GoodCirc(c) /\ c.elementCount = n - i /\ c.elementCount > 0 /\ 1 \in 1..c.elementCount
    BY <1>1 DEF PoppedSo
  <1>3. PICK w : w = WithoutTail(c)
    OBVIOUS
  <1>4. /\ GoodCirc(w) /\ w.elementCount = n - (i + 1)
        /\ w.destroyFunc = c.destroyFunc /\ w.exists = c.exists
        /\ \A k \in 1..CircSize : w.vector.data[k] \in {c.vector.data[k], NullPtr}
        /\ \A k \in 1..CircSize : w.vector.data[k] # Oldest(c)
        /\ Oldest(c) = ItemsOf(c)[1]
        /\ \A j \in 1..w.elementCount : ItemsOf(w)[j] = ItemsOf(c)[j + 1]
    <2>1. /\ GoodCirc(w) /\ w.elementCount = c.elementCount - 1
          /\ w.destroyFunc = c.destroyFunc /\ w.exists = c.exists
          /\ \A k \in 1..CircSize : w.vector.data[k] \in {c.vector.data[k], NullPtr}
          /\ \A k \in 1..CircSize : w.vector.data[k] # Oldest(c)
          /\ Oldest(c) = ItemsOf(c)[1]
          /\ \A j \in 1..w.elementCount : ItemsOf(w)[j] = ItemsOf(c)[j + 1]
      <3>1. GoodCirc(c) /\ c.elementCount > 0
        BY <1>2
      <3> QED
        BY <1>3, <3>1, TailGoes
    <2>2. (n - i) - 1 = n - (i + 1)
      BY <1>1
    <2> QED
      BY <1>2, <2>1, <2>2
  <1>5. Oldest(c) = ItemsOf(cb)[i + 1]
    <2>1. \A j \in 1..c.elementCount : ItemsOf(c)[j] = ItemsOf(cb)[i + j]
      BY DEF PoppedSo
    <2>2. ItemsOf(c)[1] = ItemsOf(cb)[i + 1]
      BY <1>2, <2>1
    <2> QED
      BY <1>4, <2>2
  <1>6. \A j \in 1..n : ItemsOf(cb)[j] # NullPtr
    BY <1>1, ItemsFacts, CircAssumption DEF GoodCirc
  <1>7. \A j \in 1..(i + 1) : \A k \in 1..CircSize : w.vector.data[k] # ItemsOf(cb)[j]
    <2> SUFFICES ASSUME NEW j \in 1..(i + 1), NEW k \in 1..CircSize PROVE w.vector.data[k] # ItemsOf(cb)[j]
      OBVIOUS
    <2>1. CASE j = i + 1
      BY <1>4, <1>5, <2>1
    <2>2. CASE j # i + 1
      <3>1. j \in 1..i /\ j \in 1..n
        BY <1>1, <2>2
      <3>2. c.vector.data[k] # ItemsOf(cb)[j] /\ NullPtr # ItemsOf(cb)[j]
        BY <1>6, <3>1 DEF PoppedSo
      <3> QED
        BY <1>4, <3>2
    <2> QED
      BY <2>1, <2>2
  <1>8. \A j \in 1..w.elementCount : ItemsOf(w)[j] = ItemsOf(cb)[(i + 1) + j]
    <2> SUFFICES ASSUME NEW j \in 1..w.elementCount PROVE ItemsOf(w)[j] = ItemsOf(cb)[(i + 1) + j]
      OBVIOUS
    <2>1. j + 1 \in 1..c.elementCount /\ i + (j + 1) = (i + 1) + j
      BY <1>1, <1>2, <1>4
    <2>2. ItemsOf(c)[j + 1] = ItemsOf(cb)[i + (j + 1)]
      BY <2>1 DEF PoppedSo
    <2> QED
      BY <1>4, <2>1, <2>2
  <1>9. \A k \in 1..CircSize : w.vector.data[k] \in {cb.vector.data[k], NullPtr}
    BY <1>4 DEF PoppedSo
  <1>10. w.destroyFunc = cb.destroyFunc /\ w.exists = cb.exists
    BY <1>4 DEF PoppedSo
  <1> QED
    BY <1>1, <1>3, <1>4, <1>5, <1>7, <1>8, <1>9, <1>10 DEF PoppedSo

\* clear takes the items out, oldest first.
LEMMA ClearGoes ==
  ASSUME NEW cb, GoodCirc(cb)
  PROVE  /\ PoppedSo(Popping(cb)[cb.elementCount], cb, cb.elementCount)
         /\ \A i \in 1..cb.elementCount : Oldest(Popping(cb)[i - 1]) = ItemsOf(cb)[i]
  <1>1. PICK n \in Nat : n = cb.elementCount
    BY CircAssumption DEF GoodCirc
  <1>2. PoppedSo(cb, cb, 0)
    BY <1>1 DEF PoppedSo
  <1>3. \E f : PopsSo(f, cb)
    <2> DEFINE P(k) == \E f : DOMAIN f = 0..k /\ f[0] = cb /\ \A i \in 1..k : f[i] = WithoutTail(f[i - 1])
               T == {k \in 0..n : P(k)}
    <2>1. 0 \in T
      <3>1. PICK f : f = [i \in 0..0 |-> cb]
        OBVIOUS
      <3>2. DOMAIN f = 0..0 /\ f[0] = cb /\ \A i \in 1..0 : f[i] = WithoutTail(f[i - 1])
        BY <3>1
      <3> QED
        BY <3>2
    <2>2. ASSUME NEW k \in 0..n, k # n, k \in T PROVE k + 1 \in T
      <3>1. PICK f : DOMAIN f = 0..k /\ f[0] = cb /\ \A i \in 1..k : f[i] = WithoutTail(f[i - 1])
        BY <2>2
      <3>2. PICK h : h = [i \in 0..(k + 1) |-> IF i = k + 1 THEN WithoutTail(f[k]) ELSE f[i]]
        OBVIOUS
      <3>3. DOMAIN h = 0..(k + 1) /\ h[k + 1] = WithoutTail(f[k]) /\ \A i \in 0..k : h[i] = f[i]
        BY <3>2
      <3>4. \A i \in 1..k : i \in 0..k /\ i - 1 \in 0..k
        OBVIOUS
      <3>5. \A i \in 1..k : h[i] = WithoutTail(h[i - 1])
        BY <3>1, <3>3, <3>4
      <3>6. h[k + 1] = WithoutTail(h[(k + 1) - 1])
        <4>1. (k + 1) - 1 = k /\ k \in 0..k
          OBVIOUS
        <4> QED
          BY <3>3, <4>1
      <3>7. \A i \in 1..(k + 1) : i \in 1..k \/ i = k + 1
        OBVIOUS
      <3>8. \A i \in 1..(k + 1) : h[i] = WithoutTail(h[i - 1])
        BY <3>5, <3>6, <3>7
      <3>9. h[0] = cb
        BY <3>1, <3>3
      <3>10. P(k + 1)
        BY <3>3, <3>8, <3>9
      <3>11. k + 1 \in 0..n
        BY <2>2
      <3> QED
        BY <3>10, <3>11
    <2>3. n \in T
      <3> HIDE DEF T
      <3>1. n \in 0..n
        OBVIOUS
      <3> QED
        BY <2>1, <2>2, <3>1, Climb
    <2>4. PICK f : DOMAIN f = 0..n /\ f[0] = cb /\ \A i \in 1..n : f[i] = WithoutTail(f[i - 1])
      BY <2>3
    <2>5. PICK h : h = [i \in 0..n |-> f[i]]
      OBVIOUS
    <2>6. DOMAIN h = 0..n /\ \A i \in 0..n : h[i] = f[i]
      BY <2>5
    <2>7. \A i \in 0..n : h[i] = IF i = 0 THEN cb ELSE WithoutTail(h[i - 1])
      <3>1. \A i \in 0..n : i = 0 \/ (i \in 1..n /\ i - 1 \in 0..n)
        OBVIOUS
      <3> QED
        BY <2>4, <2>6, <3>1
    <2>8. h = [i \in 0..n |-> IF i = 0 THEN cb ELSE WithoutTail(h[i - 1])]
      BY <2>5, <2>7
    <2> QED
      BY <1>1, <2>8 DEF PopsSo
  <1>4. PICK f : f = Popping(cb) /\ PopsSo(f, cb)
    BY <1>3, PoppingSo
  <1>5. f[0] = cb /\ \A i \in 1..n : f[i] = WithoutTail(f[i - 1])
    BY <1>1, <1>4 DEF PopsSo
  <1> DEFINE T == {i \in 0..n : PoppedSo(f[i], cb, i)}
  <1>6. 0 \in T
    BY <1>2, <1>5
  <1>7. ASSUME NEW k \in 0..n, k # n, k \in T PROVE k + 1 \in T
    <2>1. k + 1 \in 1..n /\ (k + 1) - 1 = k
      BY <1>7
    <2>2. f[k + 1] = WithoutTail(f[k])
      BY <1>5, <2>1
    <2>3. PoppedSo(WithoutTail(f[k]), cb, k + 1)
      BY <1>1, <1>7, PopsGo
    <2> QED
      BY <2>1, <2>2, <2>3
  <1>8. \A k \in 0..n : k \in T
    <2> HIDE DEF T
    <2> QED
      BY <1>6, <1>7, Climb
  <1>9. \A i \in 1..n : Oldest(f[i - 1]) = ItemsOf(cb)[i]
    <2> SUFFICES ASSUME NEW i \in 1..n PROVE Oldest(f[i - 1]) = ItemsOf(cb)[i]
      OBVIOUS
    <2>1. PICK j \in 0..n : j = i - 1 /\ j # n /\ j + 1 = i
      OBVIOUS
    <2>2. PoppedSo(f[j], cb, j)
      BY <1>8
    <2>3. Oldest(f[j]) = ItemsOf(cb)[j + 1]
      BY <1>1, <2>1, <2>2, PopsGo
    <2> QED
      BY <2>1, <2>3
  <1>10. PoppedSo(f[n], cb, n)
    BY <1>8
  <1> QED
    BY <1>1, <1>4, <1>9, <1>10

\* What the definition of WalkFrom says of a function
WalksSo(f, head) == f = [i \in 1 .. CircSize |-> IF i = 1 THEN head ELSE Following(f[i - 1])]

\* WalkFrom satisfies its own definition.
LEMMA WalkSo == ASSUME NEW head, \E f : WalksSo(f, head) PROVE WalksSo(WalkFrom(head), head)
  BY DEF WalksSo, WalkFrom

\* The walk of destroy goes over the slots, each once.
LEMMA WalkIs ==
  ASSUME NEW head \in 0..(CircSize - 1)
  PROVE  \A i \in 1..CircSize : WalkFrom(head)[i] = CircSlot(head, i)
  <1>1. CircSize \in Nat /\ CircSize > 1
    BY CircAssumption
  <1>2. PICK f : f = [i \in 1..CircSize |-> CircSlot(head, i)]
    OBVIOUS
  <1>3. \A i \in 1..CircSize : i = 1 \/ (i - 1 \in 1..CircSize /\ i - 1 \in 0..CircSize /\ i - 1 # CircSize /\ (i - 1) + 1 = i)
    BY <1>1
  <1>4. \A i \in 1..CircSize : i # 1 => CircSlot(head, i) = Following(CircSlot(head, i - 1))
    BY <1>3, SlotFacts
  <1>5. WalksSo(f, head)
    <2>1. \A i \in 1..CircSize : CircSlot(head, i) = IF i = 1 THEN head ELSE Following(f[i - 1])
      BY <1>2, <1>3, <1>4, SlotFacts
    <2> QED
      BY <1>2, <2>1 DEF WalksSo
  <1>6. PICK h : h = WalkFrom(head) /\ WalksSo(h, head)
    BY <1>5, WalkSo
  <1>7. \A i \in 1..CircSize : h[i] = IF i = 1 THEN head ELSE Following(h[i - 1])
    BY <1>6 DEF WalksSo
  <1>8. PICK n \in Nat : n = CircSize - 1
    BY <1>1
  <1> DEFINE T == {i \in 0..n : h[i + 1] = CircSlot(head, i + 1)}
  <1>9. 0 \in T
    BY <1>1, <1>7, SlotFacts
  <1>10. ASSUME NEW k \in 0..n, k # n, k \in T PROVE k + 1 \in T
    <2>1. (k + 1) + 1 \in 1..CircSize /\ (k + 1) + 1 # 1 /\ ((k + 1) + 1) - 1 = k + 1 /\ k + 1 \in 0..n
      BY <1>1, <1>8, <1>10
    <2>2. h[(k + 1) + 1] = Following(h[k + 1])
      BY <1>7, <2>1
    <2>3. CircSlot(head, (k + 1) + 1) = Following(CircSlot(head, k + 1))
      BY <1>4, <2>1
    <2> QED
      BY <1>10, <2>1, <2>2, <2>3
  <1>11. \A k \in 0..n : k \in T
    <2> HIDE DEF T
    <2> QED
      BY <1>9, <1>10, Climb
  <1>12. \A i \in 1..CircSize : i - 1 \in 0..n /\ (i - 1) + 1 = i
    BY <1>1, <1>8
  <1> QED
    BY <1>6, <1>11, <1>12

-----------------------------------------------------------------------------
(* Circular buffer: the invariant *)

Apart(f, x) == \A i \in 1..Len(f) : f[i] # x

\* Nothing but NULL is freed twice.
FreedOnce(f) == f \in Seq(CircValues) /\ \A i, j \in 1..Len(f) : f[i] = f[j] => i = j \/ f[i] = NullPtr

\* What is in a slot was neither freed nor popped.
CircInv ==
  /\ GoodCirc(circBuf) /\ FreedOnce(circFreed) /\ circPopped \subseteq CircElement
  /\ \A x \in circPopped : Apart(circFreed, x)
  /\ circBuf.exists => Apart(circFreed, NullPtr)
  /\ circBuf.exists => \A k \in 1..CircSize : circBuf.vector.data[k] # NullPtr =>
       Apart(circFreed, circBuf.vector.data[k]) /\ circBuf.vector.data[k] \notin circPopped

\* More is freed, which was not freed before.
LEMMA FreedMore ==
  ASSUME NEW f, FreedOnce(f), NEW more, FreedOnce(more), \A j \in 1..Len(more) : more[j] = NullPtr \/ Apart(f, more[j])
  PROVE  FreedOnce(f \o more) /\ \A x : Apart(f \o more, x) <=> Apart(f, x) /\ Apart(more, x)
  <1>1. f \in Seq(CircValues) /\ more \in Seq(CircValues)
    BY DEF FreedOnce
  <1>2. PICK r \in Seq(CircValues) : /\ r = f \o more /\ Len(r) = Len(f) + Len(more)
                                     /\ \A i \in 1..Len(f) : r[i] = f[i]
                                     /\ \A i \in 1..Len(more) : r[Len(f) + i] = more[i]
    <2>1. f \o more \in Seq(CircValues) /\ Len(f \o more) = Len(f) + Len(more)
      BY <1>1
    <2>2. \A i \in 1..Len(f) : (f \o more)[i] = f[i]
      BY <1>1
    <2>3. \A i \in 1..Len(more) : (f \o more)[Len(f) + i] = more[i]
      BY <1>1
    <2> QED
      BY <2>1, <2>2, <2>3
  <1>3. PICK p \in Nat : p = Len(f)
    BY <1>1
  <1>4. PICK q \in Nat : q = Len(more)
    BY <1>1
  <1>5. \A i \in 1..(p + q) : i \in 1..p \/ (i - p \in 1..q /\ p + (i - p) = i)
    OBVIOUS
  <1>6. (\A i \in 1..p : i \in 1..(p + q)) /\ (\A i \in 1..q : p + i \in 1..(p + q))
    OBVIOUS
  <1>7. \A i \in 1..(p + q) : (i \in 1..p /\ r[i] = f[i]) \/ (i - p \in 1..q /\ r[i] = more[i - p])
    BY <1>2, <1>3, <1>4, <1>5
  <1>8. ASSUME NEW x PROVE Apart(r, x) <=> Apart(f, x) /\ Apart(more, x)
    <2>1. Apart(f, x) /\ Apart(more, x) => Apart(r, x)
      BY <1>2, <1>3, <1>4, <1>7 DEF Apart
    <2>2. Apart(r, x) => Apart(f, x)
      BY <1>2, <1>3, <1>4, <1>6 DEF Apart
    <2>3. Apart(r, x) => Apart(more, x)
      BY <1>2, <1>3, <1>4, <1>6 DEF Apart
    <2> QED
      BY <2>1, <2>2, <2>3
  <1>9. ASSUME NEW i \in 1..(p + q), NEW j \in 1..(p + q), r[i] = r[j] PROVE i = j \/ r[i] = NullPtr
    <2>1. CASE i \in 1..p /\ j \in 1..p
      BY <1>2, <1>3, <1>9, <2>1 DEF FreedOnce
    <2>2. CASE i \in 1..p /\ j \notin 1..p
      <3>1. j - p \in 1..q /\ r[j] = more[j - p] /\ r[i] = f[i]
        BY <1>7, <2>2, <1>2, <1>3
      <3> QED
        BY <1>3, <1>4, <1>9, <2>2, <3>1 DEF Apart
    <2>3. CASE i \notin 1..p /\ j \in 1..p
      <3>1. i - p \in 1..q /\ r[i] = more[i - p] /\ r[j] = f[j]
        BY <1>7, <2>3, <1>2, <1>3
      <3> QED
        BY <1>3, <1>4, <1>9, <2>3, <3>1 DEF Apart
    <2>4. CASE i \notin 1..p /\ j \notin 1..p
      <3>1. i - p \in 1..q /\ r[i] = more[i - p] /\ j - p \in 1..q /\ r[j] = more[j - p]
        BY <1>7, <2>4
      <3>2. i - p = j - p \/ r[i] = NullPtr
        BY <1>4, <1>9, <3>1 DEF FreedOnce
      <3> QED
        BY <3>2
    <2> QED
      BY <2>1, <2>2, <2>3, <2>4
  <1>10. FreedOnce(r)
    BY <1>2, <1>3, <1>4, <1>9 DEF FreedOnce
  <1> QED
    BY <1>2, <1>8, <1>10

\* The invariant holds of a new buffer, which has no items.
LEMMA CircInitInv == CircInit => CircInv /\ CircItems = << >>
  <1> SUFFICES ASSUME CircInit PROVE CircInv /\ CircItems = << >>
    OBVIOUS
  <1>1. PICK destroyFunc \in BOOLEAN :
       circBuf = [vector |-> [vectorCreate(CircSize, 1) EXCEPT
                                !.data = [i \in 1 .. CircSize |-> NullPtr]],
                  headIndex |-> 0, tailIndex |-> 1, elementCount |-> 0,
                  destroyFunc |-> destroyFunc, exists |-> TRUE]
    BY DEF CircInit
  <1>2. PICK v : v = [capacity |-> CircSize, capacityIncrement |-> 1, data |-> [i \in 1..CircSize |-> NullPtr], refCount |-> 1]
    OBVIOUS
  <1>3. circBuf = [vector |-> v, headIndex |-> 0, tailIndex |-> 1, elementCount |-> 0,
                   destroyFunc |-> destroyFunc, exists |-> TRUE]
    BY <1>1, <1>2 DEF vectorCreate
  <1>4. CircVectorShape(v) /\ \A k \in 1..CircSize : v.data[k] = NullPtr
    BY <1>2 DEF CircVectorShape, CircValues
  <1>5. CircSize \in Nat /\ CircSize > 1
    BY CircAssumption
  <1>6. /\ circBuf.vector = v /\ circBuf.headIndex = 0 /\ circBuf.tailIndex = 1 /\ circBuf.elementCount = 0
        /\ circBuf.destroyFunc = destroyFunc /\ circBuf.exists = TRUE
    BY <1>3
  <1>7. CircSlot(1, 0) = 0 /\ 1 \in 0..(CircSize - 1) /\ 0 \in 0..CircSize
    BY <1>5 DEF CircSlot
  <1>8. GoodCirc(circBuf)
    BY <1>3, <1>4, <1>6, <1>7 DEF GoodCirc
  <1>9. circFreed = << >> /\ circPopped = {} /\ Len(circFreed) = 0
    BY DEF CircInit
  <1>10. circFreed \in Seq(CircValues)
    BY <1>9, EmptySeq
  <1>11. FreedOnce(circFreed) /\ \A x : Apart(circFreed, x)
    BY <1>9, <1>10 DEF FreedOnce, Apart
  <1>12. CircItems = << >>
    BY <1>6 DEF CircItems
  <1> QED
    BY <1>8, <1>9, <1>11, <1>12 DEF CircInv

\* A push keeps the invariant, and is a push of the abstract buffer.
LEMMA CircPushStep ==
  ASSUME CircInv, NEW e \in CircElement, circBuf_push(e)
  PROVE  CircInv' /\ ItemsOf(circBuf') = Append(IF Len(ItemsOf(circBuf)) = CircSize THEN Tail(ItemsOf(circBuf)) ELSE ItemsOf(circBuf), e)
  <1>1. PICK cb : cb = circBuf /\ GoodCirc(cb)
    BY DEF CircInv
  <1>2. PICK c : c = circBuf'
    OBVIOUS
  <1>3. PICK d \in [1..CircSize -> CircValues] : d = cb.vector.data
    BY <1>1 DEF GoodCirc, CircVectorShape
  <1>4. PICK f : f = circFreed /\ FreedOnce(f) /\ f \in Seq(CircValues)
    BY DEF CircInv, FreedOnce
  <1>5. Apart(f, e) /\ \A k \in 1..CircSize : d[k] # e
    <2>1. e \notin Range(d) /\ e \notin Range(f)
      BY <1>1, <1>3, <1>4 DEF circBuf_push
    <2>2. DOMAIN d = 1..CircSize /\ DOMAIN f = 1..Len(f)
      BY <1>4
    <2> QED
      BY <2>1, <2>2 DEF Range, Apart
  <1>6. PICK m : m = MadeRoom(cb)
    OBVIOUS
  <1>8. c = Pushed(cb, e)
    BY <1>1, <1>2 DEF circBuf_push, Pushed
  <1>9. /\ GoodCirc(c) /\ c.destroyFunc = cb.destroyFunc /\ c.exists = cb.exists /\ m.vector = cb.vector /\ m.destroyFunc = cb.destroyFunc
        /\ \A k \in 1..CircSize : c.vector.data[k] \in {cb.vector.data[k], e}
        /\ cb.elementCount = CircSize => \A k \in 1..CircSize : c.vector.data[k] # Oldest(cb)
        /\ cb.elementCount = CircSize => Oldest(cb) \in CircElement
        /\ ItemsOf(c) = Append(IF Len(ItemsOf(cb)) = CircSize THEN Tail(ItemsOf(cb)) ELSE ItemsOf(cb), e)
    BY <1>1, <1>3, <1>5, <1>6, <1>8, PushGoes
  <1>10. circFreed' = IF cb.elementCount = CircSize /\ cb.destroyFunc THEN Append(f, Oldest(cb)) ELSE f
    BY <1>1, <1>4, <1>6, <1>9 DEF circBuf_push, Oldest
  <1>11. PICK o : o = Oldest(cb)
    OBVIOUS
  <1>12. circPopped' = circPopped \ {e} /\ cb.exists
    BY <1>1 DEF circBuf_push
  <1>13. \E k \in 1..CircSize : cb.elementCount = CircSize => o = d[k]
    <2>1. PICK t \in 0..(CircSize - 1) : t = cb.tailIndex
      BY <1>1 DEF GoodCirc
    <2>2. t + 1 \in 1..CircSize
      BY CircAssumption
    <2> QED
      BY <1>3, <1>11, <2>1, <2>2 DEF Oldest, vectorGetElementAt
  <1>14. \A k \in 1..CircSize : d[k] # NullPtr => Apart(f, d[k]) /\ d[k] \notin circPopped
    BY <1>1, <1>3, <1>4, <1>12 DEF CircInv
  <1>15. CASE cb.elementCount = CircSize /\ cb.destroyFunc
    <2>1. o \in CircElement /\ o # NullPtr /\ o \in CircValues
      BY <1>9, <1>11, <1>15, CircAssumption DEF CircValues
    <2>2. Apart(f, o) /\ o \notin circPopped
      BY <1>13, <1>14, <1>15, <2>1
    <2>3. PICK more : more = <<o>>
      OBVIOUS
    <2>4. FreedOnce(more) /\ Len(more) = 1 /\ more[1] = o /\ more \in Seq(CircValues)
      BY <2>1, <2>3 DEF FreedOnce
    <2>5. \A x : Apart(more, x) <=> x # o
      BY <2>4 DEF Apart
    <2>6. \A j \in 1..Len(more) : more[j] = NullPtr \/ Apart(f, more[j])
      BY <2>2, <2>4
    <2>7. FreedOnce(f \o more) /\ \A x : Apart(f \o more, x) <=> Apart(f, x) /\ Apart(more, x)
      BY <1>4, <2>4, <2>6, FreedMore
    <2>8. PICK r : r = circFreed' /\ r = f \o more
      <3>1. Append(f, o) = f \o <<o>>
        BY <1>4, <2>1
      <3> QED
        BY <1>10, <1>11, <1>15, <2>3, <3>1
    <2>9. FreedOnce(r) /\ \A x : Apart(r, x) <=> Apart(f, x) /\ x # o
      BY <2>5, <2>7, <2>8
    <2>10. \A x \in circPopped' : Apart(r, x)
      BY <1>4, <1>12, <2>2, <2>9 DEF CircInv
    <2>11. Apart(r, NullPtr)
      BY <1>1, <1>4, <1>12, <2>1, <2>9 DEF CircInv
    <2>12. \A k \in 1..CircSize : c.vector.data[k] # NullPtr => Apart(r, c.vector.data[k]) /\ c.vector.data[k] \notin circPopped'
      BY <1>3, <1>5, <1>9, <1>11, <1>12, <1>14, <1>15, <2>9
    <2>13. circPopped' \subseteq CircElement
      BY <1>12 DEF CircInv
    <2> QED
      BY <1>1, <1>2, <1>9, <2>8, <2>9, <2>10, <2>11, <2>12, <2>13 DEF CircInv
  <1>16. CASE ~(cb.elementCount = CircSize /\ cb.destroyFunc)
    <2>1. circFreed' = f
      BY <1>10, <1>16
    <2>2. \A x \in circPopped' : Apart(f, x)
      BY <1>4, <1>12 DEF CircInv
    <2>3. Apart(f, NullPtr)
      BY <1>1, <1>4, <1>12 DEF CircInv
    <2>4. \A k \in 1..CircSize : c.vector.data[k] # NullPtr => Apart(f, c.vector.data[k]) /\ c.vector.data[k] \notin circPopped'
      BY <1>3, <1>5, <1>9, <1>12, <1>14
    <2>5. circPopped' \subseteq CircElement
      BY <1>12 DEF CircInv
    <2> QED
      BY <1>1, <1>2, <1>4, <1>9, <2>1, <2>2, <2>3, <2>4, <2>5 DEF CircInv
  <1> QED
    BY <1>15, <1>16

\* popTail keeps the invariant, and pops the abstract buffer.
LEMMA CircPopStep ==
  ASSUME CircInv, circBuf_popTail
  PROVE  CircInv' /\ ItemsOf(circBuf') = Tail(ItemsOf(circBuf)) /\ ItemsOf(circBuf) # << >>
  <1>1. PICK cb : cb = circBuf /\ GoodCirc(cb) /\ cb.elementCount > 0 /\ cb.exists
    BY DEF CircInv, circBuf_popTail
  <1>2. PICK c : c = circBuf' /\ c = WithoutTail(cb)
    BY <1>1 DEF circBuf_popTail
  <1>3. /\ GoodCirc(c) /\ c.exists = cb.exists
        /\ \A k \in 1..CircSize : c.vector.data[k] \in {cb.vector.data[k], NullPtr}
        /\ \A k \in 1..CircSize : c.vector.data[k] # Oldest(cb)
        /\ Oldest(cb) \in CircElement /\ ItemsOf(c) = Tail(ItemsOf(cb))
    BY <1>1, <1>2, TailGoes
  <1>4. circPopped' = circPopped \cup {Oldest(cb)} /\ circFreed' = circFreed
    BY <1>1 DEF circBuf_popTail
  <1>5. Apart(circFreed, Oldest(cb))
    <2>1. PICK t \in 0..(CircSize - 1) : t = cb.tailIndex
      BY <1>1 DEF GoodCirc
    <2>2. t + 1 \in 1..CircSize /\ Oldest(cb) # NullPtr
      BY <1>3, CircAssumption
    <2> QED
      BY <1>1, <2>1, <2>2 DEF CircInv, Oldest, vectorGetElementAt
  <1>6. ItemsOf(cb) # << >>
    <2>1. ItemsOf(cb) \in Seq(CircElement) /\ Len(ItemsOf(cb)) = cb.elementCount /\ cb.elementCount # 0
      BY <1>1, ItemsFacts
    <2> QED
      BY <2>1
  <1>7. \A k \in 1..CircSize : c.vector.data[k] # NullPtr => Apart(circFreed, c.vector.data[k]) /\ c.vector.data[k] \notin circPopped'
    BY <1>1, <1>3, <1>4 DEF CircInv
  <1>8. circPopped' \subseteq CircElement /\ \A x \in circPopped' : Apart(circFreed, x)
    BY <1>3, <1>4, <1>5 DEF CircInv
  <1> QED
    BY <1>1, <1>2, <1>3, <1>4, <1>6, <1>7, <1>8 DEF CircInv

\* clear keeps the invariant: it frees the items, and leaves none.
LEMMA CircClearStep ==
  ASSUME CircInv, circBuf_clear
  PROVE  CircInv' /\ ItemsOf(circBuf') = << >>
  <1>1. PICK cb : cb = circBuf /\ GoodCirc(cb) /\ cb.exists
    BY DEF CircInv, circBuf_clear
  <1>2. PICK n \in Nat : n = cb.elementCount
    BY <1>1, CircAssumption DEF GoodCirc
  <1>3. PICK c : c = circBuf' /\ PoppedSo(c, cb, n)
    BY <1>1, <1>2, ClearGoes DEF circBuf_clear
  <1>4. PICK more : more = ItemsOf(cb) /\ more \in Seq(CircElement) /\ Len(more) = n /\ \A i, j \in 1..n : more[i] = more[j] => i = j
    BY <1>1, <1>2, ItemsFacts
  <1>5. PICK f : f = circFreed /\ FreedOnce(f)
    BY DEF CircInv
  <1>6. circFreed' = f \o more
    <2>1. \A i \in 1..n : Oldest(Popping(cb)[i - 1]) = more[i]
      BY <1>1, <1>2, <1>4, ClearGoes
    <2>2. more = [i \in 1..n |-> more[i]]
      BY <1>4
    <2>3. [i \in 1..n |-> Oldest(Popping(cb)[i - 1])] = more
      BY <2>1, <2>2
    <2> QED
      BY <1>1, <1>2, <1>5, <2>3 DEF circBuf_clear
  <1>7. \A j \in 1..n : more[j] \in CircElement /\ more[j] # NullPtr /\ \E k \in 1..CircSize : more[j] = cb.vector.data[k]
    <2> SUFFICES ASSUME NEW j \in 1..n PROVE more[j] \in CircElement /\ more[j] # NullPtr /\ \E k \in 1..CircSize : more[j] = cb.vector.data[k]
      OBVIOUS
    <2>1. j \in 0..CircSize /\ CircSize \in Nat
      BY <1>1, <1>2, CircAssumption DEF GoodCirc
    <2>2. PICK t \in 0..(CircSize - 1) : t = cb.tailIndex
      BY <1>1 DEF GoodCirc
    <2>3. PICK a \in 0..(CircSize - 1) : a = CircSlot(t, j)
      BY <2>1, SlotFacts
    <2>4. a + 1 \in 1..CircSize /\ more[j] = cb.vector.data[a + 1]
      <3>1. more[j] = cb.vector.data[CircSlot(t, j) + 1]
        BY <1>1, <1>2, <1>4, <2>2, ItemsFacts
      <3> QED
        BY <2>1, <2>3, <3>1
    <2>5. more[j] \in CircElement
      BY <1>4
    <2> QED
      BY <2>4, <2>5, CircAssumption
  <1>8. \A j \in 1..n : Apart(f, more[j]) /\ more[j] \notin circPopped
    BY <1>1, <1>5, <1>7 DEF CircInv
  <1>9. FreedOnce(more)
    <2>1. more \in Seq(CircValues)
      <3>1. \A i \in 1..n : more[i] \in CircValues
        BY <1>4, <1>7 DEF CircValues
      <3> QED
        BY <1>4, <3>1
    <2> QED
      BY <1>4, <2>1 DEF FreedOnce
  <1>10. PICK r : r = circFreed' /\ FreedOnce(r) /\ \A x : Apart(r, x) <=> Apart(f, x) /\ Apart(more, x)
    BY <1>4, <1>5, <1>6, <1>8, <1>9, FreedMore
  <1>11. circPopped' = circPopped
    BY DEF circBuf_clear
  <1>12. \A x \in circPopped : Apart(r, x)
    <2>1. \A x \in circPopped : Apart(f, x)
      BY <1>5 DEF CircInv
    <2>2. \A x \in circPopped : Apart(more, x)
      BY <1>4, <1>8 DEF Apart
    <2> QED
      BY <1>10, <2>1, <2>2
  <1>13. Apart(r, NullPtr)
    <2>1. Apart(f, NullPtr)
      BY <1>1, <1>5 DEF CircInv
    <2>2. Apart(more, NullPtr)
      BY <1>4, <1>7 DEF Apart
    <2> QED
      BY <1>10, <2>1, <2>2
  <1>14. \A k \in 1..CircSize : c.vector.data[k] # NullPtr => Apart(r, c.vector.data[k]) /\ c.vector.data[k] \notin circPopped
    <2> SUFFICES ASSUME NEW k \in 1..CircSize, c.vector.data[k] # NullPtr PROVE Apart(r, c.vector.data[k]) /\ c.vector.data[k] \notin circPopped
      OBVIOUS
    <2>1. c.vector.data[k] = cb.vector.data[k]
      BY <1>3 DEF PoppedSo
    <2>2. Apart(f, c.vector.data[k]) /\ c.vector.data[k] \notin circPopped
      BY <1>1, <1>5, <2>1 DEF CircInv
    <2>3. Apart(more, c.vector.data[k])
      BY <1>3, <1>4 DEF PoppedSo, Apart
    <2> QED
      BY <1>10, <2>2, <2>3
  <1>15. GoodCirc(c) /\ c.exists /\ c.elementCount = 0
    BY <1>1, <1>2, <1>3 DEF PoppedSo
  <1>16. ItemsOf(c) = << >>
    BY <1>15 DEF ItemsOf
  <1> QED
    BY <1>3, <1>10, <1>11, <1>12, <1>13, <1>14, <1>15, <1>16 DEF CircInv

\* destroy keeps the invariant: its walk meets each slot at most once.
LEMMA CircDestroyStep ==
  ASSUME CircInv, circBuf_destroy
  PROVE  CircInv' /\ ItemsOf(circBuf') = ItemsOf(circBuf)
  <1>1. PICK cb : cb = circBuf /\ GoodCirc(cb) /\ cb.exists
    BY DEF CircInv, circBuf_destroy
  <1>2. PICK n \in Nat : n = cb.elementCount /\ n <= CircSize /\ CircSize \in Nat
    BY <1>1, CircAssumption DEF GoodCirc
  <1>3. PICK c : c = circBuf' /\ c = [cb EXCEPT !.exists = FALSE]
    BY <1>1 DEF circBuf_destroy
  <1>4. /\ GoodCirc(c) /\ c.exists = FALSE /\ c.vector = cb.vector /\ c.tailIndex = cb.tailIndex /\ c.elementCount = cb.elementCount
    <2>1. c = [vector |-> cb.vector, headIndex |-> cb.headIndex, tailIndex |-> cb.tailIndex,
               elementCount |-> cb.elementCount, destroyFunc |-> cb.destroyFunc, exists |-> FALSE]
      BY <1>1, <1>3 DEF GoodCirc
    <2> QED
      BY <1>1, <2>1 DEF GoodCirc
  <1>5. PICK head \in 0..(CircSize - 1) : head = cb.headIndex
    <2>1. PICK t \in 0..(CircSize - 1) : t = cb.tailIndex
      BY <1>1 DEF GoodCirc
    <2>2. n \in 0..CircSize
      BY <1>2
    <2> QED
      BY <1>1, <1>2, <2>1, <2>2, SlotFacts DEF GoodCirc
  <1>6. PICK d \in [1..CircSize -> CircValues] : d = cb.vector.data
    BY <1>1 DEF GoodCirc, CircVectorShape
  <1>7. PICK more : more = [i \in 1..n |-> d[CircSlot(head, i) + 1]]
    OBVIOUS
  <1>8. \A i \in 1..n : i \in 1..CircSize /\ i \in 0..CircSize /\ CircSlot(head, i) + 1 \in 1..CircSize
    <2>1. \A i \in 1..n : i \in 1..CircSize /\ i \in 0..CircSize
      BY <1>2
    <2>2. \A i \in 1..n : CircSlot(head, i) \in 0..(CircSize - 1)
      BY <2>1, SlotFacts
    <2>3. \A a \in 0..(CircSize - 1) : a + 1 \in 1..CircSize
      BY <1>2
    <2> QED
      BY <2>1, <2>2, <2>3
  <1>9. more \in Seq(CircValues) /\ Len(more) = n /\ \A i \in 1..n : more[i] = d[CircSlot(head, i) + 1]
    <2>1. more \in [1..n -> CircValues]
      BY <1>7, <1>8
    <2> QED
      BY <1>7, <2>1
  <1>10. \A i, j \in 1..n : more[i] = more[j] => i = j \/ more[i] = NullPtr
    <2> SUFFICES ASSUME NEW i \in 1..n, NEW j \in 1..n, more[i] = more[j], more[i] # NullPtr PROVE i = j
      OBVIOUS
    <2>1. PICK a \in 0..(CircSize - 1) : a = CircSlot(head, i)
      BY <1>8, SlotFacts
    <2>2. PICK b \in 0..(CircSize - 1) : b = CircSlot(head, j)
      BY <1>8, SlotFacts
    <2>3. a + 1 \in 1..CircSize /\ b + 1 \in 1..CircSize
      BY <1>2
    <2>4. a + 1 = b + 1
      BY <1>1, <1>6, <1>9, <2>1, <2>2, <2>3 DEF GoodCirc
    <2>5. a = b
      BY <2>4
    <2> QED
      <3>1. CircSlot(head, i) = CircSlot(head, j)
        BY <2>1, <2>2, <2>5
      <3> QED
        BY <1>8, <3>1, SlotFacts
  <1>11. FreedOnce(more)
    BY <1>9, <1>10 DEF FreedOnce
  <1>12. PICK f : f = circFreed /\ FreedOnce(f)
    BY DEF CircInv
  <1>13. circFreed' = IF cb.destroyFunc THEN f \o more ELSE f
    <2>1. \A i \in 1..n : WalkFrom(head)[i] = CircSlot(head, i)
      BY <1>8, WalkIs
    <2>2. [i \in 1..n |-> vectorGetElementAt(cb.vector, WalkFrom(head)[i])] = more
      BY <1>6, <1>7, <2>1 DEF vectorGetElementAt
    <2> QED
      BY <1>1, <1>2, <1>5, <1>12, <2>2 DEF circBuf_destroy
  <1>14. \A j \in 1..n : more[j] # NullPtr => Apart(f, more[j]) /\ more[j] \notin circPopped
    BY <1>1, <1>6, <1>8, <1>9, <1>12 DEF CircInv
  <1>15. FreedOnce(f \o more) /\ \A x : Apart(f \o more, x) <=> Apart(f, x) /\ Apart(more, x)
    BY <1>9, <1>11, <1>12, <1>14, FreedMore
  <1>16. circPopped' = circPopped
    BY DEF circBuf_destroy
  <1>17. \A x \in circPopped : Apart(f, x) /\ Apart(more, x) /\ x # NullPtr
    <2>1. \A x \in circPopped : x # NullPtr /\ Apart(f, x)
      BY <1>12, CircAssumption DEF CircInv
    <2> QED
      BY <1>9, <1>14, <2>1 DEF Apart
  <1>18. PICK r : r = circFreed' /\ FreedOnce(r) /\ \A x \in circPopped : Apart(r, x)
    BY <1>12, <1>13, <1>15, <1>17
  <1>19. ItemsOf(c) = ItemsOf(cb)
    BY <1>4 DEF ItemsOf
  <1> QED
    BY <1>1, <1>3, <1>4, <1>16, <1>18, <1>19 DEF CircInv

-----------------------------------------------------------------------------
(* Circular buffer: where every element pushed has gone *)

HoldsItem(s, x) == \E i \in 1..Len(s) : s[i] = x

\* Each element pushed is held, destroyed or given back, and NULL was not destroyed.
CircAccount ==
  circBuf.exists \/ WalkMeetsAll =>
    /\ Apart(circFreed, NullPtr)
    /\ circBuf.destroyFunc => \A x \in circPushed : \/ circBuf.exists /\ HoldsItem(ItemsOf(circBuf), x)
                                                    \/ ~Apart(circFreed, x) \/ x \in circPopped

\* What is appended is held, and so is the rest.
LEMMA HeldAppended ==
  ASSUME NEW S, NEW s \in Seq(S), NEW e \in S
  PROVE  \A x : HoldsItem(Append(s, e), x) <=> HoldsItem(s, x) \/ x = e
  <1>1. PICK n \in Nat : n = Len(s)
    OBVIOUS
  <1>2. PICK q : q = Append(s, e) /\ Len(q) = n + 1 /\ q[n + 1] = e /\ \A i \in 1..n : q[i] = s[i]
    <2>1. Len(Append(s, e)) = n + 1
      BY <1>1
    <2>2. Append(s, e)[n + 1] = e
      BY <1>1
    <2>3. \A i \in 1..n : Append(s, e)[i] = s[i]
      BY <1>1
    <2> QED
      BY <2>1, <2>2, <2>3
  <1>3. \A i \in 1..(n + 1) : i \in 1..n \/ i = n + 1
    OBVIOUS
  <1>4. n + 1 \in 1..(n + 1) /\ \A i \in 1..n : i \in 1..(n + 1)
    OBVIOUS
  <1>5. \A x : HoldsItem(q, x) => HoldsItem(s, x) \/ x = e
    BY <1>1, <1>2, <1>3 DEF HoldsItem
  <1>6. \A x : HoldsItem(s, x) => HoldsItem(q, x)
    BY <1>1, <1>2, <1>4 DEF HoldsItem
  <1>7. HoldsItem(q, e)
    BY <1>2, <1>4 DEF HoldsItem
  <1> QED
    BY <1>2, <1>5, <1>6, <1>7

\* What is held is the first element or in the tail.
LEMMA HeldTail ==
  ASSUME NEW S, NEW s \in Seq(S), Len(s) > 0
  PROVE  \A x : HoldsItem(s, x) => x = s[1] \/ HoldsItem(Tail(s), x)
  <1>1. PICK n \in Nat : n = Len(s)
    OBVIOUS
  <1>2. PICK q : q = Tail(s) /\ Len(q) = n - 1 /\ \A i \in 1..(n - 1) : q[i] = s[i + 1]
    <2>1. Len(Tail(s)) = n - 1
      BY <1>1
    <2>2. \A i \in 1..(n - 1) : Tail(s)[i] = s[i + 1]
      BY <1>1
    <2> QED
      BY <2>1, <2>2
  <1>3. \A i \in 1..n : i = 1 \/ (i - 1 \in 1..(n - 1) /\ (i - 1) + 1 = i)
    OBVIOUS
  <1>4. ASSUME NEW x, HoldsItem(s, x), x # s[1] PROVE HoldsItem(q, x)
    <2>1. PICK i \in 1..n : s[i] = x
      BY <1>1, <1>4 DEF HoldsItem
    <2>2. i - 1 \in 1..Len(q) /\ (i - 1) + 1 = i
      BY <1>2, <1>3, <1>4, <2>1
    <2>3. q[i - 1] = x
      BY <1>2, <2>1, <2>2
    <2> QED
      BY <2>2, <2>3 DEF HoldsItem
  <1> QED
    BY <1>2, <1>4

\* What is appended has been freed, and what was before.
LEMMA FreedAppended ==
  ASSUME NEW f \in Seq(CircValues), NEW o \in CircValues
  PROVE  \A x : Apart(Append(f, o), x) <=> Apart(f, x) /\ x # o
  <1>1. \A x : HoldsItem(Append(f, o), x) <=> HoldsItem(f, x) \/ x = o
    BY HeldAppended
  <1>2. \A q, x : Apart(q, x) <=> ~HoldsItem(q, x)
    BY DEF Apart, HoldsItem
  <1> QED
    BY <1>1, <1>2

\* What one of two sequences holds is held by both after one another.
LEMMA HeldInBoth ==
  ASSUME NEW f \in Seq(CircValues), NEW more \in Seq(CircElement)
  PROVE  \A x : HoldsItem(f \o more, x) <=> HoldsItem(f, x) \/ HoldsItem(more, x)
  <1>1. PICK n \in Nat : n = Len(f)
    OBVIOUS
  <1>2. PICK m \in Nat : m = Len(more)
    OBVIOUS
  <1>3. PICK q : q = f \o more /\ Len(q) = n + m /\ (\A i \in 1..n : q[i] = f[i]) /\ \A i \in 1..m : q[n + i] = more[i]
    <2>1. Len(f \o more) = n + m
      BY <1>1, <1>2
    <2>2. \A i \in 1..n : (f \o more)[i] = f[i]
      BY <1>1
    <2>3. \A i \in 1..m : (f \o more)[n + i] = more[i]
      BY <1>1, <1>2
    <2> QED
      BY <2>1, <2>2, <2>3
  <1>4. \A i \in 1..(n + m) : i \in 1..n \/ (i - n \in 1..m /\ n + (i - n) = i)
    OBVIOUS
  <1>5. (\A i \in 1..n : i \in 1..(n + m)) /\ \A i \in 1..m : n + i \in 1..(n + m)
    OBVIOUS
  <1>6. \A x : HoldsItem(q, x) => HoldsItem(f, x) \/ HoldsItem(more, x)
    BY <1>1, <1>2, <1>3, <1>4 DEF HoldsItem
  <1>7. \A x : HoldsItem(f, x) => HoldsItem(q, x)
    BY <1>1, <1>3, <1>5 DEF HoldsItem
  <1>8. \A x : HoldsItem(more, x) => HoldsItem(q, x)
    BY <1>2, <1>3, <1>5 DEF HoldsItem
  <1> QED
    BY <1>3, <1>6, <1>7, <1>8

\* A push accounts for the new element, and for the one it drops.
LEMMA PushAccount ==
  ASSUME CircInv, CircAccount, NEW e \in CircElement, circBuf_push(e), CircInv'
  PROVE  CircAccount'
  <1>1. PICK cb : cb = circBuf /\ GoodCirc(cb) /\ cb.exists
    BY DEF CircInv, circBuf_push
  <1>2. PICK d \in [1..CircSize -> CircValues] : d = cb.vector.data
    BY <1>1 DEF GoodCirc, CircVectorShape
  <1>3. PICK f \in Seq(CircValues) : f = circFreed
    BY DEF CircInv, FreedOnce
  <1>4. \A k \in 1..CircSize : d[k] # e
    <2>1. e \notin Range(d)
      BY <1>1, <1>2 DEF circBuf_push
    <2>2. DOMAIN d = 1..CircSize
      OBVIOUS
    <2> QED
      BY <2>1, <2>2 DEF Range
  <1>5. PICK c : c = circBuf' /\ c = Pushed(cb, e)
    BY <1>1 DEF circBuf_push, Pushed
  <1>6. PICK m : m = MadeRoom(cb)
    OBVIOUS
  <1>7. /\ GoodCirc(c) /\ c.destroyFunc = cb.destroyFunc /\ c.exists = cb.exists /\ m.vector = cb.vector /\ m.destroyFunc = cb.destroyFunc
        /\ \A k \in 1..CircSize : c.vector.data[k] \in {cb.vector.data[k], e}
        /\ cb.elementCount = CircSize => \A k \in 1..CircSize : c.vector.data[k] # Oldest(cb)
        /\ cb.elementCount = CircSize => Oldest(cb) \in CircElement
        /\ ItemsOf(c) = Append(IF Len(ItemsOf(cb)) = CircSize THEN Tail(ItemsOf(cb)) ELSE ItemsOf(cb), e)
    <2>1. c = Pushed(cb, e)
      BY <1>5
    <2>2. \A k \in 1..CircSize : cb.vector.data[k] # e
      BY <1>2, <1>4
    <2>3. GoodCirc(cb)
      BY <1>1
    <2> QED
      BY <1>6, <2>1, <2>2, <2>3, PushGoes
  <1>8. circFreed' = IF cb.elementCount = CircSize /\ cb.destroyFunc THEN Append(f, Oldest(cb)) ELSE f
    BY <1>1, <1>3, <1>6, <1>7 DEF circBuf_push, Oldest
  <1>9. circPopped' = circPopped \ {e} /\ circPushed' = circPushed \cup {e}
    BY DEF circBuf_push
  <1>10. PICK s \in Seq(CircElement) : s = ItemsOf(cb) /\ Len(s) = cb.elementCount
    BY <1>1, ItemsFacts
  <1>11. Apart(f, NullPtr) /\ (cb.destroyFunc => \A x \in circPushed : HoldsItem(s, x) \/ ~Apart(f, x) \/ x \in circPopped)
    BY <1>1, <1>3, <1>10 DEF CircAccount
  <1>12. CircSize \in Nat /\ CircSize > 1 /\ NullPtr \notin CircElement
    BY CircAssumption
  <1>13. CASE cb.elementCount = CircSize
    <2>1. PICK o \in CircElement : o = Oldest(cb) /\ o = s[1]
      BY <1>1, <1>7, <1>10, <1>12, <1>13, TailGoes
    <2>2. Tail(s) \in Seq(CircElement) /\ Len(s) > 0
      BY <1>10, <1>12, <1>13
    <2>3. \A x : HoldsItem(ItemsOf(c), x) <=> HoldsItem(Tail(s), x) \/ x = e
      <3>1. ItemsOf(c) = Append(Tail(s), e)
        BY <1>7, <1>10, <1>13
      <3>2. \A x : HoldsItem(Append(Tail(s), e), x) <=> HoldsItem(Tail(s), x) \/ x = e
        BY <2>2, HeldAppended
      <3> QED
        BY <3>1, <3>2
    <2>4. \A x : HoldsItem(s, x) => x = o \/ HoldsItem(Tail(s), x)
      BY <2>1, <2>2, HeldTail
    <2>5. o \in CircValues /\ o # NullPtr
      BY <1>12 DEF CircValues
    <2>6. CASE cb.destroyFunc
      <3>1. \A x : Apart(circFreed', x) <=> Apart(f, x) /\ x # o
        BY <1>8, <1>13, <2>1, <2>5, <2>6, FreedAppended
      <3>2. Apart(circFreed', NullPtr)
        BY <1>11, <2>5, <3>1
      <3>3. \A x \in circPushed' : HoldsItem(ItemsOf(c), x) \/ ~Apart(circFreed', x) \/ x \in circPopped'
        BY <1>9, <1>11, <2>3, <2>4, <2>6, <3>1
      <3> QED
        BY <1>1, <1>5, <1>7, <3>2, <3>3 DEF CircAccount
    <2>7. CASE ~cb.destroyFunc
      <3>1. circFreed' = f
        BY <1>8, <2>7
      <3> QED
        BY <1>5, <1>7, <1>11, <2>7, <3>1 DEF CircAccount
    <2> QED
      BY <2>6, <2>7
  <1>14. CASE cb.elementCount # CircSize
    <2>1. \A x : HoldsItem(ItemsOf(c), x) <=> HoldsItem(s, x) \/ x = e
      BY <1>7, <1>10, <1>14, HeldAppended
    <2>2. circFreed' = f
      BY <1>8, <1>14
    <2>3. cb.destroyFunc => \A x \in circPushed' : HoldsItem(ItemsOf(c), x) \/ ~Apart(f, x) \/ x \in circPopped'
      BY <1>9, <1>11, <2>1
    <2> QED
      BY <1>1, <1>5, <1>7, <1>11, <2>2, <2>3 DEF CircAccount
  <1> QED
    BY <1>13, <1>14

\* popTail gives the oldest back.
LEMMA PopAccount ==
  ASSUME CircInv, CircAccount, circBuf_popTail
  PROVE  CircAccount'
  <1>1. PICK cb : cb = circBuf /\ GoodCirc(cb) /\ cb.elementCount > 0 /\ cb.exists
    BY DEF CircInv, circBuf_popTail
  <1>2. PICK c : c = circBuf' /\ c = WithoutTail(cb)
    BY <1>1 DEF circBuf_popTail
  <1>3. c.exists = cb.exists /\ c.destroyFunc = cb.destroyFunc /\ Oldest(cb) = ItemsOf(cb)[1] /\ ItemsOf(c) = Tail(ItemsOf(cb))
    BY <1>1, <1>2, TailGoes
  <1>4. circPopped' = circPopped \cup {Oldest(cb)} /\ circFreed' = circFreed /\ circPushed' = circPushed
    BY <1>1 DEF circBuf_popTail
  <1>5. PICK s \in Seq(CircElement) : s = ItemsOf(cb) /\ Len(s) > 0
    BY <1>1, ItemsFacts
  <1>6. \A x : HoldsItem(s, x) => x = Oldest(cb) \/ HoldsItem(ItemsOf(c), x)
    BY <1>3, <1>5, HeldTail
  <1> QED
    BY <1>1, <1>2, <1>3, <1>4, <1>5, <1>6 DEF CircAccount

\* clear destroys what the buffer holds.
LEMMA ClearAccount ==
  ASSUME CircInv, CircAccount, circBuf_clear
  PROVE  CircAccount'
  <1>1. PICK cb : cb = circBuf /\ GoodCirc(cb) /\ cb.exists
    BY DEF CircInv, circBuf_clear
  <1>2. PICK n \in Nat : n = cb.elementCount
    BY <1>1, CircAssumption DEF GoodCirc
  <1>3. PICK c : c = circBuf' /\ PoppedSo(c, cb, n)
    BY <1>1, <1>2, ClearGoes DEF circBuf_clear
  <1>4. PICK more \in Seq(CircElement) : more = ItemsOf(cb) /\ Len(more) = n
    BY <1>1, <1>2, ItemsFacts
  <1>5. PICK f \in Seq(CircValues) : f = circFreed
    BY DEF CircInv, FreedOnce
  <1>6. circFreed' = f \o more
    <2>1. \A i \in 1..n : Oldest(Popping(cb)[i - 1]) = more[i]
      BY <1>1, <1>2, <1>4, ClearGoes
    <2>2. more = [i \in 1..n |-> more[i]]
      BY <1>4
    <2>3. [i \in 1..n |-> Oldest(Popping(cb)[i - 1])] = more
      BY <2>1, <2>2
    <2> QED
      BY <1>1, <1>2, <1>5, <2>3 DEF circBuf_clear
  <1>7. circPopped' = circPopped /\ circPushed' = circPushed
    BY DEF circBuf_clear
  <1>8. \A x : ~Apart(circFreed', x) <=> HoldsItem(f, x) \/ HoldsItem(more, x)
    <2>1. \A x : HoldsItem(f \o more, x) <=> HoldsItem(f, x) \/ HoldsItem(more, x)
      BY HeldInBoth
    <2>2. \A q, x : ~Apart(q, x) <=> HoldsItem(q, x)
      BY DEF Apart, HoldsItem
    <2> QED
      BY <1>6, <2>1, <2>2
  <1>9. NullPtr \notin CircElement /\ ~HoldsItem(more, NullPtr)
    BY <1>4, CircAssumption DEF HoldsItem
  <1>10. \A x : Apart(f, x) <=> ~HoldsItem(f, x)
    BY DEF Apart, HoldsItem
  <1>11. Apart(circFreed', NullPtr)
    BY <1>1, <1>5, <1>8, <1>9, <1>10 DEF CircAccount
  <1>12. c.destroyFunc = cb.destroyFunc
    BY <1>3 DEF PoppedSo
  <1>13. cb.destroyFunc => \A x \in circPushed : ~Apart(circFreed', x) \/ x \in circPopped
    BY <1>1, <1>4, <1>5, <1>8, <1>10 DEF CircAccount
  <1> QED
    BY <1>3, <1>7, <1>11, <1>12, <1>13 DEF CircAccount

\* The slots from any of them upwards are all the slots.
LEMMA SlotsFrom ==
  ASSUME NEW h \in 0..(CircSize - 1), NEW a \in 0..(CircSize - 1)
  PROVE  \E i \in 1..CircSize : CircSlot(h, i) = a
  <1>1. CircSize \in Nat
    BY CircAssumption
  <1>2. CASE a >= h
    <2>1. a - h + 1 \in 1..CircSize /\ CircSlot(h, a - h + 1) = a
      BY <1>1, <1>2 DEF CircSlot
    <2> QED
      BY <2>1
  <1>3. CASE a < h
    <2>1. a - h + 1 + CircSize \in 1..CircSize /\ CircSlot(h, a - h + 1 + CircSize) = a
      BY <1>1, <1>3 DEF CircSlot
    <2> QED
      BY <2>1
  <1> QED
    BY <1>2, <1>3

\* destroy destroys what the buffer holds, and nothing else, if its walk meets all of it.
LEMMA DestroyAccount ==
  ASSUME CircInv, CircAccount, circBuf_destroy
  PROVE  CircAccount'
  <1>1. PICK cb : cb = circBuf /\ GoodCirc(cb) /\ cb.exists
    BY DEF CircInv, circBuf_destroy
  <1>2. PICK n \in Nat : n = cb.elementCount /\ n <= CircSize /\ CircSize \in Nat /\ CircSize > 1
    BY <1>1, CircAssumption DEF GoodCirc
  <1>3. PICK c : c = circBuf' /\ c.exists = FALSE /\ c.elementCount = n /\ c.destroyFunc = cb.destroyFunc
    <2>1. circBuf' = [vector |-> cb.vector, headIndex |-> cb.headIndex, tailIndex |-> cb.tailIndex,
                      elementCount |-> cb.elementCount, destroyFunc |-> cb.destroyFunc, exists |-> FALSE]
      BY <1>1 DEF GoodCirc, circBuf_destroy
    <2> QED
      BY <1>2, <2>1
  <1> SUFFICES ASSUME n \in {0, 1, CircSize}
               PROVE  /\ Apart(circFreed', NullPtr)
                      /\ cb.destroyFunc => \A x \in circPushed' : ~Apart(circFreed', x) \/ x \in circPopped'
    BY <1>3 DEF CircAccount, WalkMeetsAll
  <1>4. PICK t \in 0..(CircSize - 1) : t = cb.tailIndex
    BY <1>1 DEF GoodCirc
  <1>5. PICK head \in 0..(CircSize - 1) : head = cb.headIndex /\ head = CircSlot(t, n)
    <2>1. n \in 0..CircSize
      BY <1>2
    <2> QED
      BY <1>1, <1>2, <1>4, <2>1, SlotFacts DEF GoodCirc
  <1>6. PICK d \in [1..CircSize -> CircValues] : d = cb.vector.data
    BY <1>1 DEF GoodCirc, CircVectorShape
  <1>7. PICK s \in Seq(CircElement) : s = ItemsOf(cb) /\ Len(s) = n /\ \A j \in 1..n : s[j] = d[CircSlot(t, j) + 1]
    BY <1>1, <1>2, <1>4, <1>6, ItemsFacts
  <1>8. \A i \in 1..n : i \in 1..CircSize /\ i \in 0..CircSize
    BY <1>2
  <1>9. \A i \in 1..n : \E j \in 1..n : CircSlot(head, i) = CircSlot(t, j)
    <2>1. CASE n = CircSize
      <3>1. \A i \in 1..n : CircSlot(head, i) \in 0..(CircSize - 1)
        BY <1>8, SlotFacts
      <3> QED
        BY <2>1, <3>1, SlotsFrom
    <2>2. CASE n = 1
      <3>1. \A i \in 1..n : i = 1
        BY <2>2
      <3> QED
        BY <1>5, <2>2, <3>1, SlotFacts
    <2>3. CASE n = 0
      BY <2>3
    <2> QED
      BY <2>1, <2>2, <2>3
  <1>10. \A j \in 1..n : \E i \in 1..n : CircSlot(head, i) = CircSlot(t, j)
    <2>1. CASE n = CircSize
      <3>1. \A j \in 1..n : CircSlot(t, j) \in 0..(CircSize - 1)
        BY <1>8, SlotFacts
      <3> QED
        BY <2>1, <3>1, SlotsFrom
    <2>2. CASE n = 1
      <3>1. \A j \in 1..n : j = 1
        BY <2>2
      <3> QED
        BY <1>5, <2>2, <3>1, SlotFacts
    <2>3. CASE n = 0
      BY <2>3
    <2> QED
      BY <2>1, <2>2, <2>3
  <1>11. PICK more : more = [i \in 1..n |-> d[CircSlot(head, i) + 1]]
    OBVIOUS
  <1>12. \A i \in 1..n : more[i] = d[CircSlot(head, i) + 1] /\ \E j \in 1..n : more[i] = s[j]
    <2>1. \A i \in 1..n : more[i] = d[CircSlot(head, i) + 1]
      BY <1>11
    <2> SUFFICES ASSUME NEW i \in 1..n PROVE \E j \in 1..n : more[i] = s[j]
      BY <2>1
    <2>2. PICK j \in 1..n : CircSlot(head, i) = CircSlot(t, j)
      BY <1>9
    <2>3. more[i] = d[CircSlot(t, j) + 1]
      BY <2>1, <2>2
    <2> QED
      BY <1>7, <2>3
  <1>13. more \in Seq(CircElement) /\ Len(more) = n
    <2>0. n = Len(s) /\ \A j \in 1..n : s[j] \in CircElement
      BY <1>7
    <2>1. ASSUME NEW i \in 1..n PROVE more[i] \in CircElement
      <3>1. PICK j \in 1..n : more[i] = s[j]
        BY <1>12
      <3> QED
        BY <2>0, <3>1
    <2>2. more \in [1..n -> CircElement]
      BY <1>11, <2>1
    <2> QED
      BY <2>2
  <1>14. \A x : HoldsItem(s, x) => HoldsItem(more, x)
    <2> SUFFICES ASSUME NEW j \in 1..n PROVE \E i \in 1..n : more[i] = s[j]
      BY <1>7, <1>13 DEF HoldsItem
    <2>1. PICK i \in 1..n : CircSlot(head, i) = CircSlot(t, j)
      BY <1>10
    <2>2. more[i] = d[CircSlot(head, i) + 1]
      BY <1>12
    <2>3. more[i] = d[CircSlot(t, j) + 1]
      BY <2>1, <2>2
    <2> QED
      BY <1>7, <2>3
  <1>15. PICK f \in Seq(CircValues) : f = circFreed
    BY DEF CircInv, FreedOnce
  <1>16. circFreed' = IF cb.destroyFunc THEN f \o more ELSE f
    <2>1. \A i \in 1..n : WalkFrom(head)[i] = CircSlot(head, i)
      BY <1>8, WalkIs
    <2>2. [i \in 1..n |-> vectorGetElementAt(cb.vector, WalkFrom(head)[i])] = more
      BY <1>6, <1>11, <2>1 DEF vectorGetElementAt
    <2> QED
      BY <1>1, <1>2, <1>5, <1>15, <2>2 DEF circBuf_destroy
  <1>17. circPopped' = circPopped /\ circPushed' = circPushed
    BY DEF circBuf_destroy
  <1>18. \A x : Apart(f, x) <=> ~HoldsItem(f, x)
    BY DEF Apart, HoldsItem
  <1>19. Apart(f, NullPtr) /\ (cb.destroyFunc => \A x \in circPushed : HoldsItem(s, x) \/ ~Apart(f, x) \/ x \in circPopped)
    BY <1>1, <1>7, <1>15 DEF CircAccount
  <1>20. CASE cb.destroyFunc
    <2>1. \A x : ~Apart(circFreed', x) <=> HoldsItem(f, x) \/ HoldsItem(more, x)
      <3>1. \A x : HoldsItem(f \o more, x) <=> HoldsItem(f, x) \/ HoldsItem(more, x)
        BY <1>13, HeldInBoth
      <3>2. \A q, x : ~Apart(q, x) <=> HoldsItem(q, x)
        BY DEF Apart, HoldsItem
      <3> QED
        BY <1>16, <1>20, <3>1, <3>2
    <2>2. ~HoldsItem(more, NullPtr)
      BY <1>13, CircAssumption DEF HoldsItem
    <2> QED
      BY <1>14, <1>17, <1>18, <1>19, <1>20, <2>1, <2>2
  <1>21. CASE ~cb.destroyFunc
    BY <1>16, <1>19, <1>21
  <1> QED
    BY <1>20, <1>21

\* The invariant gives the items of the abstract buffer.
LEMMA CircItemsAre == CircInv => CircItems = ItemsOf(circBuf)
  BY ItemsAre DEF CircInv, CircItems

\* Every step keeps the invariant and is one of the abstract buffer.
LEMMA CircStep == CircInv /\ [CircNext]_circVars => CircInv' /\ [R!Push \/ R!PopOldest \/ R!Empty]_CircItems
  <1> SUFFICES ASSUME CircInv, [CircNext]_circVars PROVE CircInv' /\ [R!Push \/ R!PopOldest \/ R!Empty]_CircItems
    OBVIOUS
  <1>1. PICK old : old = ItemsOf(circBuf) /\ CircItems = old
    BY CircItemsAre
  <1>2. CircInv' => CircItems' = ItemsOf(circBuf')
    <2>1. CircInv' => GoodCirc(circBuf')
      BY DEF CircInv
    <2>2. PICK cb : cb = circBuf'
      OBVIOUS
    <2>3. GoodCirc(cb) => [i \in 1..cb.elementCount |-> vectorGetElementAt(cb.vector, (cb.tailIndex + i - 1) % CircSize)] = ItemsOf(cb)
      BY ItemsAre
    <2> QED
      BY <2>1, <2>2, <2>3 DEF CircItems
  <1>3. CASE \E e \in CircElement : circBuf_push(e)
    <2>1. PICK e \in CircElement : circBuf_push(e)
      BY <1>3
    <2>2. CircInv' /\ ItemsOf(circBuf') = Append(IF Len(old) = CircSize THEN Tail(old) ELSE old, e)
      BY <1>1, <2>1, CircPushStep
    <2> QED
      BY <1>1, <1>2, <2>2 DEF R!Push
  <1>4. CASE circBuf_popTail
    <2>1. CircInv' /\ ItemsOf(circBuf') = Tail(old) /\ old # << >>
      BY <1>1, <1>4, CircPopStep
    <2> QED
      BY <1>1, <1>2, <2>1 DEF R!PopOldest
  <1>5. CASE circBuf_clear
    <2>1. CircInv' /\ ItemsOf(circBuf') = << >>
      BY <1>5, CircClearStep
    <2> QED
      BY <1>2, <2>1 DEF R!Empty
  <1>6. CASE circBuf_destroy
    <2>1. CircInv' /\ ItemsOf(circBuf') = old
      BY <1>1, <1>6, CircDestroyStep
    <2> QED
      BY <1>1, <1>2, <2>1
  <1>7. CASE UNCHANGED circVars
    BY <1>7 DEF circVars, CircInv, CircItems
  <1> QED
    BY <1>3, <1>4, <1>5, <1>6, <1>7 DEF CircNext

\* Every step accounts for the elements.
LEMMA AccountStep == CircInv /\ CircAccount /\ [CircNext]_circVars => CircAccount'
  <1> SUFFICES ASSUME CircInv, CircAccount, [CircNext]_circVars PROVE CircAccount'
    OBVIOUS
  <1>1. CircInv'
    BY CircStep
  <1>2. CASE UNCHANGED circVars
    BY <1>2 DEF circVars, CircAccount, WalkMeetsAll
  <1> QED
    BY <1>1, <1>2, PushAccount, PopAccount, ClearAccount, DestroyAccount DEF CircNext

\* A library step is a step of the circular buffer, or leaves it alone.
LEMMA CircSteps == [Next]_libraryVars => [CircNext]_circVars
  BY DEF Next, libraryVars, circVars

\* The invariant of the circular buffer holds in every state of the library.
LEMMA CircInvariance == Spec => []CircInv
  <1>1. Init => CircInv
    BY CircInitInv DEF Init
  <1>2. CircInv /\ [Next]_libraryVars => CircInv'
    BY CircStep, CircSteps
  <1> QED
    BY <1>1, <1>2, PTL DEF Spec

\* So does the account.
LEMMA AccountInvariance == Spec => []CircAccount
  <1>1. Init => CircAccount
    <2> SUFFICES ASSUME Init PROVE CircAccount
      OBVIOUS
    <2>1. circFreed = << >> /\ circPushed = {}
      BY DEF Init, CircInit
    <2> QED
      BY <2>1 DEF CircAccount, Apart
  <1>2. CircInv /\ CircAccount /\ [Next]_libraryVars => CircAccount'
    BY AccountStep, CircSteps
  <1> QED
    BY <1>1, <1>2, CircInvariance, PTL DEF Spec

\* circularBuffer.c implements a buffer of the most recent items, for every size greater than one: head, tail and
\* count agree around the end of the vector, and a push into a full buffer drops the oldest.
THEOREM CircImplements == Spec => CircImplementsRecentItems
  <1>1. Init => CircItems = << >>
    BY CircInitInv DEF Init
  <1>2. CircInv /\ [Next]_libraryVars => [R!Push \/ R!PopOldest \/ R!Empty]_CircItems
    BY CircStep, CircSteps
  <1> QED
    BY <1>1, <1>2, CircInvariance, PTL DEF Spec, CircImplementsRecentItems, R!RecentItems

\* Every element pushed is in the buffer, was given back or was destroyed, in one of these ways and once; also after
\* circBuf_destroy, of a buffer that is full, empty or has one element.  In the other cases its walk, which starts at
\* the head, still destroys nothing twice.
THEOREM CircElementsOwned == Spec => []CircOwnership
  <1>1. CircInv /\ CircAccount => CircOwnership
    <2> SUFFICES ASSUME CircInv, CircAccount PROVE CircOwnership
      OBVIOUS
    <2>1. GoodCirc(circBuf) /\ circFreed \in Seq(CircValues)
      BY DEF CircInv, FreedOnce
    <2>2. PICK s \in Seq(CircElement) : s = CircItems /\ Len(s) = circBuf.elementCount
      BY <2>1, CircItemsAre, ItemsFacts
    <2>3. DOMAIN s = 1..Len(s) /\ DOMAIN circFreed = 1..Len(circFreed)
      BY <2>1
    <2>4. \A i \in 1..Len(s) : s[i] \in CircElement /\ s[i] # NullPtr
      BY <2>2, CircAssumption
    <2>5. \A i \in 1..Len(s) : \E k \in 1..CircSize : s[i] = circBuf.vector.data[k]
      <3> SUFFICES ASSUME NEW i \in 1..Len(s) PROVE \E k \in 1..CircSize : s[i] = circBuf.vector.data[k]
        OBVIOUS
      <3>1. i \in 0..CircSize /\ CircSize \in Nat
        BY <2>1, <2>2, CircAssumption DEF GoodCirc
      <3>2. PICK t \in 0..(CircSize - 1) : t = circBuf.tailIndex
        BY <2>1 DEF GoodCirc
      <3>3. PICK a \in 0..(CircSize - 1) : a = CircSlot(t, i)
        BY <3>1, SlotFacts
      <3>4. a + 1 \in 1..CircSize
        BY <3>1
      <3>5. s[i] = circBuf.vector.data[a + 1]
        BY <2>1, <2>2, <3>2, <3>3, CircItemsAre, ItemsFacts
      <3> QED
        BY <3>4, <3>5
    <2>6. circBuf.exists => \A i \in 1..Len(s) : Apart(circFreed, s[i])
      BY <2>4, <2>5 DEF CircInv
    <2>7. circBuf.exists => Range(CircItems) \subseteq CircElement /\ Range(CircItems) \cap Range(circFreed) = {}
      BY <2>2, <2>3, <2>4, <2>6 DEF Range, Apart
    <2>8. Range(circFreed) \cap circPopped = {}
      BY <2>3 DEF CircInv, Range, Apart
    <2>9. \A i, j \in DOMAIN circFreed : circFreed[i] = circFreed[j] => i = j \/ circFreed[i] = NullPtr
      BY <2>3 DEF CircInv, FreedOnce
    <2>10. circBuf.exists => Range(CircItems) \cap circPopped = {}
      BY <2>2, <2>3, <2>4, <2>5 DEF CircInv, Range
    <2>11. \A x : x \in Range(circFreed) <=> ~Apart(circFreed, x)
      BY <2>3 DEF Range, Apart
    <2>12. \A x : HoldsItem(ItemsOf(circBuf), x) => x \in Range(CircItems)
      BY <2>2, <2>3, CircItemsAre DEF Range, HoldsItem
    <2>13. PICK held : held = IF circBuf.exists THEN Range(CircItems) ELSE {}
      OBVIOUS
    <2>14. held \subseteq CircElement /\ held \cap Range(circFreed) = {} /\ held \cap circPopped = {}
      BY <2>7, <2>10, <2>13
    <2>15. circBuf.exists \/ WalkMeetsAll =>
             /\ NullPtr \notin Range(circFreed)
             /\ circBuf.destroyFunc => circPushed \subseteq held \cup Range(circFreed) \cup circPopped
      BY <2>11, <2>12, <2>13 DEF CircAccount
    <2> QED
      BY <2>8, <2>9, <2>13, <2>14, <2>15 DEF CircOwnership
  <1> QED
    BY <1>1, CircInvariance, AccountInvariance, PTL

-----------------------------------------------------------------------------
(* ID table: the list through the free slots *)

IdtSlots(t) == 0..(t.tableSize - 1)

UsedOf(t) == {i \in IdtSlots(t) : ~t.table[i].isFree}

IdsOf(t) == [i \in UsedOf(t) |-> t.table[i].data]

Link(s, n, k) == IF k <= n THEN s[k] ELSE -1

\* The list goes through the slots s[1], ..., s[n]; the other slots are in use.
IdtChain(s, n, t) ==
  /\ n \in Nat /\ s \in [1..n -> IdtSlots(t)] /\ \A j, k \in 1..n : s[j] = s[k] => j = k
  /\ t.firstFree = Link(s, n, 1)
  /\ \A k \in 1..n : t.table[s[k]] = FreeSlot(Link(s, n, k + 1))
  /\ \A i \in IdtSlots(t) : (\E k \in 1..n : s[k] = i) \/ t.table[i] = UsedSlot(t.table[i].data)

IdtShape(t) ==
  /\ t = [table |-> t.table, tableSize |-> t.tableSize, firstFree |-> t.firstFree, elementCount |-> t.elementCount]
  /\ t.tableSize \in Nat \ {0} /\ t.table = [i \in IdtSlots(t) |-> t.table[i]]
  /\ t.elementCount = Cardinality(UsedOf(t))

GoodIdt(t) == IdtShape(t) /\ \E s, n : IdtChain(s, n, t)

\* The fields of free and used slots
LEMMA SlotFields == \A x : FreeSlot(x).isFree /\ FreeSlot(x).data = x /\ ~UsedSlot(x).isFree /\ UsedSlot(x).data = x
  BY DEF FreeSlot, UsedSlot

\* A slot is free if and only if it is in the list.
LEMMA FreeInChain ==
  ASSUME NEW t, NEW s, NEW n, IdtChain(s, n, t), NEW i \in IdtSlots(t)
  PROVE  /\ t.table[i].isFree <=> \E k \in 1..n : s[k] = i
         /\ i \in UsedOf(t) <=> ~\E k \in 1..n : s[k] = i
  <1>1. (\E k \in 1..n : s[k] = i) => t.table[i].isFree
    BY SlotFields DEF IdtChain
  <1>2. (~\E k \in 1..n : s[k] = i) => ~t.table[i].isFree
    BY SlotFields DEF IdtChain
  <1> QED
    BY <1>1, <1>2 DEF UsedOf

\* The slots in use are finite in number.
LEMMA UsedFinite ==
  ASSUME NEW t, t.tableSize \in Nat
  PROVE  IsFiniteSet(UsedOf(t)) /\ Cardinality(UsedOf(t)) \in Nat
  <1>1. UsedOf(t) \in SUBSET Nat /\ \A i \in UsedOf(t) : i <= t.tableSize
    BY DEF UsedOf, IdtSlots
  <1>2. IsFiniteSet(UsedOf(t))
    BY <1>1, FS_BoundedSetOfNaturals
  <1> QED
    BY <1>2, FS_CardinalityType

\* The list has no more slots than the table.
LEMMA IdtChainBound ==
  ASSUME NEW t, t.tableSize \in Nat, NEW s, NEW n, IdtChain(s, n, t)
  PROVE  n <= t.tableSize
  <1>1. PICK m \in Int : m = t.tableSize - 1 /\ t.tableSize = m + 1 /\ m >= -1
    OBVIOUS
  <1>2. n \in Nat /\ s \in Injection(1..n, 0..m)
    BY <1>1 DEF IdtChain, IdtSlots, Injection, IsInjective
  <1>3. IsFiniteSet(0..m) /\ Cardinality(0..m) = IF 0 > m THEN 0 ELSE m - 0 + 1
    BY FS_Interval, SMTT(30)
  <1>4. Cardinality(1..n) <= Cardinality(0..m)
    BY <1>2, <1>3, FS_Injection
  <1>5. Cardinality(1..n) = n
    <2>1. n \in Int /\ 1 \in Int
      BY <1>2
    <2>2. Cardinality(1..n) = IF 1 > n THEN 0 ELSE n - 1 + 1
      BY <2>1, FS_Interval, SMTT(30)
    <2> QED
      BY <1>2, <2>2
  <1> QED
    BY <1>1, <1>3, <1>4, <1>5

\* A new table
LEMMA TableCreated ==
  ASSUME NEW count \in Nat \ {0}
  PROVE  GoodIdt(idt_create(count)) /\ UsedOf(idt_create(count)) = {} /\ idt_create(count).tableSize = count
  <1>1. PICK t : t = idt_create(count)
    OBVIOUS
  <1>2. /\ t.table = [i \in 0..(count - 1) |-> FreeSlot(IF i = count - 1 THEN -1 ELSE i + 1)]
        /\ t.tableSize = count /\ t.firstFree = 0 /\ t.elementCount = 0
        /\ t = [table |-> t.table, tableSize |-> t.tableSize, firstFree |-> t.firstFree, elementCount |-> t.elementCount]
    BY <1>1 DEF idt_create
  <1>3. IdtSlots(t) = 0..(count - 1)
    BY <1>2 DEF IdtSlots
  <1>4. UsedOf(t) = {}
    BY <1>2, <1>3, SlotFields DEF UsedOf
  <1>5. Cardinality(UsedOf(t)) = 0
    BY <1>4, FS_EmptySet
  <1>6. IdtShape(t)
    BY <1>2, <1>3, <1>5 DEF IdtShape
  <1>7. PICK s : s = [k \in 1..count |-> k - 1]
    OBVIOUS
  <1>8. \A k \in 1..count : k - 1 \in 0..(count - 1)
    OBVIOUS
  <1>9. s \in [1..count -> 0..(count - 1)] /\ \A k \in 1..count : s[k] = k - 1
    BY <1>7, <1>8
  <1>10. \A k \in 1..count : t.table[s[k]] = FreeSlot(Link(s, count, k + 1))
    <2> SUFFICES ASSUME NEW k \in 1..count PROVE t.table[s[k]] = FreeSlot(Link(s, count, k + 1))
      OBVIOUS
    <2>1. t.table[s[k]] = FreeSlot(IF k - 1 = count - 1 THEN -1 ELSE k)
      BY <1>2, <1>8, <1>9
    <2>2. Link(s, count, k + 1) = IF k - 1 = count - 1 THEN -1 ELSE k
      <3>1. CASE k = count
        BY <3>1 DEF Link
      <3>2. CASE k # count
        <4>1. k + 1 \in 1..count /\ k + 1 <= count /\ (k + 1) - 1 = k /\ k - 1 # count - 1
          BY <3>2
        <4> QED
          BY <1>9, <4>1 DEF Link
      <3> QED
        BY <3>1, <3>2
    <2> QED
      BY <2>1, <2>2
  <1>11. \A i \in 0..(count - 1) : \E k \in 1..count : s[k] = i
    <2>1. \A i \in 0..(count - 1) : i + 1 \in 1..count /\ (i + 1) - 1 = i
      OBVIOUS
    <2> QED
      BY <1>9, <2>1
  <1>12. t.firstFree = Link(s, count, 1)
    BY <1>2, <1>9 DEF Link
  <1>13. \A j, k \in 1..count : s[j] = s[k] => j = k
    BY <1>9
  <1>14. IdtChain(s, count, t)
    BY <1>3, <1>9, <1>10, <1>11, <1>12, <1>13 DEF IdtChain
  <1> QED
    BY <1>1, <1>2, <1>4, <1>6, <1>14 DEF GoodIdt

\* The new slots come first, and the old list after them.
LEMMA TableEnlarged ==
  ASSUME NEW t, GoodIdt(t)
  PROVE  /\ GoodIdt(idt_enlarge(t)) /\ idt_enlarge(t).tableSize = 2 * t.tableSize /\ IdsOf(idt_enlarge(t)) = IdsOf(t)
         /\ idt_enlarge(t).firstFree # -1
  <1>1. PICK z \in Nat \ {0} : z = t.tableSize
    BY DEF GoodIdt, IdtShape
  <1>2. PICK n \in Nat : \E s \in [1..n -> 0..(z - 1)] : IdtChain(s, n, t)
    BY <1>1 DEF GoodIdt, IdtChain, IdtSlots
  <1>24. PICK s \in [1..n -> 0..(z - 1)] : IdtChain(s, n, t)
    BY <1>2
  <1>3. PICK r : r = idt_enlarge(t)
    OBVIOUS
  <1>4. PICK tb : tb = [i \in 0..(2 * z - 1) |-> IF i < z THEN t.table[i] ELSE FreeSlot(IF i = 2 * z - 1 THEN t.firstFree ELSE i + 1)]
    OBVIOUS
  <1>5. r = [table |-> tb, tableSize |-> 2 * z, firstFree |-> z, elementCount |-> t.elementCount]
    BY <1>1, <1>3, <1>4 DEF idt_enlarge, GoodIdt, IdtShape
  <1>6. r.table = tb /\ r.tableSize = 2 * z /\ r.firstFree = z /\ r.elementCount = t.elementCount
    BY <1>5
  <1>7. IdtSlots(r) = 0..(2 * z - 1) /\ IdtSlots(t) = 0..(z - 1) /\ \A i \in 0..(z - 1) : i \in 0..(2 * z - 1) /\ i < z
    BY <1>1, <1>6 DEF IdtSlots
  <1>8. \A i \in 0..(z - 1) : tb[i] = t.table[i]
    BY <1>4, <1>7
  <1>9. \A i \in 0..(2 * z - 1) : ~(i < z) => tb[i] = FreeSlot(IF i = 2 * z - 1 THEN t.firstFree ELSE i + 1)
    BY <1>4
  <1>10. UsedOf(r) = UsedOf(t)
    <2>1. \A i \in 0..(2 * z - 1) : i < z => i \in 0..(z - 1)
      OBVIOUS
    <2> QED
      BY <1>6, <1>7, <1>8, <1>9, <2>1, SlotFields DEF UsedOf
  <1>11. IdtShape(r)
    <2>1. tb = [i \in 0..(2 * z - 1) |-> tb[i]]
      BY <1>4
    <2>2. r.elementCount = Cardinality(UsedOf(r))
      BY <1>6, <1>10 DEF GoodIdt, IdtShape
    <2> QED
      BY <1>5, <1>6, <1>7, <2>1, <2>2 DEF IdtShape
  <1>12. IdsOf(r) = IdsOf(t)
    BY <1>6, <1>7, <1>8, <1>10 DEF IdsOf, UsedOf
  <1>13. PICK q : q = [k \in 1..(z + n) |-> IF k <= z THEN z + k - 1 ELSE s[k - z]]
    OBVIOUS
  <1>14. \A k \in 1..z : k \in 1..(z + n) /\ z + k - 1 \in 0..(2 * z - 1) /\ ~(z + k - 1 < z) /\ (z + k - 1 = 2 * z - 1 <=> k = z)
    OBVIOUS
  <1>15. \A k \in 1..n : z + k \in 1..(z + n) /\ ~(z + k <= z) /\ (z + k) - z = k
    OBVIOUS
  <1>16. (\A k \in 1..z : q[k] = z + k - 1) /\ \A k \in 1..n : q[z + k] = s[k]
    BY <1>13, <1>14, <1>15
  <1>17. \A k \in 1..(z + n) : k \in 1..z \/ (k - z \in 1..n /\ z + (k - z) = k)
    OBVIOUS
  <1>18. q \in [1..(z + n) -> 0..(2 * z - 1)]
    <2>1. \A k \in 1..(z + n) : q[k] \in 0..(2 * z - 1)
      <3>1. \A k \in 1..z : q[k] \in 0..(2 * z - 1)
        BY <1>14, <1>16
      <3>2. \A k \in 1..n : q[z + k] \in 0..(2 * z - 1)
        BY <1>7, <1>16
      <3> QED
        BY <1>17, <3>1, <3>2
    <2> QED
      BY <1>13, <2>1
  <1>19. ASSUME NEW j \in 1..(z + n), NEW k \in 1..(z + n), q[j] = q[k] PROVE j = k
    <2>1. \A i \in 1..n : s[i] < z
      OBVIOUS
    <2>2. CASE j \in 1..z /\ k \in 1..z
      <3>1. q[j] = z + j - 1 /\ q[k] = z + k - 1
        BY <1>16, <2>2
      <3> QED
        <4>1. z + j - 1 = z + k - 1
          BY <1>19, <3>1
        <4>2. j \in Int /\ k \in Int /\ z \in Int
          OBVIOUS
        <4> QED
          BY <4>1, <4>2
    <2>3. CASE j \in 1..z /\ k \notin 1..z
      <3>1. q[j] = z + j - 1 /\ k - z \in 1..n /\ q[k] = s[k - z]
        BY <1>16, <1>17, <2>3
      <3>2. PICK v \in Int : v = s[k - z] /\ v < z
        BY <2>1, <3>1
      <3>3. z + j - 1 = v
        BY <1>19, <3>1, <3>2
      <3>4. j \in Int /\ j >= 1 /\ z \in Int
        OBVIOUS
      <3> QED
        BY <3>2, <3>3, <3>4
    <2>4. CASE j \notin 1..z /\ k \in 1..z
      <3>1. q[k] = z + k - 1 /\ j - z \in 1..n /\ q[j] = s[j - z]
        BY <1>16, <1>17, <2>4
      <3>2. s[j - z] < z /\ s[j - z] \in Int /\ k \in Int /\ k >= 1
        BY <2>1, <2>4, <3>1
      <3> QED
        BY <1>19, <3>1, <3>2
    <2>5. CASE j \notin 1..z /\ k \notin 1..z
      <3>1. j - z \in 1..n /\ q[j] = s[j - z] /\ k - z \in 1..n /\ q[k] = s[k - z]
        BY <1>16, <1>17, <2>5
      <3>2. j - z = k - z
        BY <1>24, <1>19, <3>1 DEF IdtChain
      <3> QED
        BY <3>2
    <2> QED
      BY <2>2, <2>3, <2>4, <2>5
  <1>20. \A k \in 1..(z + n) : tb[q[k]] = FreeSlot(Link(q, z + n, k + 1))
    <2>1. ASSUME NEW k \in 1..z PROVE tb[q[k]] = FreeSlot(Link(q, z + n, k + 1))
      <3>1. tb[q[k]] = FreeSlot(IF k = z THEN t.firstFree ELSE (z + k - 1) + 1)
        BY <1>9, <1>14, <1>16
      <3>2. CASE k = z
        <4>1. t.firstFree = Link(s, n, 1)
          BY <1>24 DEF IdtChain
        <4>2. Link(q, z + n, k + 1) = Link(s, n, 1)
          <5>1. CASE n = 0
            BY <3>2, <5>1 DEF Link
          <5>2. CASE n # 0
            <6>1. 1 \in 1..n /\ 1 <= n /\ z + 1 <= z + n
              BY <5>2
            <6> QED
              BY <1>16, <3>2, <6>1 DEF Link
          <5> QED
            BY <5>1, <5>2
        <4> QED
          BY <3>1, <3>2, <4>1, <4>2
      <3>3. CASE k # z
        <4>1. k + 1 \in 1..z /\ k + 1 <= z + n /\ z + (k + 1) - 1 = (z + k - 1) + 1
          BY <3>3
        <4>2. Link(q, z + n, k + 1) = (z + k - 1) + 1
          BY <1>16, <4>1 DEF Link
        <4> QED
          BY <3>1, <3>3, <4>2
      <3> QED
        BY <3>2, <3>3
    <2>2. ASSUME NEW k \in 1..n PROVE tb[q[z + k]] = FreeSlot(Link(q, z + n, (z + k) + 1))
      <3>1. s[k] \in 0..(z - 1) /\ tb[q[z + k]] = t.table[s[k]] /\ t.table[s[k]] = FreeSlot(Link(s, n, k + 1))
        BY <1>24, <1>8, <1>16 DEF IdtChain
      <3>2. Link(q, z + n, (z + k) + 1) = Link(s, n, k + 1)
        <4>1. CASE k = n
          BY <4>1 DEF Link
        <4>2. CASE k # n
          <5>1. k + 1 \in 1..n /\ k + 1 <= n /\ (z + k) + 1 = z + (k + 1) /\ z + (k + 1) <= z + n
            BY <4>2
          <5> QED
            BY <1>16, <5>1 DEF Link
        <4> QED
          BY <4>1, <4>2
      <3> QED
        BY <3>1, <3>2
    <2> QED
      BY <1>17, <2>1, <2>2
  <1>21. \A i \in 0..(2 * z - 1) : (\E k \in 1..(z + n) : q[k] = i) \/ tb[i] = UsedSlot(tb[i].data)
    <2> SUFFICES ASSUME NEW i \in 0..(2 * z - 1) PROVE (\E k \in 1..(z + n) : q[k] = i) \/ tb[i] = UsedSlot(tb[i].data)
      OBVIOUS
    <2>1. CASE i < z
      <3>1. i \in 0..(z - 1)
        BY <2>1
      <3>2. (\E k \in 1..n : s[k] = i) \/ t.table[i] = UsedSlot(t.table[i].data)
        BY <1>24, <1>7, <3>1 DEF IdtChain
      <3> QED
        BY <1>8, <1>15, <1>16, <3>1, <3>2
    <2>2. CASE ~(i < z)
      <3>1. i - z + 1 \in 1..z /\ z + (i - z + 1) - 1 = i
        BY <2>2
      <3> QED
        BY <1>14, <1>16, <3>1
    <2> QED
      BY <2>1, <2>2
  <1>22. r.firstFree = Link(q, z + n, 1)
    BY <1>6, <1>16 DEF Link
  <1>25. z + n \in Nat
    OBVIOUS
  <1>23. IdtChain(q, z + n, r)
    BY <1>25, <1>6, <1>7, <1>18, <1>19, <1>20, <1>21, <1>22 DEF IdtChain
  <1> QED
    BY <1>1, <1>3, <1>6, <1>11, <1>12, <1>23 DEF GoodIdt

\* The table in which slot s[k] of the list was given to e: the slot before it, or firstFree, skips it.
TookSlot(t, s, n, k, e, r) ==
  r = [table |-> [i \in IdtSlots(t) |-> IF i = s[k] THEN UsedSlot(e)
                                        ELSE IF k > 1 /\ i = s[k - 1] THEN FreeSlot(Link(s, n, k + 1))
                                        ELSE t.table[i]],
       tableSize |-> t.tableSize,
       firstFree |-> IF k = 1 THEN Link(s, n, 2) ELSE t.firstFree,
       elementCount |-> t.elementCount + 1]

WithId(ids, i, e) == [j \in DOMAIN ids \cup {i} |-> IF j = i THEN e ELSE ids[j]]

\* Taking a slot keeps the table good, and gives its id to the element.
LEMMA SlotTaken ==
  ASSUME NEW t, IdtShape(t), NEW s, NEW n, IdtChain(s, n, t), NEW k \in 1..n, NEW e, NEW r, TookSlot(t, s, n, k, e, r)
  PROVE  GoodIdt(r) /\ s[k] \notin UsedOf(t) /\ IdsOf(r) = WithId(IdsOf(t), s[k], e) /\ r.tableSize = t.tableSize
  <1>1. PICK z \in Nat \ {0} : z = t.tableSize /\ IdtSlots(t) = 0..(z - 1)
    BY DEF IdtShape, IdtSlots
  <1>2. n \in Nat /\ s \in [1..n -> 0..(z - 1)] /\ \A i, j \in 1..n : s[i] = s[j] => i = j
    BY <1>1 DEF IdtChain
  <1>3. PICK x \in 0..(z - 1) : x = s[k]
    BY <1>2
  <1>4. PICK tb : tb = [i \in 0..(z - 1) |-> IF i = x THEN UsedSlot(e) ELSE IF k > 1 /\ i = s[k - 1] THEN FreeSlot(Link(s, n, k + 1)) ELSE t.table[i]]
    OBVIOUS
  <1>5. r = [table |-> tb, tableSize |-> z, firstFree |-> IF k = 1 THEN Link(s, n, 2) ELSE t.firstFree, elementCount |-> t.elementCount + 1]
    BY <1>1, <1>3, <1>4 DEF TookSlot
  <1>6. /\ r.table = tb /\ r.tableSize = z /\ r.firstFree = (IF k = 1 THEN Link(s, n, 2) ELSE t.firstFree)
        /\ r.elementCount = t.elementCount + 1 /\ IdtSlots(r) = 0..(z - 1)
    BY <1>5 DEF IdtSlots
  <1>7. tb[x] = UsedSlot(e)
    BY <1>4
  <1>8. k > 1 => k - 1 \in 1..n /\ s[k - 1] \in 0..(z - 1) /\ s[k - 1] # x
    BY <1>2, <1>3
  <1>9. k > 1 => tb[s[k - 1]] = FreeSlot(Link(s, n, k + 1))
    BY <1>4, <1>8
  <1>10. \A i \in 0..(z - 1) : i # x /\ ~(k > 1 /\ i = s[k - 1]) => tb[i] = t.table[i]
    BY <1>4
  <1>11. \A i \in 0..(z - 1) : i \in UsedOf(t) <=> ~\E j \in 1..n : s[j] = i
    BY <1>1, FreeInChain
  <1>12. x \notin UsedOf(t)
    BY <1>3, <1>11
  <1>13. \A i : i \in UsedOf(r) <=> i \in UsedOf(t) \/ i = x
    <2>1. \A i \in 0..(z - 1) : i # x => (tb[i].isFree <=> t.table[i].isFree)
      <3> SUFFICES ASSUME NEW i \in 0..(z - 1), i # x PROVE tb[i].isFree <=> t.table[i].isFree
        OBVIOUS
      <3>1. CASE k > 1 /\ i = s[k - 1]
        <4>1. tb[i].isFree
          BY <1>9, <3>1, SlotFields
        <4>2. t.table[i].isFree
          BY <1>1, <1>8, <3>1, FreeInChain
        <4> QED
          BY <4>1, <4>2
      <3>2. CASE ~(k > 1 /\ i = s[k - 1])
        BY <1>10, <3>2
      <3> QED
        BY <3>1, <3>2
    <2>2. ~tb[x].isFree
      BY <1>7, SlotFields
    <2> QED
      BY <1>1, <1>6, <2>1, <2>2 DEF UsedOf
  <1>14. UsedOf(r) = UsedOf(t) \cup {x}
    BY <1>13
  <1>15. IdtShape(r)
    <2>1. IsFiniteSet(UsedOf(t)) /\ Cardinality(UsedOf(t)) \in Nat
      BY <1>1, UsedFinite
    <2>2. Cardinality(UsedOf(t) \cup {x}) = Cardinality(UsedOf(t)) + 1
      BY <1>12, <2>1, FS_AddElement
    <2>3. r.elementCount = Cardinality(UsedOf(r))
      BY <1>6, <1>14, <2>2 DEF IdtShape
    <2>4. tb = [i \in 0..(z - 1) |-> tb[i]]
      BY <1>4
    <2> QED
      BY <1>5, <1>6, <2>3, <2>4 DEF IdtShape
  <1>16. IdsOf(r) = WithId(IdsOf(t), x, e)
    <2>1. DOMAIN IdsOf(t) = UsedOf(t) /\ \A i \in UsedOf(t) : IdsOf(t)[i] = t.table[i].data
      BY DEF IdsOf
    <2>2. \A i \in UsedOf(t) : i \in 0..(z - 1) /\ i # x /\ ~(k > 1 /\ i = s[k - 1])
      BY <1>1, <1>8, <1>11, <1>12 DEF UsedOf
    <2>3. \A i \in UsedOf(t) : tb[i].data = IdsOf(t)[i] /\ i # x
      BY <1>10, <2>1, <2>2
    <2>4. tb[x].data = e
      BY <1>7, SlotFields
    <2>5. IdsOf(r) = [i \in UsedOf(t) \cup {x} |-> tb[i].data]
      BY <1>6, <1>14 DEF IdsOf
    <2>6. WithId(IdsOf(t), x, e) = [i \in UsedOf(t) \cup {x} |-> IF i = x THEN e ELSE IdsOf(t)[i]]
      BY <2>1 DEF WithId
    <2>7. \A i \in UsedOf(t) \cup {x} : tb[i].data = IF i = x THEN e ELSE IdsOf(t)[i]
      BY <2>3, <2>4
    <2> QED
      BY <2>5, <2>6, <2>7
  <1>17. PICK m \in Nat : m = n - 1 /\ n = m + 1
    BY <1>2
  <1>18. PICK q : q = [j \in 1..m |-> IF j < k THEN s[j] ELSE s[j + 1]]
    OBVIOUS
  <1>19. \A j \in 1..m : /\ j \in 1..n /\ j + 1 \in 1..n
                         /\ j < k => q[j] = s[j]
                         /\ ~(j < k) => q[j] = s[j + 1]
    BY <1>17, <1>18
  <1>20. q \in [1..m -> 0..(z - 1)]
    <2>1. \A j \in 1..m : q[j] \in 0..(z - 1)
      BY <1>2, <1>19
    <2> QED
      BY <1>18, <2>1
  <1>21. ASSUME NEW i \in 1..m, NEW j \in 1..m, q[i] = q[j] PROVE i = j
    <2>1. PICK a \in 1..n : a = (IF i < k THEN i ELSE i + 1) /\ q[i] = s[a]
      BY <1>19
    <2>2. PICK b \in 1..n : b = (IF j < k THEN j ELSE j + 1) /\ q[j] = s[b]
      BY <1>19
    <2>3. a = b
      BY <1>2, <1>21, <2>1, <2>2
    <2>4. (IF i < k THEN i ELSE i + 1) = (IF j < k THEN j ELSE j + 1)
      BY <2>1, <2>2, <2>3
    <2> QED
      BY <2>4
  <1>22. r.firstFree = Link(q, m, 1)
    <2>1. t.firstFree = Link(s, n, 1)
      BY DEF IdtChain
    <2>2. CASE m = 0
      <3>1. k = 1 /\ n = 1
        BY <1>17, <2>2
      <3> QED
        BY <1>6, <2>2, <3>1 DEF Link
    <2>3. CASE m # 0
      <3>1. 1 \in 1..m /\ 1 <= m /\ 2 <= n /\ 1 <= n /\ (k = 1 <=> ~(1 < k)) /\ 1 + 1 = 2
        BY <1>17, <2>3
      <3>2. q[1] = IF k = 1 THEN s[2] ELSE s[1]
        BY <1>19, <3>1
      <3> QED
        BY <1>6, <2>1, <3>1, <3>2 DEF Link
    <2> QED
      BY <2>2, <2>3
  <1>23. \A j \in 1..m : tb[q[j]] = FreeSlot(Link(q, m, j + 1))
    <2> SUFFICES ASSUME NEW j \in 1..m PROVE tb[q[j]] = FreeSlot(Link(q, m, j + 1))
      OBVIOUS
    <2>1. CASE j < k /\ k - 1 = j
      <3>1. q[j] = s[k - 1] /\ k > 1
        BY <1>19, <2>1
      <3>2. Link(q, m, j + 1) = Link(s, n, k + 1)
        <4>1. CASE j = m
          <5>1. ~(j + 1 <= m) /\ ~(k + 1 <= n)
            BY <1>17, <2>1, <4>1
          <5> QED
            BY <5>1 DEF Link
        <4>2. CASE j # m
          <5>1. j + 1 \in 1..m /\ j + 1 <= m /\ ~(j + 1 < k) /\ (j + 1) + 1 = k + 1 /\ k + 1 <= n
            BY <1>17, <2>1, <4>2
          <5>2. q[j + 1] = s[(j + 1) + 1]
            BY <1>19, <5>1
          <5> QED
            BY <5>1, <5>2 DEF Link
        <4> QED
          BY <4>1, <4>2
      <3> QED
        BY <1>9, <3>1, <3>2
    <2>2. CASE j < k /\ k - 1 # j
      <3>1. /\ j \in 1..n /\ j + 1 \in 1..m /\ j + 1 <= m /\ j + 1 <= n /\ j + 1 < k /\ j # k - 1 /\ j # k
            /\ k > 1 => k - 1 \in 1..n
        BY <1>17, <2>2
      <3>2. q[j] = s[j] /\ q[j + 1] = s[j + 1]
        BY <1>19, <2>2, <3>1
      <3>3. s[j] \in 0..(z - 1) /\ s[j] # x /\ ~(k > 1 /\ s[j] = s[k - 1])
        BY <1>2, <1>3, <3>1
      <3>4. tb[s[j]] = t.table[s[j]] /\ t.table[s[j]] = FreeSlot(Link(s, n, j + 1))
        BY <1>10, <3>1, <3>3 DEF IdtChain
      <3>5. Link(s, n, j + 1) = Link(q, m, j + 1)
        BY <3>1, <3>2 DEF Link
      <3> QED
        BY <3>2, <3>4, <3>5
    <2>3. CASE ~(j < k)
      <3>1. j + 1 \in 1..n /\ j + 1 # k /\ j + 1 # k - 1
        BY <1>17, <2>3
      <3>2. q[j] = s[j + 1]
        BY <1>19, <2>3
      <3>3. s[j + 1] \in 0..(z - 1) /\ s[j + 1] # x /\ ~(k > 1 /\ s[j + 1] = s[k - 1])
        BY <1>2, <1>3, <1>8, <3>1
      <3>4. tb[s[j + 1]] = t.table[s[j + 1]] /\ t.table[s[j + 1]] = FreeSlot(Link(s, n, (j + 1) + 1))
        BY <1>10, <3>1, <3>3 DEF IdtChain
      <3>5. Link(s, n, (j + 1) + 1) = Link(q, m, j + 1)
        <4>1. CASE j = m
          <5>1. ~(j + 1 <= m) /\ ~((j + 1) + 1 <= n)
            BY <1>17, <4>1
          <5> QED
            BY <5>1 DEF Link
        <4>2. CASE j # m
          <5>1. j + 1 \in 1..m /\ j + 1 <= m /\ ~(j + 1 < k) /\ (j + 1) + 1 <= n
            BY <1>17, <2>3, <4>2
          <5>2. q[j + 1] = s[(j + 1) + 1]
            BY <1>19, <5>1
          <5> QED
            BY <5>1, <5>2 DEF Link
        <4> QED
          BY <4>1, <4>2
      <3> QED
        BY <3>2, <3>4, <3>5
    <2> QED
      BY <2>1, <2>2, <2>3
  <1>24. \A i \in 0..(z - 1) : (\E j \in 1..m : q[j] = i) \/ tb[i] = UsedSlot(tb[i].data)
    <2> SUFFICES ASSUME NEW i \in 0..(z - 1) PROVE (\E j \in 1..m : q[j] = i) \/ tb[i] = UsedSlot(tb[i].data)
      OBVIOUS
    <2>1. CASE i = x
      BY <1>7, <2>1, SlotFields
    <2>2. CASE i # x /\ \E j \in 1..n : s[j] = i
      <3>1. PICK j \in 1..n : s[j] = i
        BY <2>2
      <3>2. j # k
        BY <1>3, <2>2, <3>1
      <3>3. CASE j < k
        <4>1. j \in 1..m
          BY <1>17, <3>3
        <4> QED
          BY <1>19, <3>1, <3>3, <4>1
      <3>4. CASE ~(j < k)
        <4>1. j - 1 \in 1..m /\ ~(j - 1 < k) /\ (j - 1) + 1 = j
          BY <1>17, <3>2, <3>4
        <4>2. q[j - 1] = s[j]
          BY <1>19, <4>1
        <4> QED
          BY <3>1, <4>1, <4>2
      <3> QED
        BY <3>3, <3>4
    <2>3. CASE i # x /\ ~\E j \in 1..n : s[j] = i
      <3>1. t.table[i] = UsedSlot(t.table[i].data)
        BY <1>1, <2>3 DEF IdtChain
      <3>2. tb[i] = t.table[i]
        BY <1>8, <1>10, <2>3
      <3> QED
        BY <3>1, <3>2
    <2> QED
      BY <2>1, <2>2, <2>3
  <1>25. IdtChain(q, m, r)
    BY <1>6, <1>20, <1>21, <1>22, <1>23, <1>24 DEF IdtChain
  <1> QED
    BY <1>1, <1>3, <1>6, <1>12, <1>15, <1>16, <1>25 DEF GoodIdt

\* The table that idt_remove leaves
GivenBack(t, x) == [t EXCEPT !.table[x] = FreeSlot(t.firstFree), !.firstFree = x, !.elementCount = @ - 1]

\* A slot that is given back comes first in the list.
LEMMA SlotGivenBack ==
  ASSUME NEW t, GoodIdt(t), NEW x \in UsedOf(t), NEW r, r = GivenBack(t, x)
  PROVE  GoodIdt(r) /\ IdsOf(r) = [j \in DOMAIN IdsOf(t) \ {x} |-> IdsOf(t)[j]] /\ x \in DOMAIN IdsOf(t) /\ r.tableSize = t.tableSize
  <1>1. PICK z \in Nat \ {0} : z = t.tableSize /\ IdtSlots(t) = 0..(z - 1)
    BY DEF GoodIdt, IdtShape, IdtSlots
  <1>2. PICK s, n : IdtChain(s, n, t)
    BY DEF GoodIdt
  <1>3. IdtChain(s, n, t) /\ n \in Nat /\ s \in [1..n -> 0..(z - 1)]
    BY <1>1, <1>2 DEF IdtChain
  <1>4. x \in 0..(z - 1)
    BY <1>1 DEF UsedOf
  <1>5. PICK tb : tb = [i \in 0..(z - 1) |-> IF i = x THEN FreeSlot(t.firstFree) ELSE t.table[i]]
    OBVIOUS
  <1>6. r = [table |-> tb, tableSize |-> z, firstFree |-> x, elementCount |-> t.elementCount - 1]
    <2>1. tb = [t.table EXCEPT ![x] = FreeSlot(t.firstFree)]
      BY <1>1, <1>5 DEF GoodIdt, IdtShape
    <2>2. r = [t EXCEPT !.table = tb, !.firstFree = x, !.elementCount = @ - 1]
      BY <2>1 DEF GoodIdt, IdtShape, GivenBack
    <2> QED
      BY <1>1, <2>2 DEF GoodIdt, IdtShape
  <1>7. /\ r.table = tb /\ r.tableSize = z /\ r.firstFree = x /\ r.elementCount = t.elementCount - 1 /\ IdtSlots(r) = 0..(z - 1)
    BY <1>6 DEF IdtSlots
  <1>8. tb[x] = FreeSlot(t.firstFree) /\ \A i \in 0..(z - 1) : i # x => tb[i] = t.table[i]
    BY <1>4, <1>5
  <1>9. \A i : i \in UsedOf(r) <=> i \in UsedOf(t) /\ i # x
    BY <1>1, <1>4, <1>7, <1>8, SlotFields DEF UsedOf
  <1>10. UsedOf(r) = UsedOf(t) \ {x}
    BY <1>9
  <1>11. IdtShape(r)
    <2>1. IsFiniteSet(UsedOf(t)) /\ Cardinality(UsedOf(t)) \in Nat
      BY <1>1, UsedFinite
    <2>2. Cardinality(UsedOf(t) \ {x}) = Cardinality(UsedOf(t)) - 1
      BY <2>1, FS_RemoveElement
    <2>3. r.elementCount = Cardinality(UsedOf(r))
      BY <1>7, <1>10, <2>2 DEF GoodIdt, IdtShape
    <2>4. tb = [i \in 0..(z - 1) |-> tb[i]]
      BY <1>5
    <2> QED
      BY <1>6, <1>7, <2>3, <2>4 DEF IdtShape
  <1>12. DOMAIN IdsOf(t) = UsedOf(t) /\ \A i \in UsedOf(t) : IdsOf(t)[i] = t.table[i].data
    BY DEF IdsOf
  <1>13. IdsOf(r) = [j \in DOMAIN IdsOf(t) \ {x} |-> IdsOf(t)[j]]
    <2>1. \A i \in UsedOf(t) \ {x} : tb[i].data = IdsOf(t)[i]
      BY <1>1, <1>8, <1>12 DEF UsedOf
    <2>2. IdsOf(r) = [i \in UsedOf(t) \ {x} |-> tb[i].data]
      BY <1>7, <1>10 DEF IdsOf
    <2> QED
      BY <1>12, <2>1, <2>2
  <1>14. \A k \in 1..n : s[k] # x
    BY <1>1, <1>3, <1>4, FreeInChain
  <1>15. PICK q : q = [k \in 1..(n + 1) |-> IF k = 1 THEN x ELSE s[k - 1]]
    OBVIOUS
  <1>16. \A k \in 1..n : k + 1 \in 1..(n + 1) /\ k + 1 # 1 /\ (k + 1) - 1 = k /\ n + 1 \in Nat
    BY <1>3
  <1>17. q[1] = x /\ \A k \in 1..n : q[k + 1] = s[k]
    <2>1. 1 \in 1..(n + 1)
      BY <1>3
    <2> QED
      BY <1>15, <1>16, <2>1
  <1>18. \A k \in 1..(n + 1) : k = 1 \/ (k - 1 \in 1..n /\ (k - 1) + 1 = k)
    BY <1>3
  <1>19. q \in [1..(n + 1) -> 0..(z - 1)]
    <2>1. \A k \in 1..(n + 1) : q[k] \in 0..(z - 1)
      BY <1>3, <1>4, <1>17, <1>18
    <2> QED
      BY <1>15, <2>1
  <1>20. ASSUME NEW i \in 1..(n + 1), NEW j \in 1..(n + 1), q[i] = q[j] PROVE i = j
    <2>1. \A k \in 1..(n + 1) : k # 1 => q[k] # x
      BY <1>14, <1>17, <1>18
    <2>3. CASE i = 1 \/ j = 1
      BY <1>17, <1>20, <2>1, <2>3
    <2>2. CASE i # 1 /\ j # 1
      <3>1. i - 1 \in 1..n /\ j - 1 \in 1..n /\ s[i - 1] = s[j - 1]
        BY <1>17, <1>18, <1>20, <2>2
      <3>2. i - 1 = j - 1
        BY <1>3, <3>1 DEF IdtChain
      <3> QED
        BY <3>2
    <2> QED
      BY <2>2, <2>3
  <1>21. \A k \in 1..n : Link(q, n + 1, (k + 1) + 1) = Link(s, n, k + 1)
    <2> SUFFICES ASSUME NEW k \in 1..n PROVE Link(q, n + 1, (k + 1) + 1) = Link(s, n, k + 1)
      OBVIOUS
    <2>1. CASE k = n
      BY <1>3, <2>1 DEF Link
    <2>2. CASE k # n
      <3>1. k + 1 \in 1..n /\ k + 1 <= n /\ (k + 1) + 1 <= n + 1
        BY <1>3, <2>2
      <3> QED
        BY <1>17, <3>1 DEF Link
    <2> QED
      BY <2>1, <2>2
  <1>22. tb[q[1]] = FreeSlot(Link(q, n + 1, 1 + 1))
    <2>1. t.firstFree = Link(s, n, 1)
      BY <1>3 DEF IdtChain
    <2>2. Link(q, n + 1, 1 + 1) = Link(s, n, 1)
      <3>1. CASE n = 0
        BY <3>1 DEF Link
      <3>2. CASE n # 0
        <4>1. 1 \in 1..n /\ 1 <= n /\ 1 + 1 <= n + 1
          BY <1>3, <3>2
        <4> QED
          BY <1>17, <4>1 DEF Link
      <3> QED
        BY <3>1, <3>2
    <2> QED
      BY <1>8, <1>17, <2>1, <2>2
  <1>23. \A k \in 1..n : tb[q[k + 1]] = FreeSlot(Link(q, n + 1, (k + 1) + 1))
    <2>1. \A k \in 1..n : s[k] \in 0..(z - 1) /\ tb[s[k]] = t.table[s[k]]
      BY <1>3, <1>8, <1>14
    <2>2. \A k \in 1..n : t.table[s[k]] = FreeSlot(Link(s, n, k + 1))
      BY <1>3 DEF IdtChain
    <2> QED
      BY <1>17, <1>21, <2>1, <2>2
  <1>24. \A k \in 1..(n + 1) : tb[q[k]] = FreeSlot(Link(q, n + 1, k + 1))
    BY <1>18, <1>22, <1>23
  <1>25. \A i \in 0..(z - 1) : (\E k \in 1..(n + 1) : q[k] = i) \/ tb[i] = UsedSlot(tb[i].data)
    <2> SUFFICES ASSUME NEW i \in 0..(z - 1) PROVE (\E k \in 1..(n + 1) : q[k] = i) \/ tb[i] = UsedSlot(tb[i].data)
      OBVIOUS
    <2>1. CASE i = x
      <3>1. 1 \in 1..(n + 1)
        BY <1>3
      <3> QED
        BY <1>17, <2>1, <3>1
    <2>2. CASE i # x
      <3>1. (\E k \in 1..n : s[k] = i) \/ t.table[i] = UsedSlot(t.table[i].data)
        BY <1>1, <1>3 DEF IdtChain
      <3> QED
        BY <1>8, <1>16, <1>17, <2>2, <3>1
    <2> QED
      BY <2>1, <2>2
  <1>26. r.firstFree = Link(q, n + 1, 1) /\ n + 1 \in Nat
    BY <1>3, <1>7, <1>17 DEF Link
  <1>27. IdtChain(q, n + 1, r)
    BY <1>7, <1>19, <1>20, <1>24, <1>25, <1>26 DEF IdtChain
  <1> QED
    BY <1>1, <1>7, <1>11, <1>12, <1>13, <1>27 DEF GoodIdt

-----------------------------------------------------------------------------
(* ID table: the calls *)

\* What the definition of Enlarging says of a function
EnlargesSo(f, t, index) ==
  f = [n \in 0 .. index + 1 |->
         IF n = 0 THEN t
         ELSE IF index < f[n - 1].tableSize THEN f[n - 1] ELSE idt_enlarge(f[n - 1])]

\* Enlarging satisfies its own definition.
LEMMA EnlargingSo == ASSUME NEW t, NEW index, \E f : EnlargesSo(f, t, index) PROVE EnlargesSo(Enlarging(t, index), t, index)
  BY DEF EnlargesSo, Enlarging

EnlargeOnce(t, index) == IF index < t.tableSize THEN t ELSE idt_enlarge(t)

\* There is such a function.
LEMMA EnlargingIs ==
  ASSUME NEW t, NEW index \in Nat
  PROVE  \E f : EnlargesSo(f, t, index)
  <1>1. PICK n \in Nat : n = index + 1
    OBVIOUS
  <1> DEFINE P(k) == \E f : DOMAIN f = 0..k /\ f[0] = t /\ \A i \in 1..k : f[i] = EnlargeOnce(f[i - 1], index)
             T == {k \in 0..n : P(k)}
  <1>2. 0 \in T
    <2>1. PICK f : f = [i \in 0..0 |-> t]
      OBVIOUS
    <2>2. DOMAIN f = 0..0 /\ f[0] = t /\ \A i \in 1..0 : f[i] = EnlargeOnce(f[i - 1], index)
      BY <2>1
    <2> QED
      BY <2>2
  <1>3. ASSUME NEW k \in 0..n, k # n, k \in T PROVE k + 1 \in T
    <2>1. PICK f : DOMAIN f = 0..k /\ f[0] = t /\ \A i \in 1..k : f[i] = EnlargeOnce(f[i - 1], index)
      BY <1>3
    <2>2. PICK h : h = [i \in 0..(k + 1) |-> IF i = k + 1 THEN EnlargeOnce(f[k], index) ELSE f[i]]
      OBVIOUS
    <2>3. DOMAIN h = 0..(k + 1) /\ h[k + 1] = EnlargeOnce(f[k], index) /\ \A i \in 0..k : h[i] = f[i]
      BY <2>2
    <2>4. \A i \in 1..k : i \in 0..k /\ i - 1 \in 0..k
      OBVIOUS
    <2>5. \A i \in 1..k : h[i] = EnlargeOnce(h[i - 1], index)
      BY <2>1, <2>3, <2>4
    <2>6. h[k + 1] = EnlargeOnce(h[(k + 1) - 1], index)
      <3>1. (k + 1) - 1 = k /\ k \in 0..k
        OBVIOUS
      <3> QED
        BY <2>3, <3>1
    <2>7. \A i \in 1..(k + 1) : i \in 1..k \/ i = k + 1
      OBVIOUS
    <2>8. \A i \in 1..(k + 1) : h[i] = EnlargeOnce(h[i - 1], index)
      BY <2>5, <2>6, <2>7
    <2>9. h[0] = t
      BY <2>1, <2>3
    <2>10. P(k + 1)
      BY <2>3, <2>8, <2>9
    <2>11. k + 1 \in 0..n
      BY <1>3
    <2> QED
      BY <2>10, <2>11
  <1>4. n \in T
    <2> HIDE DEF T
    <2>1. n \in 0..n
      OBVIOUS
    <2> QED
      BY <1>2, <1>3, <2>1, Climb
  <1>5. PICK f : DOMAIN f = 0..n /\ f[0] = t /\ \A i \in 1..n : f[i] = EnlargeOnce(f[i - 1], index)
    BY <1>4
  <1>6. PICK h : h = [i \in 0..n |-> f[i]]
    OBVIOUS
  <1>7. DOMAIN h = 0..n /\ \A i \in 0..n : h[i] = f[i]
    BY <1>6
  <1>8. \A i \in 0..n : h[i] = IF i = 0 THEN t ELSE IF index < h[i - 1].tableSize THEN h[i - 1] ELSE idt_enlarge(h[i - 1])
    <2>1. \A i \in 0..n : i = 0 \/ (i \in 1..n /\ i - 1 \in 0..n)
      OBVIOUS
    <2> QED
      BY <1>5, <1>7, <2>1 DEF EnlargeOnce
  <1>9. h = [i \in 0..n |-> IF i = 0 THEN t ELSE IF index < h[i - 1].tableSize THEN h[i - 1] ELSE idt_enlarge(h[i - 1])]
    BY <1>6, <1>8
  <1> QED
    BY <1>1, <1>9 DEF EnlargesSo

\* The table is enlarged until the index fits, and keeps its elements.
LEMMA TableFits ==
  ASSUME NEW t, GoodIdt(t), NEW index \in Nat
  PROVE  GoodIdt(EnlargedFor(t, index)) /\ IdsOf(EnlargedFor(t, index)) = IdsOf(t) /\ index < EnlargedFor(t, index).tableSize
  <1>1. PICK n \in Nat : n = index + 1
    OBVIOUS
  <1>2. PICK f : f = Enlarging(t, index) /\ EnlargesSo(f, t, index)
    BY EnlargingIs, EnlargingSo
  <1>3. f[0] = t /\ \A i \in 1..n : f[i] = EnlargeOnce(f[i - 1], index)
    <2>1. \A i \in 0..n : f[i] = IF i = 0 THEN t ELSE IF index < f[i - 1].tableSize THEN f[i - 1] ELSE idt_enlarge(f[i - 1])
      BY <1>1, <1>2 DEF EnlargesSo
    <2>2. (\A i \in 1..n : i \in 0..n /\ i # 0) /\ 0 \in 0..n
      OBVIOUS
    <2> QED
      BY <2>1, <2>2 DEF EnlargeOnce
  <1> DEFINE Fine(k) == /\ GoodIdt(f[k]) /\ IdsOf(f[k]) = IdsOf(t) /\ f[k].tableSize \in Nat
                        /\ index < f[k].tableSize \/ f[k].tableSize >= k + 1
             T == {k \in 0..n : Fine(k)}
  <1>4. 0 \in T
    BY <1>3 DEF GoodIdt, IdtShape
  <1>5. ASSUME NEW k \in 0..n, k # n, k \in T PROVE k + 1 \in T
    <2>1. k + 1 \in 1..n /\ (k + 1) - 1 = k /\ k + 1 \in 0..n
      BY <1>5
    <2>2. PICK x : x = f[k] /\ GoodIdt(x) /\ IdsOf(x) = IdsOf(t) /\ x.tableSize \in Nat \ {0} /\ (index < x.tableSize \/ x.tableSize >= k + 1)
      BY <1>5 DEF GoodIdt, IdtShape
    <2>3. f[k + 1] = EnlargeOnce(x, index)
      BY <1>3, <2>1, <2>2
    <2>4. CASE index < x.tableSize
      BY <2>1, <2>2, <2>3, <2>4 DEF EnlargeOnce
    <2>5. CASE ~(index < x.tableSize)
      <3>1. f[k + 1] = idt_enlarge(x)
        BY <2>3, <2>5 DEF EnlargeOnce
      <3>2. GoodIdt(f[k + 1]) /\ IdsOf(f[k + 1]) = IdsOf(t) /\ f[k + 1].tableSize = 2 * x.tableSize
        BY <2>2, <3>1, TableEnlarged
      <3>3. 2 * x.tableSize \in Nat /\ 2 * x.tableSize >= (k + 1) + 1
        BY <2>2, <2>5
      <3> QED
        BY <2>1, <3>2, <3>3
    <2> QED
      BY <2>4, <2>5
  <1>6. n \in T
    <2> HIDE DEF T
    <2>1. n \in 0..n
      OBVIOUS
    <2> QED
      BY <1>4, <1>5, <2>1, Climb
  <1>7. GoodIdt(f[n]) /\ IdsOf(f[n]) = IdsOf(t) /\ f[n].tableSize \in Nat /\ (index < f[n].tableSize \/ f[n].tableSize >= n + 1)
    BY <1>6
  <1>8. index < f[n].tableSize
    BY <1>1, <1>7
  <1> QED
    BY <1>1, <1>2, <1>7, <1>8 DEF EnlargedFor

\* The table that idt_add leaves
TakeFirst(t, e) ==
  [t EXCEPT !.firstFree = t.table[t.firstFree].data, !.table[t.firstFree] = UsedSlot(e), !.elementCount = @ + 1]

\* idt_add takes the first slot of the list, after an enlargement if there is none.
LEMMA AddGoes ==
  ASSUME NEW t, GoodIdt(t), t.firstFree # -1, NEW e, NEW r, r = TakeFirst(t, e)
  PROVE  \E s, n : IdtChain(s, n, t) /\ 1 \in 1..n /\ s[1] = t.firstFree /\ TookSlot(t, s, n, 1, e, r)
  <1>1. PICK s, n : IdtChain(s, n, t)
    BY DEF GoodIdt
  <1>2. n \in Nat /\ t.firstFree = Link(s, n, 1)
    BY <1>1 DEF IdtChain
  <1>3. 1 \in 1..n /\ 1 <= n
    BY <1>2 DEF Link
  <1>4. s[1] = t.firstFree /\ s[1] \in IdtSlots(t) /\ t.table[s[1]] = FreeSlot(Link(s, n, 1 + 1)) /\ t.table[s[1]].data = Link(s, n, 2)
    <2>1. s[1] = t.firstFree
      BY <1>2, <1>3 DEF Link
    <2>2. s[1] \in IdtSlots(t) /\ t.table[s[1]] = FreeSlot(Link(s, n, 1 + 1))
      BY <1>1, <1>3 DEF IdtChain
    <2>3. 1 + 1 = 2
      OBVIOUS
    <2> QED
      BY <2>1, <2>2, <2>3, SlotFields
  <1>5. PICK tb : tb = [t.table EXCEPT ![s[1]] = UsedSlot(e)]
    OBVIOUS
  <1>6. r = [table |-> tb, tableSize |-> t.tableSize, firstFree |-> Link(s, n, 2), elementCount |-> t.elementCount + 1]
    BY <1>4, <1>5 DEF GoodIdt, IdtShape, TakeFirst
  <1>7. tb = [i \in IdtSlots(t) |-> IF i = s[1] THEN UsedSlot(e) ELSE IF 1 > 1 /\ i = s[1 - 1] THEN FreeSlot(Link(s, n, 1 + 1)) ELSE t.table[i]]
    <2>1. ~(1 > 1)
      OBVIOUS
    <2> QED
      BY <1>4, <1>5, <2>1 DEF GoodIdt, IdtShape
  <1>8. TookSlot(t, s, n, 1, e, r)
    BY <1>6, <1>7 DEF TookSlot
  <1> QED
    BY <1>1, <1>3, <1>4, <1>8

\* Setting the link of a free slot
LEMMA SlotRelinked == ASSUME NEW x, NEW v PROVE [FreeSlot(x) EXCEPT !.data = v] = FreeSlot(v)
  <1>1. PICK b : b = TRUE
    OBVIOUS
  <1>2. PICK y : y = [isFree |-> b, data |-> x]
    OBVIOUS
  <1>3. [y EXCEPT !.data = v] = [isFree |-> b, data |-> v]
    <2> HIDE <1>1
    <2> QED
      BY <1>2
  <1> QED
    BY <1>1, <1>2, <1>3, Zenon DEF FreeSlot

\* What idt_putElementAt does to a table that the index fits
PutInto(t, index, e) ==
  LET prev == {i \in 0 .. t.tableSize - 1 : t.table[i].isFree /\ t.table[i].data = index}
      put == [t EXCEPT !.table[index] = UsedSlot(e), !.elementCount = @ + 1]
  IN IF t.firstFree = index THEN [put EXCEPT !.firstFree = t.table[index].data]
     ELSE IF prev = {} THEN t
     ELSE [put EXCEPT !.table[CHOOSE i \in prev : TRUE].data = t.table[index].data]

\* A slot is put into: it leaves the list from where it is, or is in use and stays as it is.
LEMMA PutGoes ==
  ASSUME NEW t, GoodIdt(t), NEW index \in IdtSlots(t), NEW e, NEW r, r = PutInto(t, index, e)
  PROVE  \/ r = t
         \/ \E s, n : \E k \in 1..n : IdtChain(s, n, t) /\ s[k] = index /\ TookSlot(t, s, n, k, e, r)
  <1>1. PICK s, n : IdtChain(s, n, t)
    BY DEF GoodIdt
  <1>2. PICK z \in Nat \ {0} : z = t.tableSize /\ IdtSlots(t) = 0..(z - 1)
    BY DEF GoodIdt, IdtShape, IdtSlots
  <1>3. n \in Nat /\ s \in [1..n -> 0..(z - 1)] /\ t.firstFree = Link(s, n, 1) /\ \A j, k \in 1..n : s[j] = s[k] => j = k
    BY <1>1, <1>2 DEF IdtChain
  <1>4. \A k \in 1..n : t.table[s[k]] = FreeSlot(Link(s, n, k + 1)) /\ t.table[s[k]].data = Link(s, n, k + 1) /\ t.table[s[k]].isFree
    BY <1>1, SlotFields DEF IdtChain
  <1>5. index \in 0..(z - 1) /\ index # -1
    BY <1>2
  <1>6. PICK put : put = [t EXCEPT !.table[index] = UsedSlot(e), !.elementCount = @ + 1]
    OBVIOUS
  <1>7. PICK tb : tb = [t.table EXCEPT ![index] = UsedSlot(e)]
    OBVIOUS
  <1>8. put = [table |-> tb, tableSize |-> t.tableSize, firstFree |-> t.firstFree, elementCount |-> t.elementCount + 1]
    BY <1>6, <1>7 DEF GoodIdt, IdtShape
  <1>9. tb = [i \in 0..(z - 1) |-> IF i = index THEN UsedSlot(e) ELSE t.table[i]]
    BY <1>2, <1>7 DEF GoodIdt, IdtShape
  <1>10. PICK prev : prev = {i \in 0..(z - 1) : t.table[i].isFree /\ t.table[i].data = index}
    OBVIOUS
  <1>11. CASE t.firstFree = index
    <2>1. r = [put EXCEPT !.firstFree = t.table[index].data]
      BY <1>6, <1>11 DEF PutInto
    <2>2. 1 \in 1..n /\ s[1] = index
      BY <1>3, <1>5, <1>11 DEF Link
    <2>3. t.table[index].data = Link(s, n, 1 + 1) /\ 1 + 1 = 2 /\ ~(1 > 1)
      BY <1>4, <2>2
    <2>4. r = [table |-> tb, tableSize |-> t.tableSize, firstFree |-> Link(s, n, 2), elementCount |-> t.elementCount + 1]
      BY <1>8, <2>1, <2>3
    <2>5. TookSlot(t, s, n, 1, e, r)
      BY <1>2, <1>9, <2>2, <2>3, <2>4 DEF TookSlot
    <2> QED
      BY <1>1, <2>2, <2>5
  <1>12. CASE t.firstFree # index /\ prev = {}
    BY <1>2, <1>10, <1>12 DEF PutInto
  <1>13. CASE t.firstFree # index /\ prev # {}
    <2>1. PICK p : p = CHOOSE i \in prev : TRUE
      OBVIOUS
    <2>2. p \in prev
      BY <1>13, <2>1
    <2>3. p \in 0..(z - 1) /\ t.table[p].isFree /\ t.table[p].data = index
      BY <1>10, <2>2
    <2>4. PICK j \in 1..n : s[j] = p
      BY <1>1, <1>2, <2>3, FreeInChain
    <2>5. Link(s, n, j + 1) = index
      BY <1>4, <2>3, <2>4
    <2>6. j + 1 \in 1..n /\ s[j + 1] = index
      BY <1>3, <1>5, <2>5 DEF Link
    <2>7. PICK k \in 1..n : k = j + 1 /\ k - 1 = j /\ k > 1 /\ k # 1
      BY <1>3, <2>6
    <2>8. p # index
      BY <1>3, <2>4, <2>6, <2>7
    <2>9. t.table[index].data = Link(s, n, k + 1)
      BY <1>4, <2>6, <2>7
    <2>10. r = [put EXCEPT !.table[p].data = Link(s, n, k + 1)]
      BY <1>2, <1>6, <1>10, <1>13, <2>1, <2>9 DEF PutInto
    <2>11. tb[p] = FreeSlot(index)
      BY <1>4, <1>9, <2>3, <2>4, <2>5, <2>8
    <2>12. PICK sl : sl = [tb[p] EXCEPT !.data = Link(s, n, k + 1)] /\ sl = FreeSlot(Link(s, n, k + 1))
      <3>1. [tb[p] EXCEPT !.data = Link(s, n, k + 1)] = FreeSlot(Link(s, n, k + 1))
        BY <2>11, SlotRelinked
      <3> QED
        BY <3>1
    <2>13. PICK tc : tc = [tb EXCEPT ![p] = sl]
      OBVIOUS
    <2>14. r = [table |-> tc, tableSize |-> t.tableSize, firstFree |-> t.firstFree, elementCount |-> t.elementCount + 1]
      BY <1>8, <2>10, <2>12, <2>13
    <2>15. tc = [i \in 0..(z - 1) |-> IF i = s[k] THEN UsedSlot(e) ELSE IF k > 1 /\ i = s[k - 1] THEN FreeSlot(Link(s, n, k + 1)) ELSE t.table[i]]
      <3>1. s[k] = index /\ s[k - 1] = p
        BY <2>4, <2>6, <2>7
      <3> QED
        BY <1>9, <2>3, <2>7, <2>8, <2>12, <2>13, <3>1
    <2>16. TookSlot(t, s, n, k, e, r)
      BY <1>2, <2>7, <2>14, <2>15 DEF TookSlot
    <2> QED
      BY <1>1, <2>6, <2>7, <2>16
  <1> QED
    BY <1>11, <1>12, <1>13

-----------------------------------------------------------------------------
(* ID table: the steps *)

\* The domain of a table's elements
LEMMA IdsDomain == \A t : DOMAIN IdsOf(t) = UsedOf(t)
  BY DEF IdsOf

\* idt_putElementAt adds the element under the index, or adds nothing.
LEMMA PutAtGoes ==
  ASSUME NEW t0, GoodIdt(t0), NEW index \in Nat, NEW e, NEW r, r = PutAt(t0, index, e)
  PROVE  /\ GoodIdt(r) /\ r.tableSize = EnlargedFor(t0, index).tableSize
         /\ \/ IdsOf(r) = IdsOf(t0)
            \/ index \notin DOMAIN IdsOf(t0) /\ IdsOf(r) = WithId(IdsOf(t0), index, e)
  <1>1. PICK t : t = EnlargedFor(t0, index)
    OBVIOUS
  <1>2. GoodIdt(t) /\ IdsOf(t) = IdsOf(t0) /\ index < t.tableSize
    BY <1>1, TableFits
  <1>3. r = PutInto(t, index, e)
    BY <1>1 DEF PutAt, PutInto
  <1>4. index \in IdtSlots(t)
    <2>1. t.tableSize \in Nat
      BY <1>2 DEF GoodIdt, IdtShape
    <2> QED
      BY <1>2, <2>1 DEF IdtSlots
  <1>5. \/ r = t
        \/ \E s, n : \E k \in 1..n : IdtChain(s, n, t) /\ s[k] = index /\ TookSlot(t, s, n, k, e, r)
    BY <1>2, <1>3, <1>4, PutGoes
  <1>6. CASE r = t
    BY <1>1, <1>2, <1>6
  <1>7. ASSUME NEW s, NEW n, NEW k \in 1..n, IdtChain(s, n, t), s[k] = index, TookSlot(t, s, n, k, e, r)
        PROVE  /\ GoodIdt(r) /\ r.tableSize = EnlargedFor(t0, index).tableSize
               /\ index \notin DOMAIN IdsOf(t0) /\ IdsOf(r) = WithId(IdsOf(t0), index, e)
    <2>1. IdtShape(t)
      BY <1>2 DEF GoodIdt
    <2>2. GoodIdt(r) /\ index \notin UsedOf(t) /\ IdsOf(r) = WithId(IdsOf(t), index, e) /\ r.tableSize = t.tableSize
      BY <1>7, <2>1, SlotTaken
    <2> QED
      BY <1>1, <1>2, <2>2, IdsDomain
  <1> QED
    BY <1>5, <1>6, <1>7

\* The table is sound, and within its bound.
IdtInv == GoodIdt(idt) /\ idt.tableSize <= IdtMaxIndex + 1

\* The elements of the abstract map are those of the table.
LEMMA IdsAre == IdtInv => IdtIds = IdsOf(idt)
  <1> SUFFICES ASSUME IdtInv PROVE IdtIds = IdsOf(idt)
    OBVIOUS
  <1>1. DOMAIN idt.table = IdtSlots(idt)
    BY DEF IdtInv, GoodIdt, IdtShape
  <1> QED
    BY <1>1 DEF IdtIds, IdsOf, UsedOf

\* A function on no argument
LEMMA NoArguments == ASSUME NEW t, UsedOf(t) = {} PROVE IdsOf(t) = << >>
  BY DEF IdsOf

\* A slot in use has an index of the abstract map.
LEMMA SlotBound == ASSUME NEW t, t.tableSize \in Nat, t.tableSize <= IdtMaxIndex + 1, NEW i \in IdtSlots(t) PROVE i \in 0..IdtMaxIndex
  BY IdtAssumption DEF IdtSlots

\* The first table
LEMMA IdtInitInv == IdtInit => IdtInv /\ IdtIds = << >>
  <1> SUFFICES ASSUME IdtInit PROVE IdtInv /\ IdtIds = << >>
    OBVIOUS
  <1>1. idt = idt_create(IdtInitialCount) /\ IdtInitialCount \in Nat \ {0} /\ IdtInitialCount <= IdtMaxIndex + 1
    BY IdtAssumption DEF IdtInit
  <1>2. GoodIdt(idt) /\ UsedOf(idt) = {} /\ idt.tableSize = IdtInitialCount
    BY <1>1, TableCreated
  <1>3. IdtInv
    BY <1>1, <1>2 DEF IdtInv
  <1> QED
    BY <1>2, <1>3, IdsAre, NoArguments

\* An addition
LEMMA IdtAddStep ==
  ASSUME IdtInv, NEW e \in IdtElement, idt_add(e)
  PROVE  IdtInv' /\ \E i \in 0..IdtMaxIndex : i \notin DOMAIN IdsOf(idt) /\ IdsOf(idt') = WithId(IdsOf(idt), i, e)
  <1>1. PICK t : t = IF idt.firstFree = -1 THEN idt_enlarge(idt) ELSE idt
    OBVIOUS
  <1>2. PICK r : r = idt'
    OBVIOUS
  <1>3. r = TakeFirst(t, e)
    BY <1>1, <1>2 DEF idt_add, TakeFirst
  <1>4. GoodIdt(t) /\ t.firstFree # -1 /\ IdsOf(t) = IdsOf(idt) /\ t.tableSize <= IdtMaxIndex + 1
    <2>1. CASE idt.firstFree = -1
      <3>1. t = idt_enlarge(idt) /\ 2 * idt.tableSize <= IdtMaxIndex + 1
        BY <1>1, <2>1 DEF idt_add
      <3> QED
        BY <3>1, TableEnlarged DEF IdtInv
    <2>2. CASE idt.firstFree # -1
      BY <1>1, <2>2 DEF IdtInv
    <2> QED
      BY <2>1, <2>2
  <1>5. PICK s, n : IdtChain(s, n, t) /\ 1 \in 1..n /\ s[1] = t.firstFree /\ TookSlot(t, s, n, 1, e, r)
    BY <1>3, <1>4, AddGoes
  <1>6. IdtShape(t) /\ t.tableSize \in Nat
    BY <1>4 DEF GoodIdt, IdtShape
  <1>7. GoodIdt(r) /\ s[1] \notin UsedOf(t) /\ IdsOf(r) = WithId(IdsOf(t), s[1], e) /\ r.tableSize = t.tableSize
    BY <1>5, <1>6, SlotTaken
  <1>8. s[1] \in 0..IdtMaxIndex
    <2>1. s[1] \in IdtSlots(t)
      BY <1>5 DEF IdtChain
    <2> QED
      BY <1>4, <1>6, <2>1, SlotBound
  <1>9. IdtInv'
    BY <1>2, <1>4, <1>7 DEF IdtInv
  <1> QED
    BY <1>2, <1>4, <1>7, <1>8, <1>9, IdsDomain

\* A removal
LEMMA IdtRemoveStep ==
  ASSUME IdtInv, NEW index \in 0..IdtMaxIndex, idt_remove(index), idt' # idt
  PROVE  IdtInv' /\ \E i \in DOMAIN IdsOf(idt) : IdsOf(idt') = [j \in DOMAIN IdsOf(idt) \ {i} |-> IdsOf(idt)[j]]
  <1>1. PICK t, r : t = idt /\ r = idt'
    OBVIOUS
  <1>2. GoodIdt(t) /\ t.tableSize \in Nat /\ t.tableSize <= IdtMaxIndex + 1
    BY <1>1 DEF IdtInv, GoodIdt, IdtShape
  <1>3. index \in UsedOf(t)
    <2>1. index < t.tableSize /\ ~t.table[index].isFree
      BY <1>1 DEF idt_remove, idt_isElementAllocated
    <2>2. index \in IdtSlots(t)
      BY <1>2, <2>1, IdtAssumption DEF IdtSlots
    <2> QED
      BY <2>1, <2>2 DEF UsedOf
  <1>4. r = GivenBack(t, index)
    BY <1>1 DEF idt_remove, GivenBack, Stops
  <1>5. GoodIdt(r) /\ IdsOf(r) = [j \in DOMAIN IdsOf(t) \ {index} |-> IdsOf(t)[j]] /\ index \in DOMAIN IdsOf(t) /\ r.tableSize = t.tableSize
    BY <1>2, <1>3, <1>4, SlotGivenBack
  <1>6. IdtInv'
    BY <1>1, <1>2, <1>5 DEF IdtInv
  <1> QED
    BY <1>1, <1>5, <1>6

\* A put
LEMMA IdtPutStep ==
  ASSUME IdtInv, NEW index \in 0..IdtMaxIndex, NEW e \in IdtElement, idt_putElementAt(index, e), idt' # idt
  PROVE  IdtInv' /\ \/ IdsOf(idt') = IdsOf(idt)
                    \/ index \notin DOMAIN IdsOf(idt) /\ IdsOf(idt') = WithId(IdsOf(idt), index, e)
  <1>1. PICK t, r : t = idt /\ r = idt'
    OBVIOUS
  <1>2. GoodIdt(t) /\ index \in Nat /\ r = PutAt(t, index, e) /\ EnlargedFor(t, index).tableSize <= IdtMaxIndex + 1
    BY <1>1, IdtAssumption DEF IdtInv, idt_putElementAt, Stops
  <1>3. /\ GoodIdt(r) /\ r.tableSize = EnlargedFor(t, index).tableSize
        /\ IdsOf(r) = IdsOf(t) \/ (index \notin DOMAIN IdsOf(t) /\ IdsOf(r) = WithId(IdsOf(t), index, e))
    BY <1>2, PutAtGoes
  <1>4. IdtInv'
    BY <1>1, <1>2, <1>3 DEF IdtInv
  <1> QED
    BY <1>1, <1>3, <1>4

\* A load into a new table
LEMMA IdtLoadStep ==
  ASSUME IdtInv, NEW cookie, NEW count \in 0..IdtMaxLoaded, idt_load(cookie, count), idt' # idt
  PROVE  IdtInv' /\ IdsOf(idt') = IdsOf(idt)
  <1>1. PICK t, r : t = idt /\ r = idt'
    OBVIOUS
  <1>2. GoodIdt(t) /\ t.elementCount = 0 /\ t.tableSize \in Nat /\ t.elementCount = Cardinality(UsedOf(t))
    BY <1>1 DEF IdtInv, idt_load, GoodIdt, IdtShape
  <1>3. UsedOf(t) = {}
    <2>1. IsFiniteSet(UsedOf(t)) /\ Cardinality(UsedOf(t)) = 0
      BY <1>2, UsedFinite
    <2> QED
      BY <2>1, FS_EmptySet
  <1>4. r = idt_create(2 * count) /\ 2 * count \in Nat \ {0} /\ 2 * count <= IdtMaxIndex + 1
    <2>1. idt' = idt_create(2 * count) /\ count > 0
      BY DEF idt_load, Stops
    <2> QED
      BY <1>1, <2>1, IdtAssumption
  <1>5. GoodIdt(r) /\ UsedOf(r) = {} /\ r.tableSize = 2 * count
    BY <1>4, TableCreated
  <1>6. IdtInv'
    BY <1>1, <1>4, <1>5 DEF IdtInv
  <1> QED
    BY <1>1, <1>3, <1>5, <1>6, NoArguments

\* Every step keeps the invariant and is one of the abstract map.
LEMMA IdtStep == IdtInv /\ [IdtNext]_idtVars => IdtInv' /\ [IM!AddId \/ IM!RemoveId]_IdtIds
  <1> SUFFICES ASSUME IdtInv, [IdtNext]_idtVars PROVE IdtInv' /\ [IM!AddId \/ IM!RemoveId]_IdtIds
    OBVIOUS
  <1>1. PICK old : old = IdsOf(idt) /\ IdtIds = old
    BY IdsAre
  <1>2. IdtInv' => IdtIds' = IdsOf(idt')
    <2>1. PICK t : t = idt'
      OBVIOUS
    <2>2. IdtInv' => DOMAIN t.table = IdtSlots(t)
      BY <2>1 DEF IdtInv, GoodIdt, IdtShape
    <2>3. DOMAIN t.table = IdtSlots(t) => [i \in {j \in DOMAIN t.table : ~t.table[j].isFree} |-> t.table[i].data] = IdsOf(t)
      BY DEF IdsOf, UsedOf
    <2> QED
      BY <2>1, <2>2, <2>3 DEF IdtIds
  <1>3. ASSUME NEW i \in 0..IdtMaxIndex, NEW e \in IdtElement, i \notin DOMAIN old, IdtIds' = WithId(old, i, e) PROVE IM!AddId
    BY <1>1, <1>3 DEF IM!AddId, WithId
  <1>4. ASSUME NEW i \in DOMAIN old, IdtIds' = [j \in DOMAIN old \ {i} |-> old[j]] PROVE IM!RemoveId
    BY <1>1, <1>4 DEF IM!RemoveId
  <1>5. CASE \E e \in IdtElement : idt_add(e)
    <2>1. PICK e \in IdtElement : idt_add(e)
      BY <1>5
    <2>2. IdtInv' /\ \E i \in 0..IdtMaxIndex : i \notin DOMAIN old /\ IdsOf(idt') = WithId(old, i, e)
      BY <1>1, <2>1, IdtAddStep
    <2> QED
      BY <1>2, <1>3, <2>2
  <1>6. CASE idt' # idt /\ \E index \in 0..IdtMaxIndex : idt_remove(index)
    <2>1. IdtInv' /\ \E i \in DOMAIN old : IdsOf(idt') = [j \in DOMAIN old \ {i} |-> old[j]]
      BY <1>1, <1>6, IdtRemoveStep
    <2> QED
      BY <1>2, <1>4, <2>1
  <1>7. CASE idt' # idt /\ \E index \in 0..IdtMaxIndex, e \in IdtElement : idt_putElementAt(index, e)
    <2>1. PICK index \in 0..IdtMaxIndex, e \in IdtElement : idt_putElementAt(index, e)
      BY <1>7
    <2>2. IdtInv' /\ (IdsOf(idt') = old \/ (index \notin DOMAIN old /\ IdsOf(idt') = WithId(old, index, e)))
      BY <1>1, <1>7, <2>1, IdtPutStep
    <2> QED
      BY <1>1, <1>2, <1>3, <2>2
  <1>8. CASE idt' # idt /\ \E cookie : \E count \in 0..IdtMaxLoaded : idt_load(cookie, count)
    <2>1. IdtInv' /\ IdsOf(idt') = old
      BY <1>1, <1>8, IdtLoadStep
    <2> QED
      BY <1>1, <1>2, <2>1
  <1>9. CASE idt' = idt
    BY <1>9 DEF IdtInv, IdtIds
  <1> QED
    BY <1>5, <1>6, <1>7, <1>8, <1>9 DEF IdtNext, idtVars, idt_save, idt_load2, ReadElement, Stops

\* A library step is a step of the ID table, or leaves it alone.
LEMMA IdtSteps == [Next]_libraryVars => [IdtNext]_idtVars
  BY DEF Next, libraryVars, idtVars

\* The invariant of the ID table holds in every state of the library.
LEMMA IdtInvariance == Spec => []IdtInv
  <1>1. Init => IdtInv
    BY IdtInitInv DEF Init
  <1>2. IdtInv /\ [Next]_libraryVars => IdtInv'
    BY IdtStep, IdtSteps
  <1> QED
    BY <1>1, <1>2, PTL DEF Spec

\* idTable.c implements a map from ids to elements, with pointers of four or eight bytes: an element keeps its id
\* through enlargements and loads, and an id in use is not given away, whatever the order of additions, removals and
\* puts, as long as no assertion fails and no value is read from outside the slots.
THEOREM IdtImplements == Spec => IdtImplementsIdMap
  <1>1. Init => IdtIds = << >>
    BY IdtInitInv DEF Init
  <1>2. IdtInv /\ [Next]_libraryVars => [IM!AddId \/ IM!RemoveId]_IdtIds
    BY IdtStep, IdtSteps
  <1> QED
    BY <1>1, <1>2, IdtInvariance, PTL DEF Spec, IdtImplementsIdMap, IM!IdMap

-----------------------------------------------------------------------------
(* ID table: the walk along the free list *)

\* What the definition of IdtFreeList says of a function
ListSo(f, t) ==
  f = [n \in 0..t.tableSize |-> IF n = 0 THEN t.firstFree ELSE IF f[n - 1] = -1 THEN -1 ELSE t.table[f[n - 1]].data]

\* The definition names such a function if there is one.
LEMMA FreeListSo == ASSUME \E f : ListSo(f, idt) PROVE ListSo(IdtFreeList, idt)
  BY DEF ListSo, IdtFreeList

\* One link of the walk
LEMMA OneLink ==
  ASSUME NEW t, NEW s, NEW n, IdtChain(s, n, t), NEW k \in Nat \ {0}
  PROVE  Link(s, n, k + 1) = IF Link(s, n, k) = -1 THEN -1 ELSE t.table[Link(s, n, k)].data
  <1>1. n \in Nat
    BY DEF IdtChain
  <1>2. CASE k <= n
    <2>1. k \in 1..n
      BY <1>1, <1>2
    <2>2. Link(s, n, k) = s[k] /\ s[k] \in IdtSlots(t) /\ t.table[s[k]] = FreeSlot(Link(s, n, k + 1))
      BY <1>2, <2>1 DEF Link, IdtChain
    <2>3. s[k] # -1
      BY <2>2 DEF IdtSlots
    <2> QED
      BY <2>2, <2>3, SlotFields
  <1>3. CASE ~(k <= n)
    <2>1. ~(k + 1 <= n)
      BY <1>1, <1>3
    <2> QED
      BY <1>3, <2>1 DEF Link
  <1> QED
    BY <1>2, <1>3

\* The walk meets the slots of the list in order, and then its end.
LEMMA WalkMeets ==
  ASSUME NEW s, NEW n, IdtChain(s, n, idt), idt.tableSize \in Nat
  PROVE  DOMAIN IdtFreeList = 0..idt.tableSize /\ \A k \in 0..idt.tableSize : IdtFreeList[k] = Link(s, n, k + 1)
  <1>11. PICK t : t = idt
    OBVIOUS
  <1>1. PICK z \in Nat : t = idt /\ z = t.tableSize
    BY <1>11
  <1>2. IdtChain(s, n, t) /\ t.firstFree = Link(s, n, 1)
    BY <1>1 DEF IdtChain
  <1>3. PICK f : f = [k \in 0..z |-> Link(s, n, k + 1)]
    OBVIOUS
  <1>4. \A k \in 0..z : f[k] = IF k = 0 THEN t.firstFree ELSE IF f[k - 1] = -1 THEN -1 ELSE t.table[f[k - 1]].data
    <2> SUFFICES ASSUME NEW k \in 0..z PROVE f[k] = IF k = 0 THEN t.firstFree ELSE IF f[k - 1] = -1 THEN -1 ELSE t.table[f[k - 1]].data
      OBVIOUS
    <2>1. CASE k = 0
      <3>1. f[0] = Link(s, n, 1)
        BY <1>3
      <3> QED
        BY <1>2, <2>1, <3>1
    <2>2. CASE k # 0
      <3>1. k \in Nat \ {0} /\ k - 1 \in 0..z /\ (k - 1) + 1 = k
        BY <2>2
      <3>2. f[k] = Link(s, n, k + 1) /\ f[k - 1] = Link(s, n, k)
        BY <1>3, <3>1
      <3> QED
        BY <1>2, <2>2, <3>1, <3>2, OneLink
    <2> QED
      BY <2>1, <2>2
  <1>5. ListSo(f, idt)
    <2>1. f = [k \in 0..z |-> IF k = 0 THEN t.firstFree ELSE IF f[k - 1] = -1 THEN -1 ELSE t.table[f[k - 1]].data]
      BY <1>3, <1>4
    <2> QED
      BY <1>1, <2>1 DEF ListSo
  <1>6. PICK w : w = IdtFreeList /\ ListSo(w, idt)
    BY <1>5, FreeListSo
  <1>7. /\ DOMAIN w = 0..z
        /\ \A k \in 0..z : w[k] = IF k = 0 THEN t.firstFree ELSE IF w[k - 1] = -1 THEN -1 ELSE t.table[w[k - 1]].data
    <2>1. w = [k \in 0..z |-> IF k = 0 THEN t.firstFree ELSE IF w[k - 1] = -1 THEN -1 ELSE t.table[w[k - 1]].data]
      BY <1>1, <1>6 DEF ListSo
    <2>2. DOMAIN w = 0..z
      BY <2>1
    <2> QED
      BY <2>1, <2>2
  <1> DEFINE T == {k \in 0..z : w[k] = Link(s, n, k + 1)}
  <1>8. 0 \in T
    <2>1. 0 \in 0..z /\ w[0] = t.firstFree /\ 0 + 1 = 1
      BY <1>7
    <2> QED
      BY <1>2, <2>1
  <1>9. ASSUME NEW k \in 0..z, k # z, k \in T PROVE k + 1 \in T
    <2>1. k + 1 \in 0..z /\ (k + 1) - 1 = k /\ k + 1 # 0 /\ k + 1 \in Nat \ {0}
      BY <1>9
    <2>2. w[k + 1] = IF w[k] = -1 THEN -1 ELSE t.table[w[k]].data
      BY <1>7, <2>1
    <2>3. w[k] = Link(s, n, k + 1)
      BY <1>9
    <2>4. Link(s, n, (k + 1) + 1) = IF Link(s, n, k + 1) = -1 THEN -1 ELSE t.table[Link(s, n, k + 1)].data
      BY <1>2, <2>1, OneLink
    <2> QED
      BY <2>1, <2>2, <2>3, <2>4
  <1>10. \A k \in 0..z : k \in T
    <2> HIDE DEF T
    <2> QED
      BY <1>8, <1>9, Climb
  <1> QED
    BY <1>1, <1>6, <1>7, <1>10

\* The list threaded through the slots of the ID table ends, holds the free slots, all of them and each once, and the
\* slots in use are counted, for every size of the first table and of the files that are loaded, with pointers of four
\* or eight bytes; as long as no assertion fails and no value is read from outside the slots.
THEOREM IdtFreeListStaysSound == Spec => []IdtFreeListSound
  <1>1. IdtInv => IdtFreeListSound
    <2> SUFFICES ASSUME IdtInv PROVE IdtFreeListSound
      OBVIOUS
    <2>1. PICK z \in Nat \ {0} : z = idt.tableSize /\ IdtSlots(idt) = 0..(z - 1)
      BY DEF IdtInv, GoodIdt, IdtShape, IdtSlots
    <2>2. PICK s, n : IdtChain(s, n, idt)
      BY DEF IdtInv, GoodIdt
    <2>3. n \in Nat /\ s \in [1..n -> 0..(z - 1)] /\ n <= z
      BY <2>1, <2>2, IdtChainBound DEF IdtChain
    <2>4. DOMAIN idt.table = 0..(z - 1) /\ idt.elementCount = Cardinality(UsedOf(idt))
      BY <2>1 DEF IdtInv, GoodIdt, IdtShape
    <2>5. Cardinality({i \in DOMAIN idt.table : ~idt.table[i].isFree}) = idt.elementCount
      BY <2>1, <2>4 DEF UsedOf
    <2>6. PICK w : w = IdtFreeList /\ DOMAIN w = 0..z /\ \A k \in 0..z : w[k] = Link(s, n, k + 1)
      BY <2>1, <2>2, WalkMeets
    <2>7. w[z] = -1
      <3>1. z \in 0..z /\ ~(z + 1 <= n)
        BY <2>3
      <3> QED
        BY <2>6, <3>1 DEF Link
    <2>8. \A x : x \in Range(w) \ {-1} <=> x \in {i \in 0..(z - 1) : idt.table[i].isFree}
      <3> SUFFICES ASSUME NEW x PROVE x \in Range(w) \ {-1} <=> x \in {i \in 0..(z - 1) : idt.table[i].isFree}
        OBVIOUS
      <3>1. ASSUME x \in Range(w) \ {-1} PROVE x \in {i \in 0..(z - 1) : idt.table[i].isFree}
        <4>1. PICK k \in 0..z : x = w[k]
          BY <2>6, <3>1 DEF Range
        <4>2. x = Link(s, n, k + 1) /\ x # -1
          BY <2>6, <3>1, <4>1
        <4>3. k + 1 <= n /\ x = s[k + 1]
          BY <4>2 DEF Link
        <4>4. k + 1 \in 1..n
          BY <2>3, <4>3
        <4>5. x \in 0..(z - 1)
          BY <2>3, <4>3, <4>4
        <4> QED
          BY <2>1, <2>2, <4>3, <4>4, <4>5, FreeInChain
      <3>2. ASSUME x \in 0..(z - 1), idt.table[x].isFree PROVE x \in Range(w) \ {-1}
        <4>1. PICK k \in 1..n : s[k] = x
          BY <2>1, <2>2, <3>2, FreeInChain
        <4>2. k - 1 \in 0..z /\ (k - 1) + 1 = k /\ k <= n
          BY <2>3
        <4>3. w[k - 1] = x
          BY <2>6, <4>1, <4>2 DEF Link
        <4>4. x # -1
          BY <3>2
        <4> QED
          BY <2>6, <4>2, <4>3, <4>4 DEF Range
      <3> QED
        BY <3>1, <3>2
    <2>9. Range(IdtFreeList) \ {-1} = {i \in DOMAIN idt.table : idt.table[i].isFree}
      BY <2>4, <2>6, <2>8
    <2> QED
      BY <2>1, <2>5, <2>6, <2>7, <2>9 DEF IdtFreeListSound
  <1> QED
    BY <1>1, IdtInvariance, PTL

-----------------------------------------------------------------------------
(* Bags: the copies of an element *)

CopiesTo(a, n, e) == Cardinality({i \in 1..n : a[i] = e})

\* They are counted one by one.
LEMMA CopiesNext ==
  ASSUME NEW a, NEW n \in Nat, NEW e
  PROVE  CopiesTo(a, n, e) \in Nat /\ CopiesTo(a, n + 1, e) = CopiesTo(a, n, e) + (IF a[n + 1] = e THEN 1 ELSE 0)
  <1>1. PICK S : S = {i \in 1..n : a[i] = e}
    OBVIOUS
  <1>2. IsFiniteSet(1..n)
    BY FS_Interval, SMTT(30)
  <1>3. IsFiniteSet(S)
    BY <1>1, <1>2, FS_Subset
  <1>4. PICK k \in Nat : k = Cardinality(S)
    BY <1>3, FS_CardinalityType
  <1>5. n + 1 \notin S
    BY <1>1
  <1>6. PICK m \in Nat : m = n + 1
    OBVIOUS
  <1>7. 1..m = 1..n \cup {m}
    BY <1>6
  <1>8. CASE a[m] = e
    <2>1. {i \in 1..m : a[i] = e} = S \cup {m}
      BY <1>1, <1>7, <1>8
    <2>2. Cardinality(S \cup {m}) = k + 1
      BY <1>3, <1>4, <1>5, <1>6, FS_AddElement
    <2> QED
      BY <1>1, <1>4, <1>6, <1>8, <2>1, <2>2 DEF CopiesTo
  <1>9. CASE a[m] # e
    <2>1. {i \in 1..m : a[i] = e} = S
      BY <1>1, <1>7, <1>9
    <2> QED
      BY <1>1, <1>4, <1>6, <1>9, <2>1 DEF CopiesTo
  <1> QED
    BY <1>8, <1>9

\* There are none among no elements.
LEMMA CopiesNone == ASSUME NEW a, NEW e PROVE CopiesTo(a, 0, e) = 0
  <1>1. {i \in 1..0 : a[i] = e} = {}
    OBVIOUS
  <1> QED
    BY <1>1, FS_EmptySet DEF CopiesTo

\* Arrays that agree have the same copies.
LEMMA CopiesSame ==
  ASSUME NEW a, NEW b, NEW n, \A i \in 1..n : a[i] = b[i]
  PROVE  \A e : CopiesTo(a, n, e) = CopiesTo(b, n, e)
  <1> SUFFICES ASSUME NEW e PROVE CopiesTo(a, n, e) = CopiesTo(b, n, e)
    OBVIOUS
  <1>1. {i \in 1..n : a[i] = e} = {i \in 1..n : b[i] = e}
    OBVIOUS
  <1> QED
    BY <1>1 DEF CopiesTo

\* Contents counts them all.
LEMMA ContentsAre ==
  ASSUME NEW S, NEW a \in Seq(S)
  PROVE  Contents(a) = [e \in BagElement |-> CopiesTo(a, Len(a), e)]
  <1>1. DOMAIN a = 1..Len(a)
    OBVIOUS
  <1> QED
    BY <1>1 DEF Contents, CopiesTo

\* The last element in the place of element i
Filled(a, n, i, b) == \A j \in 1..(n - 1) : b[j] = IF j = i THEN a[n] ELSE a[j]

\* Only one copy of element i has gone.
LEMMA FilledCopies ==
  ASSUME NEW a, NEW n \in Nat, n # 0, NEW i \in 1..n, NEW b, Filled(a, n, i, b), NEW e
  PROVE  CopiesTo(a, n, e) = CopiesTo(b, n - 1, e) + (IF a[i] = e THEN 1 ELSE 0)
  <1>1. PICK m \in Nat : m = n - 1 /\ n = m + 1
    OBVIOUS
  <1>2. PICK S, T : S = {j \in 1..n : a[j] = e} /\ T = {j \in 1..m : b[j] = e}
    OBVIOUS
  <1>3. IsFiniteSet(1..m)
    BY FS_Interval, SMTT(30)
  <1>4. IsFiniteSet(T)
    BY <1>2, <1>3, FS_Subset
  <1>5. PICK W : W = T \ {i}
    OBVIOUS
  <1>6. IsFiniteSet(W) /\ i \notin W /\ n \notin W
    <2>1. IsFiniteSet(W)
      BY <1>4, <1>5, FS_Subset
    <2>2. n \notin T
      BY <1>1, <1>2
    <2> QED
      BY <1>5, <2>1, <2>2
  <1>7. PICK k \in Nat : k = Cardinality(W)
    BY <1>6, FS_CardinalityType
  <1>8. \A x : x \notin W => Cardinality(W \cup {x}) = k + 1 /\ IsFiniteSet(W \cup {x})
    BY <1>6, <1>7, FS_AddElement
  <1>9. \A j \in 1..m : j \in 1..n /\ j # n /\ b[j] = IF j = i THEN a[n] ELSE a[j]
    BY <1>1 DEF Filled
  <1>10. \A j \in 1..n : j \in 1..m \/ j = n
    BY <1>1
  <1>11. \A j \in 1..n : j # i /\ j # n => (j \in S <=> j \in W)
    BY <1>2, <1>5, <1>9, <1>10
  <1>12. W \subseteq 1..n /\ S \subseteq 1..n
    BY <1>2, <1>5, <1>9
  <1>13. n \in 1..n
    BY <1>1
  <1>14. CopiesTo(a, n, e) = Cardinality(S) /\ CopiesTo(b, n - 1, e) = Cardinality(T)
    BY <1>1, <1>2 DEF CopiesTo
  <1>15. CASE i = n
    <2>1. T = W
      BY <1>2, <1>5, <1>9, <1>15
    <2>2. CASE a[n] = e
      <3>1. S = W \cup {n}
        BY <1>2, <1>11, <1>12, <1>13, <1>15, <2>2
      <3> QED
        BY <1>6, <1>7, <1>8, <1>14, <1>15, <2>1, <2>2, <3>1
    <2>3. CASE a[n] # e
      <3>1. S = W
        BY <1>2, <1>6, <1>11, <1>12, <1>15, <2>3
      <3> QED
        BY <1>7, <1>14, <1>15, <2>1, <2>3, <3>1
    <2> QED
      BY <2>2, <2>3
  <1>16. CASE i # n
    <2>1. i \in 1..m
      BY <1>1, <1>16
    <2>2. i \in T <=> a[n] = e
      BY <1>2, <1>9, <2>1
    <2>3. CASE a[n] = e /\ a[i] = e
      <3>1. T = W \cup {i}
        BY <1>5, <2>2, <2>3
      <3>2. S = T \cup {n}
        BY <1>2, <1>11, <1>12, <1>13, <2>3, <3>1
      <3>3. n \notin T /\ IsFiniteSet(T) /\ Cardinality(T) = k + 1
        BY <1>6, <1>8, <1>16, <3>1
      <3>4. Cardinality(S) = Cardinality(T) + 1
        BY <3>2, <3>3, FS_AddElement
      <3> QED
        BY <1>7, <1>14, <2>3, <3>3, <3>4
    <2>4. CASE a[n] = e /\ a[i] # e
      <3>1. T = W \cup {i}
        BY <1>5, <2>2, <2>4
      <3>2. S = W \cup {n}
        BY <1>2, <1>6, <1>11, <1>12, <1>13, <2>4
      <3>3. Cardinality(S) = k + 1 /\ Cardinality(T) = k + 1
        BY <1>6, <1>8, <3>1, <3>2
      <3> QED
        BY <1>14, <2>4, <3>3
    <2>5. CASE a[n] # e /\ a[i] = e
      <3>1. T = W
        BY <1>5, <2>2, <2>5
      <3>2. S = W \cup {i}
        BY <1>2, <1>6, <1>11, <1>12, <2>5
      <3>3. Cardinality(S) = k + 1
        BY <1>6, <1>8, <3>2
      <3> QED
        BY <1>7, <1>14, <2>5, <3>1, <3>3
    <2>6. CASE a[n] # e /\ a[i] # e
      <3>1. T = W
        BY <1>5, <2>2, <2>6
      <3>2. S = W
        BY <1>2, <1>6, <1>11, <1>12, <2>6
      <3> QED
        BY <1>7, <1>14, <2>6, <3>1, <3>2
    <2> QED
      BY <2>3, <2>4, <2>5, <2>6
  <1> QED
    BY <1>15, <1>16

\* What GapFilled leaves
GapParts(S, a, i, b) == b \in Seq(S) /\ Len(b) = Len(a) - 1 /\ Filled(a, Len(a), i, b)

\* It is the array with the last element in the place of element i.
LEMMA GapSo ==
  ASSUME NEW S, NEW a \in Seq(S), a # << >>, NEW i \in 1..Len(a)
  PROVE  GapParts(S, a, i, GapFilled(a, i))
  <1>1. PICK n \in Nat : n = Len(a) /\ n # 0
    BY EmptySeq
  <1>2. PICK x \in S : x = a[n]
    BY <1>1
  <1>3. PICK c : c = [a EXCEPT ![i] = x]
    OBVIOUS
  <1>4. c \in Seq(S) /\ Len(c) = n /\ \A j \in 1..n : c[j] = IF j = i THEN x ELSE a[j]
    <2>1. c \in [1..n -> S] /\ \A j \in 1..n : c[j] = IF j = i THEN x ELSE a[j]
      BY <1>1, <1>3
    <2>2. c \in Seq(S)
      BY <1>1, <2>1, SeqDef
    <2> QED
      BY <1>1, <2>1, <2>2, LenProperties
  <1>5. PICK b : b = SubSeq(c, 1, n - 1)
    OBVIOUS
  <1>6. b \in Seq(S) /\ Len(b) = n - 1 /\ \A j \in 1..(n - 1) : b[j] = c[j]
    BY <1>1, <1>4, <1>5
  <1>7. GapFilled(a, i) = b
    BY <1>1, <1>2, <1>3, <1>4, <1>5 DEF GapFilled, Front, Last
  <1>8. \A j \in 1..(n - 1) : j \in 1..n
    BY <1>1
  <1> QED
    BY <1>1, <1>2, <1>4, <1>6, <1>7, <1>8 DEF GapParts, Filled

-----------------------------------------------------------------------------
(* Bags: adding and filtering *)

BagSet == [capacity : Nat, capacityIncrement : Nat, array : Seq(BagElement)]

GoodBag(bag) == bag \in BagSet /\ Len(bag.array) <= bag.capacity

\* What bagAdd does
PlusParts(bag, e, r) ==
  /\ GoodBag(r) /\ Len(r.array) = Len(bag.array) + 1 /\ r.array[Len(bag.array) + 1] = e
  /\ \A i \in 1..Len(bag.array) : r.array[i] = bag.array[i]

\* The array has grown first if it had to.
LEMMA PlusSo ==
  ASSUME NEW bag, GoodBag(bag), NEW e \in BagElement
  PROVE  PlusParts(bag, e, Plus(bag, e))
  <1>1. PICK a \in Seq(BagElement) : a = bag.array
    BY DEF GoodBag, BagSet
  <1>2. PICK c \in Nat : c = bag.capacity /\ Len(a) <= c
    BY <1>1 DEF GoodBag, BagSet
  <1>3. PICK d \in Nat : d = bag.capacityIncrement
    BY DEF GoodBag, BagSet
  <1>4. bag = [capacity |-> c, capacityIncrement |-> d, array |-> a]
    BY <1>1, <1>2, <1>3 DEF GoodBag, BagSet
  <1>5. PICK n \in Nat : n = Len(a)
    OBVIOUS
  <1>6. PICK k \in Nat : k >= n + 1 /\ ensureIncCapacity(bag) = [capacity |-> k, capacityIncrement |-> d, array |-> a]
    <2>1. CASE n < c
      <3>1. ensureIncCapacity(bag) = bag /\ c >= n + 1
        BY <1>1, <1>2, <1>5, <2>1 DEF ensureIncCapacity
      <3> QED
        BY <1>4, <3>1
    <2>2. CASE ~(n < c)
      <3>1. PICK k : k = IF d # 0 THEN c + d ELSE IF c = 0 THEN 1 ELSE 2 * c
        OBVIOUS
      <3>2. k \in Nat /\ k >= n + 1
        BY <1>2, <1>5, <2>2, <3>1
      <3>3. ensureIncCapacity(bag) = [bag EXCEPT !.capacity = k]
        BY <1>1, <1>2, <1>3, <1>5, <2>2, <3>1 DEF ensureIncCapacity
      <3>4. [bag EXCEPT !.capacity = k] = [capacity |-> k, capacityIncrement |-> d, array |-> a]
        BY <1>4
      <3> QED
        BY <3>2, <3>3, <3>4
    <2> QED
      BY <2>1, <2>2
  <1>7. PICK b : b = Append(a, e)
    OBVIOUS
  <1>8. b \in Seq(BagElement) /\ Len(b) = n + 1 /\ b[n + 1] = e /\ \A i \in 1..n : b[i] = a[i]
    BY <1>5, <1>7, AppendProperties
  <1>9. Plus(bag, e) = [capacity |-> k, capacityIncrement |-> d, array |-> b]
    <2>1. PICK z : z = ensureIncCapacity(bag) /\ z = [capacity |-> k, capacityIncrement |-> d, array |-> a]
      BY <1>6
    <2>2. z.array = a
      BY <2>1
    <2>3. Plus(bag, e) = [z EXCEPT !.array = b]
      BY <1>7, <2>1, <2>2 DEF Plus
    <2> QED
      BY <2>1, <2>3
  <1>10. PICK r : r = Plus(bag, e) /\ r.array = b /\ r.capacity = k /\ r \in BagSet
    BY <1>8, <1>9 DEF BagSet
  <1> QED
    BY <1>1, <1>5, <1>6, <1>8, <1>10 DEF PlusParts, GoodBag

\* The copies in a bag to which those of the first n elements that are kept were added
EachTo(bag, s, keep, n, r) ==
  /\ GoodBag(r) /\ Len(bag.array) <= Len(r.array) /\ Len(r.array) <= Len(bag.array) + n
  /\ \A i \in 1..Len(bag.array) : r.array[i] = bag.array[i]
  /\ \A e \in BagElement :
       CopiesTo(r.array, Len(r.array), e) = CopiesTo(bag.array, Len(bag.array), e) + (IF e \in keep THEN CopiesTo(s, n, e) ELSE 0)

\* One more element is added, or left out.
LEMMA EachStep ==
  ASSUME NEW bag, GoodBag(bag), NEW s, NEW keep, NEW n \in Nat, NEW r, EachTo(bag, s, keep, n, r), s[n + 1] \in BagElement
  PROVE  EachTo(bag, s, keep, n + 1, AddIf(r, s[n + 1], keep))
  <1>1. PICK x \in BagElement : x = s[n + 1]
    OBVIOUS
  <1>2. PICK q : q = AddIf(r, x, keep)
    OBVIOUS
  <1>3. PICK m \in Nat : m = Len(bag.array)
    BY DEF GoodBag, BagSet
  <1>4. PICK l \in Nat : l = Len(r.array) /\ m <= l /\ l <= m + n /\ GoodBag(r)
    BY <1>3 DEF EachTo, GoodBag, BagSet
  <1>5. \A e : CopiesTo(bag.array, m, e) \in Nat /\ CopiesTo(r.array, l, e) \in Nat /\ CopiesTo(s, n, e) \in Nat
    BY CopiesNext
  <1>6. \A e : CopiesTo(s, n + 1, e) = CopiesTo(s, n, e) + (IF x = e THEN 1 ELSE 0)
    BY <1>1, CopiesNext
  <1>7. /\ \A i \in 1..m : r.array[i] = bag.array[i]
        /\ \A e \in BagElement : CopiesTo(r.array, l, e) = CopiesTo(bag.array, m, e) + (IF e \in keep THEN CopiesTo(s, n, e) ELSE 0)
    BY <1>3, <1>4 DEF EachTo
  <1>8. CASE x \in keep
    <2>1. q = Plus(r, x)
      BY <1>2, <1>8 DEF AddIf
    <2>2. PlusParts(r, x, q)
      BY <1>4, <2>1, PlusSo
    <2>3. GoodBag(q) /\ Len(q.array) = l + 1 /\ q.array[l + 1] = x /\ \A i \in 1..l : q.array[i] = r.array[i]
      BY <1>4, <2>2 DEF PlusParts
    <2>4. \A e : CopiesTo(q.array, l, e) = CopiesTo(r.array, l, e)
      BY <2>3, CopiesSame
    <2>5. \A e : CopiesTo(q.array, l + 1, e) = CopiesTo(q.array, l, e) + (IF x = e THEN 1 ELSE 0)
      BY <2>3, CopiesNext
    <2>6. \A e \in BagElement : CopiesTo(q.array, l + 1, e) = CopiesTo(bag.array, m, e) + (IF e \in keep THEN CopiesTo(s, n + 1, e) ELSE 0)
      <3> SUFFICES ASSUME NEW e \in BagElement PROVE CopiesTo(q.array, l + 1, e) = CopiesTo(bag.array, m, e) + (IF e \in keep THEN CopiesTo(s, n + 1, e) ELSE 0)
        OBVIOUS
      <3> QED
        BY <1>5, <1>6, <1>7, <1>8, <2>4, <2>5
    <2>7. \A i \in 1..m : q.array[i] = bag.array[i]
      <3>1. \A i \in 1..m : i \in 1..l
        BY <1>4
      <3> QED
        BY <1>7, <2>3, <3>1
    <2>8. m <= l + 1 /\ l + 1 <= m + (n + 1)
      BY <1>4
    <2> QED
      BY <1>1, <1>2, <1>3, <2>3, <2>6, <2>7, <2>8 DEF EachTo
  <1>9. CASE x \notin keep
    <2>1. q = r
      BY <1>2, <1>9 DEF AddIf
    <2>2. \A e \in BagElement : CopiesTo(r.array, l, e) = CopiesTo(bag.array, m, e) + (IF e \in keep THEN CopiesTo(s, n + 1, e) ELSE 0)
      <3> SUFFICES ASSUME NEW e \in BagElement PROVE CopiesTo(r.array, l, e) = CopiesTo(bag.array, m, e) + (IF e \in keep THEN CopiesTo(s, n + 1, e) ELSE 0)
        OBVIOUS
      <3> QED
        BY <1>5, <1>6, <1>7, <1>9
    <2>3. m <= l /\ l <= m + (n + 1)
      BY <1>4
    <2> QED
      BY <1>1, <1>2, <1>3, <1>4, <1>7, <2>1, <2>2, <2>3 DEF EachTo
  <1> QED
    BY <1>8, <1>9

\* What the definition of AddEach says of a function
EachFollows(f, bag, s, keep) == f = [n \in 0..Len(s) |-> IF n = 0 THEN bag ELSE AddIf(f[n - 1], s[n], keep)]

\* The definition uses such a function if there is one.
LEMMA EachUse ==
  ASSUME NEW bag, NEW s, NEW keep, \E f : EachFollows(f, bag, s, keep)
  PROVE  \E f : EachFollows(f, bag, s, keep) /\ AddEach(bag, s, keep) = f[Len(s)]
  <1> DEFINE G == CHOOSE f : EachFollows(f, bag, s, keep)
  <1>1. EachFollows(G, bag, s, keep)
    OBVIOUS
  <1>2. AddEach(bag, s, keep) = G[Len(s)]
    BY DEF AddEach, EachFollows
  <1> QED
    BY <1>1, <1>2

\* AddEach adds to the bag what is kept.
LEMMA EachSo ==
  ASSUME NEW bag, GoodBag(bag), NEW s \in Seq(BagElement), NEW keep
  PROVE  EachTo(bag, s, keep, Len(s), AddEach(bag, s, keep))
  <1>1. PICK n \in Nat : n = Len(s)
    OBVIOUS
  <1>2. PICK Q : Q = {b \in BagSet : GoodBag(b)}
    OBVIOUS
  <1>3. bag \in Q /\ \A b : b \in Q <=> GoodBag(b)
    BY <1>2 DEF GoodBag
  <1>4. \A i \in 1..n : s[i] \in BagElement
    BY <1>1
  <1>5. \A i \in 1..n : \A b \in Q : AddIf(b, s[i], keep) \in Q
    <2> SUFFICES ASSUME NEW i \in 1..n, NEW b \in Q PROVE AddIf(b, s[i], keep) \in Q
      OBVIOUS
    <2>1. PICK x \in BagElement : x = s[i]
      BY <1>4
    <2>2. PlusParts(b, x, Plus(b, x))
      BY <1>3, PlusSo
    <2>3. Plus(b, x) \in Q
      BY <1>3, <2>2 DEF PlusParts
    <2> QED
      BY <2>1, <2>3 DEF AddIf
  <1>6. PICK g \in [1..n -> [Q -> Q]] : \A i \in 1..n : \A b \in Q : g[i][b] = AddIf(b, s[i], keep)
    <2>1. [i \in 1..n |-> [b \in Q |-> AddIf(b, s[i], keep)]] \in [1..n -> [Q -> Q]]
      BY <1>5
    <2> QED
      BY <2>1
  <1>7. PICK f : Unfolds(f, n, Q, bag, g)
    BY <1>3, Recursion
  <1>8. f \in [0..n -> Q] /\ f[0] = bag /\ \A i \in 1..n : f[i] = AddIf(f[i - 1], s[i], keep)
    <2>1. f \in [0..n -> Q] /\ f[0] = bag /\ \A i \in 1..n : f[i] = g[i][f[i - 1]]
      BY <1>7 DEF Unfolds
    <2>2. \A i \in 1..n : i - 1 \in 0..n
      OBVIOUS
    <2>3. \A i \in 1..n : f[i - 1] \in Q
      BY <2>1, <2>2
    <2> QED
      BY <1>6, <2>1, <2>3
  <1>9. EachFollows(f, bag, s, keep)
    <2>1. \A i \in 0..n : f[i] = IF i = 0 THEN bag ELSE AddIf(f[i - 1], s[i], keep)
      <3>1. \A i \in 0..n : i = 0 \/ i \in 1..n
        OBVIOUS
      <3> QED
        BY <1>8, <3>1
    <2>2. f = [i \in 0..n |-> IF i = 0 THEN bag ELSE AddIf(f[i - 1], s[i], keep)]
      BY <1>8, <2>1
    <2> QED
      BY <1>1, <2>2 DEF EachFollows
  <1>10. PICK h : EachFollows(h, bag, s, keep) /\ AddEach(bag, s, keep) = h[n]
    BY <1>1, <1>9, EachUse
  <1>11. \A i \in 0..n : h[i] = IF i = 0 THEN bag ELSE AddIf(h[i - 1], s[i], keep)
    <2>1. h = [i \in 0..n |-> IF i = 0 THEN bag ELSE AddIf(h[i - 1], s[i], keep)]
      BY <1>1, <1>10 DEF EachFollows
    <2> QED
      BY <2>1
  <1> DEFINE T == {i \in 0..n : EachTo(bag, s, keep, i, h[i])}
  <1>12. 0 \in T
    <2>1. h[0] = bag
      BY <1>11
    <2>2. \A e : CopiesTo(s, 0, e) = 0
      BY CopiesNone
    <2>3. PICK m \in Nat : m = Len(bag.array)
      BY DEF GoodBag, BagSet
    <2>4. \A e : CopiesTo(bag.array, m, e) \in Nat
      BY CopiesNext
    <2>5. EachTo(bag, s, keep, 0, bag)
      BY <2>2, <2>3, <2>4 DEF EachTo
    <2> QED
      BY <2>1, <2>5
  <1>13. ASSUME NEW i \in 0..n, i # n, i \in T PROVE i + 1 \in T
    <2>1. i + 1 \in 0..n /\ i + 1 \in 1..n /\ i + 1 # 0 /\ (i + 1) - 1 = i /\ i \in Nat
      BY <1>13
    <2>2. EachTo(bag, s, keep, i, h[i])
      BY <1>13
    <2>3. h[i + 1] = AddIf(h[i], s[i + 1], keep)
      BY <1>11, <2>1
    <2>4. EachTo(bag, s, keep, i + 1, AddIf(h[i], s[i + 1], keep))
      BY <1>4, <2>1, <2>2, EachStep
    <2> QED
      BY <2>1, <2>3, <2>4
  <1>14. n \in T
    <2> HIDE DEF T
    <2>1. n \in 0..n
      OBVIOUS
    <2> QED
      BY <1>12, <1>13, <2>1, Climb
  <1> QED
    BY <1>1, <1>10, <1>14

\* The loop of bagFilter2, after n rounds: what is before i is kept, and of what is kept there is as much as before.
KeptTo(a, keep, n, p) ==
  /\ p \in [i : Nat, array : Seq(BagElement)] /\ p.i >= 1 /\ p.i + Len(a) = n + 1 + Len(p.array) /\ Len(p.array) <= Len(a)
  /\ \A j \in 1..(p.i - 1) : p.array[j] \in keep
  /\ \A e \in keep : CopiesTo(p.array, Len(p.array), e) = CopiesTo(a, Len(a), e)

\* One more round
LEMMA KeptStep ==
  ASSUME NEW a \in Seq(BagElement), NEW keep, NEW n \in Nat, n < Len(a), NEW p, KeptTo(a, keep, n, p)
  PROVE  KeptTo(a, keep, n + 1, FilterOne(p, keep))
  <1>1. PICK b \in Seq(BagElement) : b = p.array
    BY DEF KeptTo
  <1>2. PICK i \in Nat : i = p.i /\ i >= 1 /\ p = [i |-> i, array |-> b]
    BY <1>1 DEF KeptTo
  <1>3. PICK m \in Nat : m = Len(a)
    OBVIOUS
  <1>4. PICK l \in Nat : l = Len(b)
    OBVIOUS
  <1>5. i + m = n + 1 + l /\ l <= m /\ n < m
    BY <1>1, <1>2, <1>3, <1>4 DEF KeptTo
  <1>6. i \in 1..l /\ l # 0
    BY <1>2, <1>5
  <1>7. (\A j \in 1..(i - 1) : b[j] \in keep) /\ \A e \in keep : CopiesTo(b, l, e) = CopiesTo(a, m, e)
    BY <1>1, <1>2, <1>3, <1>4 DEF KeptTo
  <1>8. CASE b[i] \in keep
    <2>1. FilterOne(p, keep) = [i |-> i + 1, array |-> b]
      BY <1>1, <1>2, <1>8 DEF FilterOne
    <2>2. PICK q : q = FilterOne(p, keep) /\ q \in [i : Nat, array : Seq(BagElement)] /\ q.i = i + 1 /\ q.array = b
      BY <2>1
    <2>3. \A j \in 1..((i + 1) - 1) : j \in 1..(i - 1) \/ j = i
      OBVIOUS
    <2>4. \A j \in 1..((i + 1) - 1) : b[j] \in keep
      BY <1>7, <1>8, <2>3
    <2>5. i + 1 >= 1 /\ (i + 1) + m = (n + 1) + 1 + l
      BY <1>5
    <2> QED
      BY <1>3, <1>4, <1>5, <1>7, <2>2, <2>4, <2>5 DEF KeptTo
  <1>9. CASE b[i] \notin keep
    <2>1. PICK c : c = GapFilled(b, i)
      OBVIOUS
    <2>2. b # << >>
      BY <1>4, <1>6
    <2>3. GapParts(BagElement, b, i, c)
      BY <1>4, <1>6, <2>1, <2>2, GapSo
    <2>4. c \in Seq(BagElement) /\ Len(c) = l - 1 /\ Filled(b, l, i, c)
      BY <1>4, <2>3 DEF GapParts
    <2>5. FilterOne(p, keep) = [i |-> i, array |-> c]
      BY <1>1, <1>2, <1>9, <2>1 DEF FilterOne
    <2>6. PICK q : q = FilterOne(p, keep) /\ q \in [i : Nat, array : Seq(BagElement)] /\ q.i = i /\ q.array = c
      BY <2>4, <2>5
    <2>7. \A j \in 1..(i - 1) : c[j] \in keep
      <3>1. \A j \in 1..(i - 1) : j \in 1..(l - 1) /\ j # i
        BY <1>6
      <3> QED
        BY <1>7, <2>4, <3>1 DEF Filled
    <2>8. ASSUME NEW e \in keep PROVE CopiesTo(c, l - 1, e) = CopiesTo(a, m, e)
      <3>1. CopiesTo(b, l, e) = CopiesTo(c, l - 1, e) + (IF b[i] = e THEN 1 ELSE 0)
        BY <1>6, <2>4, FilledCopies
      <3>2. b[i] # e
        BY <1>9
      <3>3. PICK k \in Nat : k = l - 1
        BY <1>6
      <3>4. CopiesTo(c, k, e) \in Nat
        BY CopiesNext
      <3> QED
        BY <1>7, <3>1, <3>2, <3>3, <3>4
    <2>9. i + m = (n + 1) + 1 + (l - 1) /\ l - 1 <= m
      BY <1>5
    <2> QED
      BY <1>2, <1>3, <2>4, <2>6, <2>7, <2>8, <2>9 DEF KeptTo
  <1> QED
    BY <1>8, <1>9

\* What the definition of Kept says of a function
KeptFollows(f, a, keep) == f = [n \in 0..Len(a) |-> IF n = 0 THEN [i |-> 1, array |-> a] ELSE FilterOne(f[n - 1], keep)]

\* The definition uses such a function if there is one.
LEMMA KeptUse ==
  ASSUME NEW a, NEW keep, \E f : KeptFollows(f, a, keep)
  PROVE  \E f : KeptFollows(f, a, keep) /\ Kept(a, keep) = f[Len(a)].array
  <1> DEFINE G == CHOOSE f : KeptFollows(f, a, keep)
  <1>1. KeptFollows(G, a, keep)
    OBVIOUS
  <1>2. Kept(a, keep) = G[Len(a)].array
    BY DEF Kept, KeptFollows
  <1> QED
    BY <1>1, <1>2

\* What bagFilter2 leaves
KeptParts(a, keep, b) ==
  /\ b \in Seq(BagElement) /\ Len(b) <= Len(a)
  /\ \A e \in BagElement : CopiesTo(b, Len(b), e) = IF e \in keep THEN CopiesTo(a, Len(a), e) ELSE 0

\* It is what is to be kept.
LEMMA KeptSo ==
  ASSUME NEW a \in Seq(BagElement), NEW keep
  PROVE  KeptParts(a, keep, Kept(a, keep))
  <1>1. PICK n \in Nat : n = Len(a)
    OBVIOUS
  <1>2. PICK Q : Q = [i : Nat, array : Seq(BagElement)]
    OBVIOUS
  <1>3. PICK z \in Q : z = [i |-> 1, array |-> a]
    BY <1>2
  <1>4. PICK g \in [1..n -> [Q -> Q]] : \A i \in 1..n : \A p \in Q : FilterOne(p, keep) \in Q => g[i][p] = FilterOne(p, keep)
    <2>1. [i \in 1..n |-> [p \in Q |-> IF FilterOne(p, keep) \in Q THEN FilterOne(p, keep) ELSE z]] \in [1..n -> [Q -> Q]]
      OBVIOUS
    <2> QED
      BY <2>1
  <1>5. PICK f : Unfolds(f, n, Q, z, g)
    BY Recursion
  <1>6. f \in [0..n -> Q] /\ f[0] = z /\ \A i \in 1..n : f[i] = g[i][f[i - 1]]
    BY <1>5 DEF Unfolds
  <1>7. KeptTo(a, keep, 0, z)
    <2>1. z.i = 1 /\ z.array = a /\ 1..(1 - 1) = {}
      BY <1>3
    <2>2. 1 + n = 0 + 1 + n /\ n <= n /\ 1 >= 1
      OBVIOUS
    <2> QED
      BY <1>1, <1>2, <2>1, <2>2 DEF KeptTo
  <1>8. \A p, i : KeptTo(a, keep, i, p) => p \in Q
    BY <1>2 DEF KeptTo
  <1> DEFINE T == {i \in 0..n : KeptTo(a, keep, i, f[i]) /\ (i # n => f[i + 1] = FilterOne(f[i], keep))}
  <1>9. ASSUME NEW i \in 0..n, KeptTo(a, keep, i, f[i]), i # n PROVE f[i + 1] = FilterOne(f[i], keep) /\ KeptTo(a, keep, i + 1, f[i + 1])
    <2>1. i + 1 \in 1..n /\ (i + 1) - 1 = i /\ i \in Nat /\ i < n
      BY <1>9
    <2>2. KeptTo(a, keep, i + 1, FilterOne(f[i], keep))
      BY <1>1, <1>9, <2>1, KeptStep
    <2>3. f[i] \in Q /\ FilterOne(f[i], keep) \in Q
      BY <1>8, <1>9, <2>2
    <2>4. f[i + 1] = g[i + 1][f[i]]
      BY <1>6, <2>1
    <2>5. f[i + 1] = FilterOne(f[i], keep)
      BY <1>4, <2>1, <2>3, <2>4
    <2> QED
      BY <2>2, <2>5
  <1>10. 0 \in T
    <2>1. 0 \in 0..n /\ KeptTo(a, keep, 0, f[0])
      BY <1>6, <1>7
    <2> QED
      BY <1>9, <2>1
  <1>11. ASSUME NEW i \in 0..n, i # n, i \in T PROVE i + 1 \in T
    <2>1. KeptTo(a, keep, i + 1, f[i + 1]) /\ i + 1 \in 0..n
      BY <1>9, <1>11
    <2> QED
      BY <1>9, <2>1
  <1>12. \A i \in 0..n : i \in T
    <2> HIDE DEF T
    <2> QED
      BY <1>10, <1>11, Climb
  <1>13. KeptFollows(f, a, keep)
    <2>1. \A i \in 0..n : f[i] = IF i = 0 THEN z ELSE FilterOne(f[i - 1], keep)
      <3>1. \A i \in 0..n : i = 0 \/ (i - 1 \in 0..n /\ i - 1 # n /\ (i - 1) + 1 = i)
        OBVIOUS
      <3> QED
        BY <1>6, <1>12, <3>1
    <2>2. f = [i \in 0..n |-> IF i = 0 THEN z ELSE FilterOne(f[i - 1], keep)]
      BY <1>6, <2>1
    <2> QED
      BY <1>1, <1>3, <2>2 DEF KeptFollows
  <1>14. PICK h : KeptFollows(h, a, keep) /\ Kept(a, keep) = h[n].array
    BY <1>1, <1>13, KeptUse
  <1>15. \A i \in 0..n : h[i] = IF i = 0 THEN z ELSE FilterOne(h[i - 1], keep)
    <2>1. h = [i \in 0..n |-> IF i = 0 THEN z ELSE FilterOne(h[i - 1], keep)]
      BY <1>1, <1>3, <1>14 DEF KeptFollows
    <2> QED
      BY <2>1
  <1> HIDE DEF T
  <1> DEFINE U == {i \in 0..n : KeptTo(a, keep, i, h[i])}
  <1>16. 0 \in U
    BY <1>7, <1>15
  <1>17. ASSUME NEW i \in 0..n, i # n, i \in U PROVE i + 1 \in U
    <2>1. i + 1 \in 0..n /\ i + 1 # 0 /\ (i + 1) - 1 = i /\ i \in Nat /\ i < n
      BY <1>17
    <2>2. h[i + 1] = FilterOne(h[i], keep)
      BY <1>15, <2>1
    <2>3. KeptTo(a, keep, i + 1, FilterOne(h[i], keep))
      BY <1>1, <1>17, <2>1, KeptStep
    <2> QED
      BY <2>1, <2>2, <2>3
  <1>18. KeptTo(a, keep, n, h[n])
    <2>1. n \in U
      <3> HIDE DEF U
      <3>1. n \in 0..n
        OBVIOUS
      <3> QED
        BY <1>16, <1>17, <3>1, Climb
    <2> QED
      BY <2>1
  <1>19. PICK b \in Seq(BagElement) : b = h[n].array /\ b = Kept(a, keep)
    BY <1>14, <1>18 DEF KeptTo
  <1>20. PICK l \in Nat : l = Len(b) /\ l <= n
    BY <1>1, <1>18, <1>19 DEF KeptTo
  <1>21. PICK i \in Nat : i = h[n].i /\ i + n = n + 1 + l
    BY <1>1, <1>18, <1>19, <1>20 DEF KeptTo
  <1>22. (\A j \in 1..l : b[j] \in keep) /\ \A e \in keep : CopiesTo(b, l, e) = CopiesTo(a, n, e)
    <2>1. i - 1 = l
      BY <1>1, <1>20, <1>21
    <2> QED
      BY <1>1, <1>18, <1>19, <1>20, <1>21, <2>1 DEF KeptTo
  <1>23. ASSUME NEW e, e \notin keep PROVE CopiesTo(b, l, e) = 0
    <2>1. {j \in 1..l : b[j] = e} = {}
      BY <1>22, <1>23
    <2> QED
      BY <2>1, FS_EmptySet DEF CopiesTo
  <1> QED
    BY <1>1, <1>19, <1>20, <1>22, <1>23 DEF KeptParts

-----------------------------------------------------------------------------
(* Bags: the steps *)

Counted(a, n) == [e \in BagElement |-> CopiesTo(a, n, e)]

IterShape(it) == it = [exists |-> it.exists, current |-> it.current, due |-> it.due, seen |-> it.seen]

\* An iterator has met what is before its place, and is to meet everything.
IterSo(a, it) ==
  it.exists => /\ it.current \in Nat /\ it.current <= Len(a)
               /\ it.due = Counted(a, Len(a)) /\ it.seen = Counted(a, it.current)

BagInv ==
  /\ bags = [b \in BagId |-> bags[b]] /\ bagHolds = [b \in BagId |-> bagHolds[b]]
  /\ \A b \in BagId : GoodBag(bags[b]) /\ bagHolds[b] = Counted(bags[b].array, Len(bags[b].array))
  /\ IterShape(bagIter) /\ IterSo(bags["x"].array, bagIter)

\* One more element is counted.
LEMMA CountedNext ==
  ASSUME NEW a, NEW n \in Nat
  PROVE  Counted(a, n + 1) = Together(Counted(a, n), OneCopy(a[n + 1]))
  <1>1. PICK m, o, r : m = Counted(a, n) /\ o = OneCopy(a[n + 1]) /\ r = Counted(a, n + 1)
    OBVIOUS
  <1>2. \A e \in BagElement : m[e] = CopiesTo(a, n, e) /\ r[e] = CopiesTo(a, n + 1, e) /\ o[e] = IF e = a[n + 1] THEN 1 ELSE 0
    BY <1>1 DEF Counted, OneCopy
  <1>3. \A e : CopiesTo(a, n, e) \in Nat /\ CopiesTo(a, n + 1, e) = CopiesTo(a, n, e) + (IF a[n + 1] = e THEN 1 ELSE 0)
    BY CopiesNext
  <1>4. \A e \in BagElement : r[e] = m[e] + o[e]
    BY <1>2, <1>3
  <1>5. r = [e \in BagElement |-> r[e]]
    BY <1>1 DEF Counted
  <1> QED
    BY <1>1, <1>4, <1>5 DEF Together

\* Arrays that agree count the same.
LEMMA CountedSame ==
  ASSUME NEW a, NEW b, NEW n, \A i \in 1..n : a[i] = b[i]
  PROVE  Counted(a, n) = Counted(b, n)
  BY CopiesSame DEF Counted

\* What an array with one more element counts
LEMMA CountedPlus ==
  ASSUME NEW bag, GoodBag(bag), NEW e, NEW r, PlusParts(bag, e, r)
  PROVE  Counted(r.array, Len(r.array)) = Together(Counted(bag.array, Len(bag.array)), OneCopy(e))
  <1>1. PICK n \in Nat : n = Len(bag.array)
    BY DEF GoodBag, BagSet
  <1>2. PICK a, b : a = bag.array /\ b = r.array
    OBVIOUS
  <1>3. Len(b) = n + 1 /\ b[n + 1] = e /\ \A i \in 1..n : b[i] = a[i]
    BY <1>1, <1>2 DEF PlusParts
  <1>4. Counted(b, n) = Counted(a, n)
    BY <1>3, CountedSame
  <1>5. Counted(b, n + 1) = Together(Counted(b, n), OneCopy(b[n + 1]))
    BY CountedNext
  <1> QED
    BY <1>1, <1>2, <1>3, <1>4, <1>5

\* What a bag counts to which elements were added
LEMMA CountedEach ==
  ASSUME NEW bag, NEW s, NEW keep, NEW n, NEW r, EachTo(bag, s, keep, n, r)
  PROVE  Counted(r.array, Len(r.array)) = Together(Counted(bag.array, Len(bag.array)), Only(Counted(s, n), keep))
  <1>1. PICK m, o, c, w : /\ m = Counted(bag.array, Len(bag.array)) /\ c = Counted(s, n) /\ o = Only(c, keep)
                          /\ w = Counted(r.array, Len(r.array))
    OBVIOUS
  <1>2. \A e \in BagElement : /\ m[e] = CopiesTo(bag.array, Len(bag.array), e) /\ c[e] = CopiesTo(s, n, e)
                              /\ w[e] = CopiesTo(r.array, Len(r.array), e) /\ o[e] = IF e \in keep THEN c[e] ELSE 0
    BY <1>1 DEF Counted, Only
  <1>3. \A e \in BagElement : w[e] = m[e] + o[e]
    BY <1>2 DEF EachTo
  <1>4. w = [e \in BagElement |-> w[e]]
    BY <1>1 DEF Counted
  <1> QED
    BY <1>1, <1>3, <1>4 DEF Together

\* What a filtered bag counts
LEMMA CountedKept ==
  ASSUME NEW a, NEW keep, NEW b, KeptParts(a, keep, b)
  PROVE  Counted(b, Len(b)) = Only(Counted(a, Len(a)), keep)
  <1>1. PICK m, w : m = Counted(a, Len(a)) /\ w = Counted(b, Len(b))
    OBVIOUS
  <1>2. \A e \in BagElement : m[e] = CopiesTo(a, Len(a), e) /\ w[e] = CopiesTo(b, Len(b), e)
    BY <1>1 DEF Counted
  <1>3. \A e \in BagElement : w[e] = IF e \in keep THEN m[e] ELSE 0
    BY <1>2 DEF KeptParts
  <1>4. w = [e \in BagElement |-> w[e]]
    BY <1>1 DEF Counted
  <1> QED
    BY <1>1, <1>3, <1>4 DEF Only

\* What bagRemoveMaybe does
MinusParts(bag, e, r) == GoodBag(r) /\ Counted(r.array, Len(r.array)) = Without(Counted(bag.array, Len(bag.array)), e)

\* It removes one copy if there is one.
LEMMA MinusSo ==
  ASSUME NEW bag, GoodBag(bag), NEW e
  PROVE  MinusParts(bag, e, Minus(bag, e))
  <1>1. PICK a \in Seq(BagElement) : a = bag.array
    BY DEF GoodBag, BagSet
  <1>2. PICK n \in Nat : n = Len(a) /\ DOMAIN a = 1..n
    OBVIOUS
  <1>3. PICK at : at = {i \in 1..n : a[i] = e}
    OBVIOUS
  <1>4. PICK m : m = Counted(a, n) /\ (\A d \in BagElement : m[d] = CopiesTo(a, n, d)) /\ m = [d \in BagElement |-> m[d]]
    <2>1. PICK m : m = [d \in BagElement |-> CopiesTo(a, n, d)]
      OBVIOUS
    <2> QED
      BY <2>1 DEF Counted
  <1>5. \A d : CopiesTo(a, n, d) \in Nat
    BY CopiesNext
  <1>6. CASE at = {}
    <2>1. Minus(bag, e) = bag
      BY <1>1, <1>2, <1>3, <1>6 DEF Minus
    <2>2. CopiesTo(a, n, e) = 0
      BY <1>3, <1>6, FS_EmptySet DEF CopiesTo
    <2>3. \A d \in BagElement : m[d] = IF d = e /\ m[d] > 0 THEN m[d] - 1 ELSE m[d]
      BY <1>4, <1>5, <2>2
    <2>4. m = Without(m, e)
      BY <1>4, <2>3 DEF Without
    <2> QED
      BY <1>1, <1>2, <1>4, <2>1, <2>4 DEF MinusParts
  <1>7. CASE at # {}
    <2>1. at \in SUBSET Nat
      BY <1>3
    <2>2. PICK k \in at : \A j \in at : ~(j < k)
      BY <1>7, <2>1, LeastOf
    <2>3. \A j \in at : k <= j
      BY <2>1, <2>2
    <2>4. PICK i \in at : i = CHOOSE l \in at : \A j \in at : l <= j
      BY <2>3
    <2>5. i \in 1..n /\ a[i] = e /\ n # 0
      BY <1>3, <2>4
    <2>6. PICK c : c = GapFilled(a, i)
      OBVIOUS
    <2>7. a # << >>
      BY <1>2, <2>5
    <2>8. GapParts(BagElement, a, i, c)
      BY <1>2, <2>5, <2>6, <2>7, GapSo
    <2>9. c \in Seq(BagElement) /\ Len(c) = n - 1 /\ Filled(a, n, i, c)
      BY <1>2, <2>8 DEF GapParts
    <2>10. PICK r : r = [bag EXCEPT !.array = c]
      OBVIOUS
    <2>11. Minus(bag, e) = r
      BY <1>1, <1>2, <1>3, <1>7, <2>4, <2>6, <2>10 DEF Minus
    <2>12. r \in BagSet /\ r.array = c /\ r.capacity = bag.capacity
      BY <2>9, <2>10 DEF GoodBag, BagSet
    <2>13. GoodBag(r)
      <3>1. n <= bag.capacity /\ bag.capacity \in Nat
        BY <1>1, <1>2 DEF GoodBag, BagSet
      <3> QED
        BY <2>9, <2>12, <3>1 DEF GoodBag
    <2>14. \A d : CopiesTo(a, n, d) = CopiesTo(c, n - 1, d) + (IF a[i] = d THEN 1 ELSE 0)
      BY <2>5, <2>9, FilledCopies
    <2>15. PICK l \in Nat : l = n - 1
      BY <2>5
    <2>16. \A d : CopiesTo(c, l, d) \in Nat
      BY CopiesNext
    <2>17. \A d \in BagElement : CopiesTo(c, l, d) = IF d = e /\ m[d] > 0 THEN m[d] - 1 ELSE m[d]
      BY <1>4, <2>5, <2>14, <2>15, <2>16
    <2>18. Counted(c, l) = Without(m, e)
      BY <2>17 DEF Counted, Without
    <2> QED
      BY <1>1, <1>2, <1>4, <2>9, <2>11, <2>12, <2>13, <2>15, <2>18 DEF MinusParts
  <1> QED
    BY <1>6, <1>7

\* A step that gives one bag a good value
LEMMA BagChanged ==
  ASSUME BagInv, NEW c \in BagId, NEW r, GoodBag(r), NEW m, m = Counted(r.array, Len(r.array)),
         bags' = [bags EXCEPT ![c] = r], bagHolds' = [bagHolds EXCEPT ![c] = m], NEW it, it = bagIter', IterShape(it),
         c = "x" => IterSo(r.array, it), c = "y" => it = bagIter
  PROVE  BagInv'
  <1>1. PICK p, h : p = bags' /\ h = bagHolds'
    OBVIOUS
  <1>2. p = [b \in BagId |-> p[b]] /\ p[c] = r /\ \A b \in BagId : b # c => p[b] = bags[b]
    BY <1>1 DEF BagInv
  <1>3. h = [b \in BagId |-> h[b]] /\ h[c] = m /\ \A b \in BagId : b # c => h[b] = bagHolds[b]
    BY <1>1 DEF BagInv
  <1>4. \A b \in BagId : GoodBag(p[b]) /\ h[b] = Counted(p[b].array, Len(p[b].array))
    BY <1>2, <1>3 DEF BagInv
  <1>5. IterSo(p["x"].array, it)
    BY <1>2 DEF BagId, BagInv
  <1> QED
    BY <1>1, <1>2, <1>3, <1>4, <1>5 DEF BagInv

\* The iterator of a bag to which elements were added
LEMMA IterGrown ==
  ASSUME BagInv, NEW c \in BagId, NEW r, GoodBag(r), NEW more, NEW it, it = Due(c, more),
         Len(bags[c].array) <= Len(r.array), \A i \in 1..Len(bags[c].array) : r.array[i] = bags[c].array[i],
         Counted(r.array, Len(r.array)) = Together(Counted(bags[c].array, Len(bags[c].array)), more)
  PROVE  IterShape(it) /\ (c = "x" => IterSo(r.array, it)) /\ (c = "y" => it = bagIter)
  <1>1. PICK o : o = bagIter /\ IterShape(o) /\ IterSo(bags["x"].array, o)
    BY DEF BagInv
  <1>2. CASE c = "x" /\ o.exists
    <2>1. PICK a \in Seq(BagElement) : a = bags["x"].array /\ a = bags[c].array
      BY <1>2 DEF BagInv, GoodBag, BagSet, BagId
    <2>2. PICK d : d = Together(o.due, more)
      OBVIOUS
    <2>3. it = [o EXCEPT !.due = d]
      BY <1>1, <1>2, <2>2 DEF Due
    <2>4. IterShape(it) /\ it.current = o.current /\ it.due = d /\ it.seen = o.seen
      BY <1>1, <2>3 DEF IterShape
    <2>5. o.current \in Nat /\ o.current <= Len(a) /\ o.due = Counted(a, Len(a)) /\ o.seen = Counted(a, o.current)
      BY <1>1, <1>2, <2>1 DEF IterSo
    <2>6. Len(r.array) \in Nat /\ Len(a) \in Nat
      BY DEF GoodBag, BagSet
    <2>7. o.current <= Len(r.array)
      BY <2>1, <2>5, <2>6
    <2>8. \A i \in 1..o.current : i \in 1..Len(a)
      BY <2>5, <2>6
    <2>9. \A i \in 1..o.current : r.array[i] = a[i]
      BY <2>1, <2>8
    <2>10. Counted(r.array, o.current) = Counted(a, o.current)
      BY <2>9, CountedSame
    <2>11. d = Counted(r.array, Len(r.array))
      BY <2>1, <2>2, <2>5
    <2> QED
      BY <1>2, <2>4, <2>5, <2>7, <2>10, <2>11 DEF IterSo
  <1>3. CASE ~(c = "x" /\ o.exists)
    <2>1. it = o
      BY <1>1, <1>3 DEF Due
    <2> QED
      BY <1>1, <1>3, <2>1 DEF IterSo
  <1> QED
    BY <1>2, <1>3

\* A step that takes elements from a bag that has no iterator
LEMMA QuietChanged ==
  ASSUME BagInv, NEW b \in BagId, NEW r, GoodBag(r), NEW m, m = Counted(r.array, Len(r.array)),
         bags' = [bags EXCEPT ![b] = r], bagHolds' = [bagHolds EXCEPT ![b] = m], Quiet(b), bagIter' = bagIter
  PROVE  BagInv'
  <1>1. PICK it : it = bagIter'
    OBVIOUS
  <1>2. it = bagIter /\ IterShape(it)
    BY <1>1 DEF BagInv
  <1>3. b = "x" => IterSo(r.array, it)
    BY <1>2 DEF Quiet, IterSo
  <1> QED
    BY <1>1, <1>2, <1>3, BagChanged

\* bagFilter2
LEMMA BagFilterSteps ==
  ASSUME BagInv, NEW b \in BagId, NEW keep, bagFilter2(b, keep)
  PROVE  BagInv'
  <1>1. PICK y : y = bags[b] /\ GoodBag(y) /\ bagHolds[b] = Counted(y.array, Len(y.array))
    BY DEF BagInv
  <1>2. PICK a \in Seq(BagElement) : a = y.array
    BY <1>1 DEF GoodBag, BagSet
  <1>3. PICK c : c = Kept(a, keep) /\ KeptParts(a, keep, c)
    BY KeptSo
  <1>4. PICK r : r = [y EXCEPT !.array = c]
    OBVIOUS
  <1>5. bags' = [bags EXCEPT ![b] = r] /\ Quiet(b) /\ bagIter' = bagIter
    BY <1>1, <1>2, <1>3, <1>4 DEF bagFilter2, BagInv
  <1>6. bagHolds' = [bagHolds EXCEPT ![b] = Only(bagHolds[b], keep)]
    BY DEF bagFilter2, BagInv
  <1>7. c \in Seq(BagElement) /\ Len(c) <= Len(a)
    BY <1>3 DEF KeptParts
  <1>8. r \in BagSet /\ r.array = c /\ r.capacity = y.capacity
    BY <1>1, <1>4, <1>7 DEF GoodBag, BagSet
  <1>9. GoodBag(r)
    <2>1. Len(a) <= y.capacity /\ y.capacity \in Nat /\ Len(a) \in Nat /\ Len(c) \in Nat
      BY <1>1, <1>2, <1>7 DEF GoodBag, BagSet
    <2> QED
      BY <1>7, <1>8, <2>1 DEF GoodBag
  <1>10. Counted(c, Len(c)) = Only(Counted(a, Len(a)), keep)
    BY <1>3, CountedKept
  <1>11. Counted(r.array, Len(r.array)) = Only(bagHolds[b], keep)
    BY <1>1, <1>2, <1>8, <1>10
  <1> QED
    BY <1>5, <1>6, <1>9, <1>11, QuietChanged

\* bagAdd and bagRemoveMaybe
LEMMA BagOneSteps ==
  ASSUME BagInv, NEW b \in BagId, NEW e \in BagElement, bagAdd(b, e) \/ bagRemoveMaybe(b, e)
  PROVE  BagInv'
  <1>1. PICK y : y = bags[b] /\ GoodBag(y) /\ bagHolds[b] = Counted(y.array, Len(y.array))
    BY DEF BagInv
  <1>2. PICK it : it = bagIter'
    OBVIOUS
  <1>3. CASE bagAdd(b, e)
    <2>1. PICK r : r = Plus(y, e) /\ PlusParts(y, e, r)
      BY <1>1, PlusSo
    <2>2. Counted(r.array, Len(r.array)) = Together(Counted(y.array, Len(y.array)), OneCopy(e))
      BY <1>1, <2>1, CountedPlus
    <2>3. bags' = [bags EXCEPT ![b] = r]
      BY <1>1, <1>3, <2>1 DEF bagAdd, BagInv
    <2>4. bagHolds' = [bagHolds EXCEPT ![b] = Together(bagHolds[b], OneCopy(e))]
      BY <1>3 DEF bagAdd, BagInv
    <2>5. it = Due(b, OneCopy(e))
      BY <1>2, <1>3 DEF bagAdd
    <2>6. GoodBag(r) /\ Len(y.array) <= Len(r.array) /\ \A i \in 1..Len(y.array) : r.array[i] = y.array[i]
      <3>1. Len(y.array) \in Nat
        BY <1>1 DEF GoodBag, BagSet
      <3> QED
        BY <2>1, <3>1 DEF PlusParts
    <2>7. IterShape(it) /\ (b = "x" => IterSo(r.array, it)) /\ (b = "y" => it = bagIter)
      BY <1>1, <2>2, <2>5, <2>6, IterGrown
    <2>8. PICK m : m = Together(bagHolds[b], OneCopy(e)) /\ m = Counted(r.array, Len(r.array))
      BY <1>1, <2>2
    <2> QED
      BY <1>2, <2>3, <2>4, <2>6, <2>7, <2>8, BagChanged
  <1>5. CASE bagRemoveMaybe(b, e)
    <2>1. PICK r : r = Minus(y, e) /\ MinusParts(y, e, r)
      BY <1>1, MinusSo
    <2>2. bags' = [bags EXCEPT ![b] = r] /\ Quiet(b) /\ bagIter' = bagIter
      BY <1>1, <1>5, <2>1 DEF bagRemoveMaybe, BagInv
    <2>3. bagHolds' = [bagHolds EXCEPT ![b] = Without(bagHolds[b], e)]
      BY <1>5 DEF bagRemoveMaybe, BagInv
    <2>4. GoodBag(r) /\ Counted(r.array, Len(r.array)) = Without(bagHolds[b], e)
      BY <1>1, <2>1 DEF MinusParts
    <2> QED
      BY <2>2, <2>3, <2>4, QuietChanged
  <1> QED
    BY <1>3, <1>5

\* A new bag is empty.
LEMMA CreatedBag ==
  ASSUME NEW c \in Nat, NEW i \in Nat, NEW z, z = bagCreate(c, i)
  PROVE  GoodBag(z) /\ Len(z.array) = 0
  <1>1. PICK n : n = << >> /\ n \in Seq(BagElement) /\ Len(n) = 0
    BY EmptySeq
  <1>2. z = [capacity |-> c, capacityIncrement |-> i, array |-> n]
    BY <1>1 DEF bagCreate
  <1>3. z \in BagSet /\ z.array = n /\ z.capacity = c
    BY <1>1, <1>2 DEF BagSet
  <1> QED
    BY <1>1, <1>3 DEF GoodBag

\* The functions with two bags
LEMMA BagTwoSteps ==
  ASSUME BagInv, NEW keep, NEW c \in BagId, NEW d \in BagId, bagFilter(keep) \/ bagDuplicate \/ bagAppend(c, d)
  PROVE  BagInv'
  <1>1. PICK it : it = bagIter'
    OBVIOUS
  <1>2. "x" \in BagId /\ "y" \in BagId
    BY DEF BagId
  <1>3. PICK x : x = bags["x"] /\ GoodBag(x) /\ bagHolds["x"] = Counted(x.array, Len(x.array))
    BY <1>2 DEF BagInv
  <1>4. PICK a \in Seq(BagElement) : a = x.array
    BY <1>3 DEF GoodBag, BagSet
  <1>5. CASE bagFilter(keep)
    <2>1. PICK z : z = bagCreate(10, 10)
      OBVIOUS
    <2>2. GoodBag(z) /\ Len(z.array) = 0
      BY <2>1, CreatedBag
    <2>3. PICK r : r = AddEach(z, a, keep) /\ EachTo(z, a, keep, Len(a), r)
      BY <2>2, EachSo
    <2>4. PICK m, o : m = Only(bagHolds["x"], keep) /\ o = Counted(z.array, Len(z.array))
      OBVIOUS
    <2>5. Counted(r.array, Len(r.array)) = Together(o, m)
      BY <1>3, <1>4, <2>3, <2>4, CountedEach
    <2>6. Together(o, m) = m
      <3>1. \A e \in BagElement : o[e] = 0
        BY <2>2, <2>4, CopiesNone DEF Counted
      <3>2. PICK w : w = bagHolds["x"] /\ \A e \in BagElement : w[e] \in Nat
        <4>1. \A e : CopiesTo(a, Len(a), e) \in Nat
          BY CopiesNext
        <4> QED
          BY <1>3, <1>4, <4>1 DEF Counted
      <3>3. m = [e \in BagElement |-> m[e]] /\ \A e \in BagElement : m[e] \in Nat
        BY <2>4, <3>2 DEF Only
      <3>4. \A e \in BagElement : o[e] + m[e] = m[e]
        BY <3>1, <3>3
      <3> QED
        BY <3>3, <3>4 DEF Together
    <2>7. bags' = [bags EXCEPT !["y"] = r]
      BY <1>3, <1>4, <1>5, <2>1, <2>3 DEF bagFilter
    <2>8. bagHolds' = [bagHolds EXCEPT !["y"] = m]
      BY <1>5, <2>4 DEF bagFilter
    <2>9. it = bagIter /\ IterShape(it) /\ "y" # "x"
      BY <1>1, <1>5 DEF bagFilter, BagInv
    <2>10. GoodBag(r)
      BY <2>3 DEF EachTo
    <2> QED
      BY <1>1, <1>2, <2>5, <2>6, <2>7, <2>8, <2>9, <2>10, BagChanged
  <1>6. CASE bagDuplicate
    <2>1. PICK m : m = bagHolds["x"] /\ m = Counted(x.array, Len(x.array))
      BY <1>3
    <2>2. bags' = [bags EXCEPT !["y"] = x]
      BY <1>3, <1>6 DEF bagDuplicate
    <2>3. bagHolds' = [bagHolds EXCEPT !["y"] = m]
      BY <1>6, <2>1 DEF bagDuplicate
    <2>4. it = bagIter /\ IterShape(it) /\ "y" # "x"
      BY <1>1, <1>6 DEF bagDuplicate, BagInv
    <2> QED
      BY <1>1, <1>2, <1>3, <2>1, <2>2, <2>3, <2>4, BagChanged
  <1>7. CASE bagAppend(c, d)
    <2>1. PICK y : y = bags[c] /\ GoodBag(y) /\ bagHolds[c] = Counted(y.array, Len(y.array))
      BY DEF BagInv
    <2>2. PICK z : z = bags[d] /\ GoodBag(z) /\ bagHolds[d] = Counted(z.array, Len(z.array))
      BY DEF BagInv
    <2>3. PICK s \in Seq(BagElement) : s = z.array
      BY <2>2 DEF GoodBag, BagSet
    <2>4. PICK r : r = AddEach(y, s, BagElement) /\ EachTo(y, s, BagElement, Len(s), r)
      BY <2>1, EachSo
    <2>5. PICK more : more = bagHolds[d]
      OBVIOUS
    <2>6. Only(more, BagElement) = more
      <3>1. more = [e \in BagElement |-> more[e]]
        BY <2>2, <2>5 DEF Counted
      <3> QED
        BY <3>1 DEF Only
    <2>7. Counted(r.array, Len(r.array)) = Together(Counted(y.array, Len(y.array)), Only(Counted(s, Len(s)), BagElement))
      BY <2>4, CountedEach
    <2>8. PICK m : m = Together(bagHolds[c], more) /\ m = Counted(r.array, Len(r.array))
      BY <2>1, <2>2, <2>3, <2>5, <2>6, <2>7
    <2>9. bags' = [bags EXCEPT ![c] = r]
      BY <1>7, <2>1, <2>2, <2>3, <2>4 DEF bagAppend, BagInv
    <2>10. bagHolds' = [bagHolds EXCEPT ![c] = m]
      BY <1>7, <2>5, <2>8 DEF bagAppend, BagInv
    <2>11. it = Due(c, more)
      BY <1>1, <1>7, <2>5 DEF bagAppend
    <2>12. GoodBag(r) /\ Len(y.array) <= Len(r.array) /\ \A i \in 1..Len(y.array) : r.array[i] = y.array[i]
      BY <2>4 DEF EachTo
    <2>13. IterShape(it) /\ (c = "x" => IterSo(r.array, it)) /\ (c = "y" => it = bagIter)
      <3>1. Counted(r.array, Len(r.array)) = Together(Counted(bags[c].array, Len(bags[c].array)), more)
        BY <2>1, <2>8
      <3>2. Len(bags[c].array) <= Len(r.array) /\ \A i \in 1..Len(bags[c].array) : r.array[i] = bags[c].array[i]
        BY <2>1, <2>12
      <3> QED
        BY <2>11, <2>12, <3>1, <3>2, IterGrown
    <2> QED
      BY <1>1, <2>8, <2>9, <2>10, <2>12, <2>13, BagChanged
  <1> QED
    BY <1>5, <1>6, <1>7

\* A step of an iterator alone
LEMMA IterSteps ==
  ASSUME BagInv, bagIteratorCreate \/ bagIteratorNext \/ bagIteratorDestroy
  PROVE  BagInv'
  <1>1. bags' = bags /\ bagHolds' = bagHolds
    BY DEF bagIteratorCreate, bagIteratorNext, bagIteratorDestroy
  <1>2. PICK x : x = bags["x"] /\ GoodBag(x) /\ bagHolds["x"] = Counted(x.array, Len(x.array))
    BY DEF BagInv, BagId
  <1>3. PICK a \in Seq(BagElement) : a = x.array
    BY <1>2 DEF GoodBag, BagSet
  <1>4. PICK n \in Nat : n = Len(a)
    OBVIOUS
  <1>5. PICK o : o = bagIter /\ IterShape(o) /\ IterSo(a, o)
    BY <1>2, <1>3 DEF BagInv
  <1>6. PICK it : it = bagIter'
    OBVIOUS
  <1>7. CASE bagIteratorCreate
    <2>1. PICK t : t = TRUE
      OBVIOUS
    <2>2. PICK w : w = Counted(a, n)
      OBVIOUS
    <2>3. it = [NoIterator EXCEPT !.exists = t, !.due = w]
      BY <1>2, <1>3, <1>4, <1>6, <1>7, <2>1, <2>2 DEF bagIteratorCreate
    <2>4. IterShape(it) /\ it.current = 0 /\ it.due = w /\ it.seen = NoCopies
      BY <2>3 DEF NoIterator, IterShape
    <2>5. NoCopies = Counted(a, 0)
      BY CopiesNone DEF NoCopies, Counted
    <2>6. IterSo(a, it)
      BY <1>4, <2>2, <2>4, <2>5 DEF IterSo
    <2> QED
      BY <1>1, <1>2, <1>3, <1>6, <2>4, <2>6 DEF BagInv
  <1>8. CASE bagIteratorNext
    <2>1. o.exists /\ o.current < n
      BY <1>2, <1>3, <1>4, <1>5, <1>8 DEF bagIteratorNext, bagIteratorHasNext
    <2>2. PICK k \in Nat : k = o.current
      BY <1>5, <2>1 DEF IterSo
    <2>3. o.due = Counted(a, n) /\ o.seen = Counted(a, k)
      BY <1>4, <1>5, <2>1, <2>2 DEF IterSo
    <2>4. PICK w : w = Together(o.seen, OneCopy(a[k + 1]))
      OBVIOUS
    <2>5. it = [o EXCEPT !.current = k + 1, !.seen = w]
      BY <1>2, <1>3, <1>5, <1>6, <1>8, <2>2, <2>4 DEF bagIteratorNext
    <2>6. IterShape(it) /\ it.current = k + 1 /\ it.due = o.due /\ it.seen = w
      BY <1>5, <2>5 DEF IterShape
    <2>7. w = Counted(a, k + 1)
      BY <2>3, <2>4, CountedNext
    <2>8. k + 1 \in Nat /\ k + 1 <= n
      BY <1>4, <2>1, <2>2
    <2>9. IterSo(a, it)
      BY <1>4, <2>3, <2>6, <2>7, <2>8 DEF IterSo
    <2> QED
      BY <1>1, <1>2, <1>3, <1>6, <2>6, <2>9 DEF BagInv
  <1>9. CASE bagIteratorDestroy
    <2>1. it = NoIterator
      BY <1>6, <1>9 DEF bagIteratorDestroy
    <2>2. IterShape(it) /\ ~it.exists
      BY <2>1 DEF NoIterator, IterShape
    <2>3. IterSo(a, it)
      BY <2>2 DEF IterSo
    <2> QED
      BY <1>1, <1>2, <1>3, <1>6, <2>2, <2>3 DEF BagInv
  <1> QED
    BY <1>7, <1>8, <1>9

\* Every step of bag.c keeps the invariant.
LEMMA BagSteps ==
  ASSUME BagInv, [BagNext]_bagVars
  PROVE  BagInv'
  <1>1. CASE UNCHANGED bagVars
    BY <1>1 DEF bagVars, BagInv
  <1>2. CASE \E b \in BagId, e \in BagElement : bagAdd(b, e) \/ bagRemoveMaybe(b, e)
    BY <1>2, BagOneSteps
  <1>3. ASSUME NEW b \in BagId, NEW keep \in SUBSET BagElement, bagFilter2(b, keep) PROVE BagInv'
    BY <1>3, BagFilterSteps
  <1>4. CASE \E keep \in SUBSET BagElement : bagFilter(keep)
    BY <1>4, BagTwoSteps DEF BagId
  <1>5. CASE bagDuplicate \/ \E r, s \in BagId : bagAppend(r, s)
    BY <1>5, BagTwoSteps DEF BagId
  <1>6. CASE bagIteratorCreate \/ bagIteratorNext \/ bagIteratorDestroy
    BY <1>6, IterSteps
  <1> QED
    BY <1>1, <1>2, <1>3, <1>4, <1>5, <1>6 DEF BagNext

\* At the start the bags are empty.
LEMMA BagStart ==
  ASSUME BagInit
  PROVE  BagInv
  <1>1. PICK z : z = bagCreate(BagCapacity, BagIncrement)
    OBVIOUS
  <1>2. GoodBag(z) /\ Len(z.array) = 0
    BY <1>1, BagAssumption, CreatedBag
  <1>3. NoCopies = Counted(z.array, 0)
    BY CopiesNone DEF NoCopies, Counted
  <1>4. PICK it : it = bagIter /\ it = NoIterator
    BY DEF BagInit
  <1>5. IterShape(it) /\ ~it.exists
    BY <1>4 DEF NoIterator, IterShape
  <1>6. \A a : IterSo(a, it)
    BY <1>5 DEF IterSo
  <1>7. bags = [b \in BagId |-> z] /\ bagHolds = [b \in BagId |-> NoCopies]
    BY <1>1 DEF BagInit
  <1> QED
    BY <1>2, <1>3, <1>4, <1>5, <1>6, <1>7 DEF BagInv

\* What the invariant says of the bags
LEMMA BagSoundly == BagInv => BagSound
  <1> SUFFICES ASSUME BagInv PROVE BagSound
    OBVIOUS
  <1>1. ASSUME NEW b \in BagId PROVE Contents(bags[b].array) = bagHolds[b] /\ Len(bags[b].array) <= bags[b].capacity
    <2>1. PICK a \in Seq(BagElement) : a = bags[b].array
      BY DEF BagInv, GoodBag, BagSet
    <2>2. Contents(a) = Counted(a, Len(a))
      BY ContentsAre DEF Counted
    <2> QED
      BY <2>1, <2>2 DEF BagInv, GoodBag
  <1>2. ASSUME bagIter.exists, ~bagIteratorHasNext PROVE bagIter.seen = bagIter.due
    <2>1. PICK a \in Seq(BagElement) : a = bags["x"].array
      BY DEF BagInv, GoodBag, BagSet, BagId
    <2>2. PICK n \in Nat : n = Len(a)
      OBVIOUS
    <2>3. PICK k \in Nat : k = bagIter.current /\ k <= n /\ bagIter.due = Counted(a, n) /\ bagIter.seen = Counted(a, k)
      BY <1>2, <2>1, <2>2 DEF BagInv, IterSo
    <2>4. k = n
      BY <1>2, <2>1, <2>2, <2>3 DEF bagIteratorHasNext
    <2> QED
      BY <2>3, <2>4
  <1> QED
    BY <1>1, <1>2 DEF BagSound

\* bag.c: growing, filling gaps with the last element, filtering in place and copying neither lose nor double an element,
\* whatever the capacity and the increment, and an iteration meets everything once.
THEOREM BagStaysSound == Spec => []BagSound
  <1>1. Init => BagInv
    BY BagStart DEF Init
  <1>2. BagInv /\ [Next]_libraryVars => BagInv'
    <2>1. ASSUME [Next]_libraryVars PROVE [BagNext]_bagVars
      BY <2>1 DEF Next, libraryVars
    <2> QED
      BY <2>1, BagSteps
  <1>3. BagInv => BagSound
    BY BagSoundly
  <1> QED
    BY <1>1, <1>2, <1>3, PTL DEF Spec

-----------------------------------------------------------------------------
(* Word maps: the chains of a hash table *)

\* n chains, each entry in the one of its key, and a key once
Chains(n, A) == n \in Nat /\ n # 0 /\ A \in [0..(n - 1) -> Seq(Entry)]

InPlace(f, n, A) == \A i \in 0..(n - 1) : \A j \in 1..Len(A[i]) : calcIndx[f][A[i][j][f]] % n = i

KeysOnce(f, n, A) == \A i \in 0..(n - 1) : \A j, k \in 1..Len(A[i]) : A[i][j][f] = A[i][k][f] => j = k

AllIn(n, A) == {e \in Entry : \E i \in 0..(n - 1) : \E j \in 1..Len(A[i]) : A[i][j] = e}

GoodChains(f, n, A) == f \in {"name", "number"} /\ Chains(n, A) /\ InPlace(f, n, A) /\ KeysOnce(f, n, A)

TableOver(f, n, c, A) == [size |-> n, field |-> f, elementCount |-> c, infoArray |-> A]

\* The chain of an entry
LEMMA ChainOf ==
  ASSUME NEW f \in {"name", "number"}, NEW e \in Entry, NEW n \in Nat, n # 0
  PROVE  calcIndx[f][e[f]] % n \in 0..(n - 1)
  <1>1. PICK v \in Nat : v = calcIndx[f][e[f]]
    BY WordMapAssumption DEF Entry
  <1>2. v % n \in 0..(n - 1)
    OBVIOUS
  <1> QED
    BY <1>1, <1>2

\* HashElements are the entries of the chains.
LEMMA ElementsAre ==
  ASSUME NEW f, NEW n, NEW c, NEW A, Chains(n, A), NEW ht, ht = TableOver(f, n, c, A)
  PROVE  HashElements(ht) = AllIn(n, A)
  <1>1. ht.size = n /\ ht.infoArray = A
    BY DEF TableOver
  <1>2. \A i \in 0..(n - 1) : A[i] \in Seq(Entry)
    BY DEF Chains
  <1>3. \A i \in 0..(n - 1) : Range(A[i]) = {A[i][j] : j \in 1..Len(A[i])}
    BY <1>2 DEF Range
  <1>4. \A i \in 0..(n - 1) : \A j \in 1..Len(A[i]) : A[i][j] \in Entry
    BY <1>2
  <1>5. HashElements(ht) = UNION {Range(A[i]) : i \in 0..(n - 1)}
    BY <1>1 DEF HashElements
  <1>6. \A e : e \in HashElements(ht) <=> \E i \in 0..(n - 1) : e \in Range(A[i])
    BY <1>5
  <1>7. \A e : e \in HashElements(ht) <=> \E i \in 0..(n - 1) : \E j \in 1..Len(A[i]) : A[i][j] = e
    <2>1. \A i \in 0..(n - 1) : \A e : e \in Range(A[i]) <=> \E j \in 1..Len(A[i]) : A[i][j] = e
      BY <1>3
    <2> QED
      BY <1>6, <2>1
  <1>8. \A e : e \in AllIn(n, A) <=> \E i \in 0..(n - 1) : \E j \in 1..Len(A[i]) : A[i][j] = e
    BY <1>4 DEF AllIn
  <1> QED
    BY <1>7, <1>8

\* The cell that FindInfo finds
FoundAt(f, n, A, key, i) == i \in 1..Len(A[calcIndx[f][key] % n]) /\ A[calcIndx[f][key] % n][i][f] = key

\* It is there when an entry has the key, and 0 stands for none.
LEMMA FindSo ==
  ASSUME NEW f, NEW n, NEW c, NEW A, GoodChains(f, n, A), NEW ht, ht = TableOver(f, n, c, A), NEW key, calcIndx[f][key] \in Nat
  PROVE  \/ FindInfo(ht, key) = 0 /\ \A e \in AllIn(n, A) : e[f] # key
         \/ FindInfo(ht, key) \in Nat \ {0} /\ FoundAt(f, n, A, key, FindInfo(ht, key))
  <1>1. PICK h \in 0..(n - 1) : h = calcIndx[f][key] % n
    <2>1. PICK v \in Nat : v = calcIndx[f][key]
      OBVIOUS
    <2>2. n \in Nat /\ n # 0
      BY DEF GoodChains, Chains
    <2>3. v % n \in 0..(n - 1)
      BY <2>2
    <2> QED
      BY <2>1, <2>3
  <1>2. PICK s \in Seq(Entry) : s = A[h]
    BY DEF GoodChains, Chains
  <1>3. PICK at : at = {i \in 1..Len(s) : s[i][f] = key}
    OBVIOUS
  <1>4. ht.size = n /\ ht.infoArray = A /\ ht.field = f
    BY DEF TableOver
  <1>5. FindInfo(ht, key) = IF at = {} THEN 0 ELSE CHOOSE i \in at : \A j \in at : i <= j
    <2>1. Hashval(ht, key) = h
      BY <1>1, <1>4 DEF Hashval
    <2>2. DOMAIN s = 1..Len(s)
      BY <1>2
    <2> QED
      BY <1>2, <1>3, <1>4, <2>1, <2>2 DEF FindInfo
  <1>6. CASE at = {}
    <2>1. ASSUME NEW e \in AllIn(n, A), e[f] = key PROVE FALSE
      <3>0. PICK i \in 0..(n - 1) : \E j \in 1..Len(A[i]) : A[i][j] = e
        BY DEF AllIn
      <3>1. PICK j \in 1..Len(A[i]) : A[i][j] = e
        BY <3>0
      <3>2. i = h
        BY <1>1, <2>1, <3>1 DEF GoodChains, InPlace
      <3> QED
        BY <1>2, <1>3, <1>6, <2>1, <3>1, <3>2
    <2> QED
      BY <1>5, <1>6, <2>1
  <1>7. CASE at # {}
    <2>1. at \in SUBSET Nat
      BY <1>3
    <2>2. PICK k \in at : \A j \in at : ~(j < k)
      BY <1>7, <2>1, LeastOf
    <2>3. \A j \in at : k <= j
      BY <2>1, <2>2
    <2>4. FindInfo(ht, key) \in at
      BY <1>5, <1>7, <2>3
    <2>5. ASSUME NEW i \in at PROVE i \in Nat \ {0} /\ FoundAt(f, n, A, key, i)
      <3>1. i \in 1..Len(s) /\ s[i][f] = key
        BY <1>3
      <3>2. i \in Nat \ {0}
        BY <3>1
      <3>3. FoundAt(f, n, A, key, i)
        BY <1>1, <1>2, <3>1 DEF FoundAt
      <3> QED
        BY <3>2, <3>3
    <2> QED
      BY <2>4, <2>5
  <1> QED
    BY <1>6, <1>7

\* A chain that may stand in place h
ChainFits(f, n, h, t) ==
  /\ \A j \in 1..Len(t) : calcIndx[f][t[j][f]] % n = h
  /\ \A j, k \in 1..Len(t) : t[j][f] = t[k][f] => j = k

\* An entry of another chain than h
Elsewhere(n, A, h, e) == e \in Entry /\ \E i \in 0..(n - 1) : i # h /\ \E j \in 1..Len(A[i]) : A[i][j] = e

\* The chains when there is another one in place h
ChainParts(f, n, A, h, t, B) ==
  GoodChains(f, n, B) /\ \A e : e \in AllIn(n, B) <=> (\E j \in 1..Len(t) : t[j] = e) \/ Elsewhere(n, A, h, e)

\* A new chain in the place of another
LEMMA ChainChanged ==
  ASSUME NEW f, NEW n, NEW A, GoodChains(f, n, A), NEW h \in 0..(n - 1), NEW t \in Seq(Entry), NEW B, B = [A EXCEPT ![h] = t], ChainFits(f, n, h, t)
  PROVE  ChainParts(f, n, A, h, t, B)
  <1>1. B \in [0..(n - 1) -> Seq(Entry)] /\ B[h] = t /\ \A i \in 0..(n - 1) : i # h => B[i] = A[i]
    BY DEF GoodChains, Chains
  <1>2. Chains(n, B)
    BY <1>1 DEF GoodChains, Chains
  <1>3. InPlace(f, n, B)
    BY <1>1 DEF GoodChains, InPlace, ChainFits
  <1>4. KeysOnce(f, n, B)
    <2> SUFFICES ASSUME NEW i \in 0..(n - 1), NEW j \in 1..Len(B[i]), NEW k \in 1..Len(B[i]), B[i][j][f] = B[i][k][f] PROVE j = k
      BY DEF KeysOnce
    <2>1. CASE i = h
      BY <1>1, <2>1 DEF ChainFits
    <2>2. CASE i # h
      <3>1. B[i] = A[i]
        BY <1>1, <2>2
      <3> QED
        BY <3>1 DEF GoodChains, KeysOnce
    <2> QED
      BY <2>1, <2>2
  <1>5. \A j \in 1..Len(t) : t[j] \in Entry
    OBVIOUS
  <1>6. \A e : e \in AllIn(n, B) <=> (\E j \in 1..Len(t) : t[j] = e) \/ Elsewhere(n, A, h, e)
    BY <1>1, <1>5 DEF AllIn, Elsewhere
  <1> QED
    BY <1>2, <1>3, <1>4, <1>6 DEF GoodChains, ChainParts

\* The chains with an entry in front of one, or without an entry of one
Prefixed(A, h, x) == [A EXCEPT ![h] = <<x>> \o A[h]]

Unlinked(A, h, i) == [A EXCEPT ![h] = RemoveAt(A[h], i)]

\* An entry with a new key comes first in its chain.
LEMMA ChainAdds ==
  ASSUME NEW f, NEW n, NEW A, GoodChains(f, n, A), NEW x \in Entry, \A e \in AllIn(n, A) : e[f] # x[f],
         NEW h, h = calcIndx[f][x[f]] % n, NEW B, B = Prefixed(A, h, x)
  PROVE  GoodChains(f, n, B) /\ AllIn(n, B) = AllIn(n, A) \cup {x}
  <1>1. h \in 0..(n - 1)
    BY ChainOf DEF GoodChains, Chains
  <1>2. PICK s \in Seq(Entry) : s = A[h]
    BY <1>1 DEF GoodChains, Chains
  <1>3. PICK l \in Nat : l = Len(s)
    OBVIOUS
  <1>4. PICK t \in Seq(Entry) : t = <<x>> \o s /\ Len(t) = l + 1 /\ \A j \in 1..(l + 1) : t[j] = IF j = 1 THEN x ELSE s[j - 1]
    <2>1. <<x>> \in Seq(Entry) /\ Len(<<x>>) = 1 /\ <<x>>[1] = x
      OBVIOUS
    <2>2. PICK o \in Seq(Entry) : o = <<x>> /\ Len(o) = 1 /\ o[1] = x
      BY <2>1
    <2>3. PICK t : t = o \o s
      OBVIOUS
    <2>4. t \in Seq(Entry) /\ Len(t) = 1 + l /\ \A j \in 1..(1 + l) : t[j] = IF j <= 1 THEN o[j] ELSE s[j - 1]
      BY <1>3, <2>2, <2>3, ConcatProperties
    <2>5. 1 + l = l + 1 /\ \A j \in 1..(l + 1) : (j <= 1 <=> j = 1)
      BY <1>3
    <2> QED
      BY <2>2, <2>3, <2>4, <2>5
  <1>5. B = [A EXCEPT ![h] = t]
    BY <1>2, <1>4 DEF Prefixed
  <1>6. \A j \in 1..(l + 1) : j # 1 => j - 1 \in 1..l
    BY <1>3
  <1>7. \A j \in 1..l : calcIndx[f][s[j][f]] % n = h /\ s[j] \in AllIn(n, A)
    <2>1. \A j \in 1..l : s[j] \in Entry
      BY <1>3
    <2> QED
      BY <1>1, <1>2, <1>3, <2>1 DEF GoodChains, InPlace, AllIn
  <1>8. \A j \in 1..Len(t) : calcIndx[f][t[j][f]] % n = h
    BY <1>4, <1>6, <1>7
  <1>9. \A j, k \in 1..Len(t) : t[j][f] = t[k][f] => j = k
    <2> SUFFICES ASSUME NEW j \in 1..(l + 1), NEW k \in 1..(l + 1), t[j][f] = t[k][f] PROVE j = k
      BY <1>4
    <2>1. CASE j = 1 /\ k = 1
      BY <2>1
    <2>2. CASE j = 1 /\ k # 1
      BY <1>4, <1>6, <1>7, <2>2
    <2>3. CASE j # 1 /\ k = 1
      BY <1>4, <1>6, <1>7, <2>3
    <2>4. CASE j # 1 /\ k # 1
      <3>1. j - 1 \in 1..l /\ k - 1 \in 1..l /\ s[j - 1][f] = s[k - 1][f]
        BY <1>4, <1>6, <2>4
      <3>2. j - 1 = k - 1
        BY <1>1, <1>2, <1>3, <3>1 DEF GoodChains, KeysOnce
      <3> QED
        BY <1>3, <3>2
    <2> QED
      BY <2>1, <2>2, <2>3, <2>4
  <1>10. ChainParts(f, n, A, h, t, B)
    <2>1. ChainFits(f, n, h, t)
      BY <1>8, <1>9 DEF ChainFits
    <2> QED
      BY <1>1, <1>5, <2>1, ChainChanged
  <1>11. \A e : (\E j \in 1..Len(t) : t[j] = e) <=> e = x \/ \E j \in 1..Len(s) : s[j] = e
    <2>1. \A j \in 1..l : j + 1 \in 1..(l + 1) /\ j + 1 # 1 /\ (j + 1) - 1 = j
      BY <1>3
    <2>2. 1 \in 1..(l + 1)
      BY <1>3
    <2> QED
      BY <1>3, <1>4, <1>6, <2>1, <2>2
  <1>12. \A e : e \in AllIn(n, A) <=> (\E j \in 1..Len(s) : s[j] = e) \/ Elsewhere(n, A, h, e)
    <2>1. \A j \in 1..Len(s) : s[j] \in Entry
      OBVIOUS
    <2> QED
      BY <1>1, <1>2, <2>1 DEF AllIn, Elsewhere
  <1> QED
    BY <1>10, <1>11, <1>12 DEF ChainParts

\* An entry leaves its chain.
LEMMA ChainRemoves ==
  ASSUME NEW f, NEW n, NEW A, GoodChains(f, n, A), NEW x \in AllIn(n, A), NEW h, h = calcIndx[f][x[f]] % n,
         NEW i, FoundAt(f, n, A, x[f], i), NEW B, B = Unlinked(A, h, i)
  PROVE  GoodChains(f, n, B) /\ AllIn(n, B) = AllIn(n, A) \ {x}
  <1>1. h \in 0..(n - 1) /\ x \in Entry
    BY ChainOf DEF GoodChains, Chains, AllIn
  <1>2. PICK s \in Seq(Entry) : s = A[h]
    BY <1>1 DEF GoodChains, Chains
  <1>3. PICK l \in Nat : l = Len(s)
    OBVIOUS
  <1>4. i \in 1..l /\ s[i][f] = x[f]
    BY <1>2, <1>3 DEF FoundAt
  <1>5. s[i] = x
    <2>0. PICK k \in 0..(n - 1) : \E j \in 1..Len(A[k]) : A[k][j] = x
      BY DEF AllIn
    <2>1. PICK j \in 1..Len(A[k]) : A[k][j] = x
      BY <2>0
    <2>2. k = h
      BY <2>1 DEF GoodChains, InPlace
    <2>3. j = i
      BY <1>1, <1>2, <1>3, <1>4, <2>1, <2>2 DEF GoodChains, KeysOnce
    <2> QED
      BY <1>2, <2>1, <2>2, <2>3
  <1>6. PICK t \in Seq(Entry) : t = RemoveAt(s, i) /\ Len(t) = l - 1 /\ \A j \in 1..(l - 1) : t[j] = IF j < i THEN s[j] ELSE s[j + 1]
    <2>1. PICK a, b : a = SubSeq(s, 1, i - 1) /\ b = SubSeq(s, i + 1, l)
      OBVIOUS
    <2>2. a \in Seq(Entry) /\ Len(a) = i - 1 /\ \A j \in 1..(i - 1) : a[j] = s[j]
      BY <1>3, <1>4, <2>1
    <2>3. b \in Seq(Entry) /\ Len(b) = l - i /\ \A j \in 1..(l - i) : b[j] = s[i + j]
      BY <1>3, <1>4, <2>1
    <2>4. PICK t : t = a \o b
      OBVIOUS
    <2>5. t \in Seq(Entry) /\ Len(t) = (i - 1) + (l - i) /\ \A j \in 1..((i - 1) + (l - i)) : t[j] = IF j <= i - 1 THEN a[j] ELSE b[j - (i - 1)]
      <3>1. PICK p, q \in Nat : p = i - 1 /\ q = l - i
        BY <1>3, <1>4
      <3>2. Len(a) = p /\ Len(b) = q
        BY <2>2, <2>3, <3>1
      <3>3. t \in Seq(Entry) /\ Len(t) = p + q /\ \A j \in 1..(p + q) : t[j] = IF j <= p THEN a[j] ELSE b[j - p]
        BY <2>2, <2>3, <2>4, <3>2, ConcatProperties
      <3> QED
        BY <3>1, <3>3
    <2>6. (i - 1) + (l - i) = l - 1
      BY <1>3, <1>4
    <2>7. \A j \in 1..(l - 1) : IF j < i THEN j <= i - 1 /\ j \in 1..(i - 1) ELSE ~(j <= i - 1) /\ j - (i - 1) \in 1..(l - i) /\ i + (j - (i - 1)) = j + 1
      BY <1>3, <1>4
    <2>8. \A j \in 1..(l - 1) : t[j] = IF j < i THEN s[j] ELSE s[j + 1]
      BY <2>2, <2>3, <2>5, <2>6, <2>7
    <2>9. t = RemoveAt(s, i)
      BY <1>3, <2>1, <2>4 DEF RemoveAt
    <2> QED
      BY <2>5, <2>6, <2>8, <2>9
  <1>7. B = [A EXCEPT ![h] = t]
    BY <1>2, <1>6 DEF Unlinked
  <1>8. \A j \in 1..(l - 1) : \E k \in 1..l : t[j] = s[k] /\ k # i /\ k = IF j < i THEN j ELSE j + 1
    <2>1. \A j \in 1..(l - 1) : IF j < i THEN j \in 1..l /\ j # i ELSE j + 1 \in 1..l /\ j + 1 # i
      BY <1>3, <1>4
    <2> QED
      BY <1>6, <2>1
  <1>9. \A j \in 1..l : calcIndx[f][s[j][f]] % n = h
    BY <1>1, <1>2, <1>3 DEF GoodChains, InPlace
  <1>10. \A j, k \in 1..l : s[j][f] = s[k][f] => j = k
    BY <1>1, <1>2, <1>3 DEF GoodChains, KeysOnce
  <1>11. \A j \in 1..Len(t) : calcIndx[f][t[j][f]] % n = h
    <2> SUFFICES ASSUME NEW j \in 1..(l - 1) PROVE calcIndx[f][t[j][f]] % n = h
      BY <1>6
    <2>1. PICK k \in 1..l : t[j] = s[k]
      BY <1>8
    <2> QED
      BY <1>9, <2>1
  <1>12. \A j, k \in 1..Len(t) : t[j][f] = t[k][f] => j = k
    <2> SUFFICES ASSUME NEW j \in 1..(l - 1), NEW k \in 1..(l - 1), t[j][f] = t[k][f] PROVE j = k
      BY <1>6
    <2>1. PICK p \in 1..l : t[j] = s[p] /\ p = IF j < i THEN j ELSE j + 1
      BY <1>8
    <2>2. PICK q \in 1..l : t[k] = s[q] /\ q = IF k < i THEN k ELSE k + 1
      BY <1>8
    <2>3. p = q
      BY <1>10, <2>1, <2>2
    <2> QED
      BY <1>3, <1>4, <2>1, <2>2, <2>3
  <1>13. ChainParts(f, n, A, h, t, B)
    <2>1. ChainFits(f, n, h, t)
      BY <1>11, <1>12 DEF ChainFits
    <2> QED
      BY <1>1, <1>7, <2>1, ChainChanged
  <1>14. \A e : (\E j \in 1..Len(t) : t[j] = e) <=> \E j \in 1..l : j # i /\ s[j] = e
    <2>1. \A j \in 1..l : j # i => \E k \in 1..(l - 1) : t[k] = s[j]
      <3> SUFFICES ASSUME NEW j \in 1..l, j # i PROVE \E k \in 1..(l - 1) : t[k] = s[j]
        OBVIOUS
      <3>1. CASE j < i
        BY <1>3, <1>4, <1>6, <3>1
      <3>2. CASE ~(j < i)
        <4>1. j - 1 \in 1..(l - 1) /\ ~(j - 1 < i) /\ (j - 1) + 1 = j
          BY <1>3, <1>4, <3>2
        <4> QED
          BY <1>6, <4>1
      <3> QED
        BY <3>1, <3>2
    <2>2. \A j \in 1..Len(t) : \E k \in 1..l : k # i /\ s[k] = t[j]
      BY <1>6, <1>8
    <2>3. \A j \in 1..l : j # i => \E k \in 1..Len(t) : t[k] = s[j]
      BY <1>6, <2>1
    <2> QED
      BY <2>2, <2>3
  <1>15. \A e : e \in AllIn(n, A) <=> (\E j \in 1..l : s[j] = e) \/ Elsewhere(n, A, h, e)
    <2>1. \A j \in 1..l : s[j] \in Entry
      BY <1>3
    <2> QED
      BY <1>1, <1>2, <1>3, <2>1 DEF AllIn, Elsewhere
  <1>16. \A j \in 1..l : j # i => s[j] # x
    BY <1>4, <1>5, <1>10
  <1>17. ~Elsewhere(n, A, h, x)
    BY DEF GoodChains, InPlace, Elsewhere
  <1>18. \A e : e \in AllIn(n, B) <=> e \in AllIn(n, A) /\ e # x
    <2>1. \A e : e \in AllIn(n, B) <=> (\E j \in 1..l : j # i /\ s[j] = e) \/ Elsewhere(n, A, h, e)
      BY <1>13, <1>14 DEF ChainParts
    <2>2. \A e : (\E j \in 1..l : j # i /\ s[j] = e) <=> e # x /\ \E j \in 1..l : s[j] = e
      BY <1>4, <1>5, <1>16
    <2> QED
      BY <1>15, <1>17, <2>1, <2>2
  <1> QED
    BY <1>13, <1>18 DEF ChainParts

-----------------------------------------------------------------------------
(* Word maps: a hash table *)

\* A table with the entries W
GoodTable(ht, f, W) ==
  \E n, c, A : ht = TableOver(f, n, c, A) /\ GoodChains(f, n, A) /\ AllIn(n, A) = W /\ IsFiniteSet(W) /\ c = Cardinality(W)

\* What is in it, and that its key is one
LEMMA TableHas ==
  ASSUME NEW ht, NEW f, NEW W, GoodTable(ht, f, W)
  PROVE  /\ HashElements(ht) = W /\ W \subseteq Entry /\ IsFiniteSet(W) /\ ht.elementCount = Cardinality(W) /\ ht.field = f
         /\ ht.size \in Nat /\ ht.size # 0 /\ f \in {"name", "number"}
         /\ \A d, e \in W : d[f] = e[f] => d = e
  <1>1. PICK n, c, A : ht = TableOver(f, n, c, A) /\ GoodChains(f, n, A) /\ AllIn(n, A) = W /\ IsFiniteSet(W) /\ c = Cardinality(W)
    BY DEF GoodTable
  <1>2. HashElements(ht) = W
    BY <1>1, ElementsAre DEF GoodChains
  <1>3. W \subseteq Entry
    BY <1>1 DEF AllIn
  <1>4. ASSUME NEW d \in W, NEW e \in W, d[f] = e[f] PROVE d = e
    <2>1. PICK i \in 0..(n - 1) : \E j \in 1..Len(A[i]) : A[i][j] = d
      BY <1>1 DEF AllIn
    <2>2. PICK j \in 1..Len(A[i]) : A[i][j] = d
      BY <2>1
    <2>3. PICK k \in 0..(n - 1) : \E l \in 1..Len(A[k]) : A[k][l] = e
      BY <1>1 DEF AllIn
    <2>4. PICK l \in 1..Len(A[k]) : A[k][l] = e
      BY <2>3
    <2>5. i = k
      BY <1>1, <1>4, <2>2, <2>4 DEF GoodChains, InPlace
    <2>6. j = l
      BY <1>1, <1>4, <2>2, <2>4, <2>5 DEF GoodChains, KeysOnce
    <2> QED
      BY <2>2, <2>4, <2>5, <2>6
  <1>5. ht.elementCount = c /\ ht.field = f /\ ht.size = n
    BY <1>1 DEF TableOver
  <1> QED
    BY <1>1, <1>2, <1>3, <1>4, <1>5 DEF GoodChains, Chains

\* A new table is empty.
LEMMA TableNew ==
  ASSUME NEW n \in Nat, n # 0, NEW f \in {"name", "number"}, NEW ht, ht = HashCreateTable(n, f)
  PROVE  GoodTable(ht, f, {}) /\ ht.size = n
  <1>1. PICK o : o = << >> /\ o \in Seq(Entry) /\ Len(o) = 0
    BY EmptySeq
  <1>2. PICK A : A = [i \in 0..(n - 1) |-> o]
    OBVIOUS
  <1>3. ht = TableOver(f, n, 0, A)
    BY <1>1, <1>2 DEF HashCreateTable, TableOver
  <1>4. \A i \in 0..(n - 1) : A[i] = o
    BY <1>2
  <1>5. 1..Len(o) = {}
    BY <1>1
  <1>6. Chains(n, A)
    BY <1>1, <1>2 DEF Chains
  <1>7. InPlace(f, n, A) /\ KeysOnce(f, n, A)
    BY <1>4, <1>5 DEF InPlace, KeysOnce
  <1>8. AllIn(n, A) = {}
    BY <1>4, <1>5 DEF AllIn
  <1>9. IsFiniteSet({}) /\ Cardinality({}) = 0
    BY FS_EmptySet
  <1>10. ht.size = n
    BY <1>3 DEF TableOver
  <1> QED
    BY <1>3, <1>6, <1>7, <1>8, <1>9, <1>10 DEF GoodTable, GoodChains

\* An entry with a new key is added.
LEMMA TableAdds ==
  ASSUME NEW ht, NEW f, NEW W, GoodTable(ht, f, W), NEW x \in Entry, \A e \in W : e[f] # x[f], NEW r, r = HashAdd(ht, x)
  PROVE  GoodTable(r, f, W \cup {x}) /\ r.size = ht.size
  <1>1. PICK n, c, A : ht = TableOver(f, n, c, A) /\ GoodChains(f, n, A) /\ AllIn(n, A) = W /\ IsFiniteSet(W) /\ c = Cardinality(W)
    BY DEF GoodTable
  <1>2. ht.size = n /\ ht.infoArray = A /\ ht.field = f /\ ht.elementCount = c
    BY <1>1 DEF TableOver
  <1>3. f \in {"name", "number"} /\ n \in Nat /\ n # 0
    BY <1>1 DEF GoodChains, Chains
  <1>4. PICK h \in 0..(n - 1) : h = calcIndx[f][x[f]] % n
    BY <1>3, ChainOf
  <1>5. PICK B : B = Prefixed(A, h, x)
    OBVIOUS
  <1>6. GoodChains(f, n, B) /\ AllIn(n, B) = W \cup {x}
    BY <1>1, <1>4, <1>5, ChainAdds
  <1>7. FindInfo(ht, x[f]) = 0
    <2>1. calcIndx[f][x[f]] \in Nat
      BY <1>3, WordMapAssumption DEF Entry
    <2>2. \/ FindInfo(ht, x[f]) = 0
          \/ FoundAt(f, n, A, x[f], FindInfo(ht, x[f]))
      BY <1>1, <2>1, FindSo
    <2>3. \A i : ~FoundAt(f, n, A, x[f], i)
      <3> SUFFICES ASSUME NEW i, FoundAt(f, n, A, x[f], i) PROVE FALSE
        OBVIOUS
      <3>1. PICK s \in Seq(Entry) : s = A[h]
        BY <1>1 DEF GoodChains, Chains
      <3>2. i \in 1..Len(s) /\ s[i][f] = x[f]
        BY <1>4, <3>1 DEF FoundAt
      <3>3. s[i] \in W
        BY <1>1, <3>1, <3>2 DEF AllIn
      <3> QED
        BY <3>2, <3>3
    <2> QED
      BY <2>2, <2>3
  <1>8. r = TableOver(f, n, c + 1, B)
    <2>1. Hashval(ht, x[f]) = h
      BY <1>2, <1>4 DEF Hashval
    <2>2. r = [ht EXCEPT !.infoArray[h] = <<x>> \o @, !.elementCount = @ + 1]
      BY <1>2, <1>7, <2>1 DEF HashAdd
    <2>3. r = [ht EXCEPT !.infoArray = B, !.elementCount = c + 1]
      BY <1>1, <1>2, <1>5, <2>2 DEF TableOver, Prefixed
    <2> QED
      BY <1>1, <2>3 DEF TableOver
  <1>9. IsFiniteSet(W \cup {x}) /\ c + 1 = Cardinality(W \cup {x})
    <2>1. x \notin W
      OBVIOUS
    <2> QED
      BY <1>1, <2>1, FS_AddElement
  <1>10. r.size = n
    BY <1>8 DEF TableOver
  <1> QED
    BY <1>2, <1>6, <1>8, <1>9, <1>10 DEF GoodTable

\* An entry is deleted.
LEMMA TableDeletes ==
  ASSUME NEW ht, NEW f, NEW W, GoodTable(ht, f, W), NEW x \in W, NEW r, r = HashDelete(ht, x)
  PROVE  GoodTable(r, f, W \ {x}) /\ r.size = ht.size
  <1>1. PICK n, c, A : ht = TableOver(f, n, c, A) /\ GoodChains(f, n, A) /\ AllIn(n, A) = W /\ IsFiniteSet(W) /\ c = Cardinality(W)
    BY DEF GoodTable
  <1>2. ht.size = n /\ ht.infoArray = A /\ ht.field = f /\ ht.elementCount = c
    BY <1>1 DEF TableOver
  <1>3. f \in {"name", "number"} /\ n \in Nat /\ n # 0 /\ x \in Entry
    BY <1>1 DEF GoodChains, Chains, AllIn
  <1>4. PICK h \in 0..(n - 1) : h = calcIndx[f][x[f]] % n
    BY <1>3, ChainOf
  <1>5. PICK i : i = FindInfo(ht, x[f])
    OBVIOUS
  <1>6. i # 0 /\ FoundAt(f, n, A, x[f], i)
    <2>1. calcIndx[f][x[f]] \in Nat
      BY <1>3, WordMapAssumption DEF Entry
    <2>2. \/ FindInfo(ht, x[f]) = 0 /\ \A e \in W : e[f] # x[f]
          \/ FindInfo(ht, x[f]) \in Nat \ {0} /\ FoundAt(f, n, A, x[f], FindInfo(ht, x[f]))
      BY <1>1, <2>1, FindSo
    <2> QED
      BY <1>5, <2>2
  <1>7. PICK B : B = Unlinked(A, h, i)
    OBVIOUS
  <1>8. GoodChains(f, n, B) /\ AllIn(n, B) = W \ {x}
    <2>1. x \in AllIn(n, A) /\ GoodChains(f, n, A)
      BY <1>1
    <2>2. GoodChains(f, n, B) /\ AllIn(n, B) = AllIn(n, A) \ {x}
      BY <1>4, <1>6, <1>7, <2>1, ChainRemoves
    <2> QED
      BY <1>1, <2>2
  <1>9. r = TableOver(f, n, c - 1, B)
    <2>1. Hashval(ht, x[f]) = h
      BY <1>2, <1>4 DEF Hashval
    <2>2. r = [ht EXCEPT !.infoArray[h] = RemoveAt(@, i), !.elementCount = @ - 1]
      BY <1>2, <1>5, <1>6, <2>1 DEF HashDelete
    <2>3. r = [ht EXCEPT !.infoArray = B, !.elementCount = c - 1]
      BY <1>1, <1>2, <1>7, <2>2 DEF TableOver, Unlinked
    <2> QED
      BY <1>1, <2>3 DEF TableOver
  <1>10. IsFiniteSet(W \ {x}) /\ c - 1 = Cardinality(W \ {x})
    BY <1>1, FS_RemoveElement
  <1>11. r.size = n
    BY <1>9 DEF TableOver
  <1> QED
    BY <1>2, <1>8, <1>9, <1>10, <1>11 DEF GoodTable

\* An entry is added, unless there is one with its key.
LEMMA TableTakes ==
  ASSUME NEW ht, NEW f, NEW W, GoodTable(ht, f, W), NEW x \in Entry, NEW r, r = HashAdd(ht, x)
  PROVE  GoodTable(r, f, D!Indexed(W, f, x)) /\ r.size = ht.size
  <1>1. CASE \A e \in W : e[f] # x[f]
    <2>1. D!Indexed(W, f, x) = W \cup {x}
      BY <1>1 DEF D!Indexed
    <2> QED
      BY <1>1, <2>1, TableAdds
  <1>2. CASE \E e \in W : e[f] = x[f]
    <2>1. PICK n, c, A : ht = TableOver(f, n, c, A) /\ GoodChains(f, n, A) /\ AllIn(n, A) = W
      BY DEF GoodTable
    <2>2. f \in {"name", "number"} /\ ht.field = f
      BY TableHas
    <2>3. calcIndx[f][x[f]] \in Nat
      BY <2>2, WordMapAssumption DEF Entry
    <2>4. FindInfo(ht, x[f]) # 0
      BY <1>2, <2>1, <2>3, FindSo
    <2>5. r = ht
      BY <2>2, <2>4 DEF HashAdd
    <2>6. D!Indexed(W, f, x) = W
      BY <1>2 DEF D!Indexed
    <2> QED
      BY <2>5, <2>6
  <1> QED
    BY <1>1, <1>2

\* The entry with the key of another is deleted, if there is one.
LEMMA TableLeaves ==
  ASSUME NEW ht, NEW f, NEW W, GoodTable(ht, f, W), NEW x \in Entry, NEW r, r = HashDelete(ht, x)
  PROVE  GoodTable(r, f, D!Without(W, f, x)) /\ r.size = ht.size
  <1>1. ht.field = f /\ f \in {"name", "number"} /\ \A d, e \in W : d[f] = e[f] => d = e
    BY TableHas
  <1>2. CASE \E e \in W : e[f] = x[f]
    <2>1. PICK y \in W : y[f] = x[f]
      BY <1>2
    <2>2. HashDelete(ht, y) = HashDelete(ht, x)
      BY <1>1, <2>1 DEF HashDelete
    <2>3. D!Without(W, f, x) = W \ {y}
      BY <1>1, <2>1 DEF D!Without
    <2>4. r = HashDelete(ht, y)
      BY <2>2
    <2> QED
      BY <2>1, <2>3, <2>4, TableDeletes
  <1>3. CASE \A e \in W : e[f] # x[f]
    <2>1. PICK n, c, A : ht = TableOver(f, n, c, A) /\ GoodChains(f, n, A) /\ AllIn(n, A) = W
      BY DEF GoodTable
    <2>2. calcIndx[f][x[f]] \in Nat
      BY <1>1, WordMapAssumption DEF Entry
    <2>3. FindInfo(ht, x[f]) = 0
      <3> SUFFICES ASSUME FindInfo(ht, x[f]) # 0 PROVE FALSE
        OBVIOUS
      <3>1. PICK i : FoundAt(f, n, A, x[f], i)
        BY <2>1, <2>2, FindSo
      <3>2. PICK h : h = calcIndx[f][x[f]] % n
        OBVIOUS
      <3>3. h \in 0..(n - 1)
        BY <1>1, <2>1, <3>2, ChainOf DEF GoodChains, Chains
      <3>4. PICK s \in Seq(Entry) : s = A[h]
        BY <2>1, <3>3 DEF GoodChains, Chains
      <3>5. i \in 1..Len(s) /\ s[i][f] = x[f]
        BY <3>1, <3>2, <3>4 DEF FoundAt
      <3>6. s[i] \in W
        BY <2>1, <3>3, <3>4, <3>5 DEF AllIn
      <3> QED
        BY <1>3, <3>5, <3>6
    <2>4. r = ht
      BY <1>1, <2>3 DEF HashDelete
    <2>5. D!Without(W, f, x) = W
      BY <1>3 DEF D!Without
    <2> QED
      BY <2>4, <2>5
  <1> QED
    BY <1>2, <1>3

\* HashFind finds the entry with the key.
LEMMA TableFinds ==
  ASSUME NEW ht, NEW f, NEW W, GoodTable(ht, f, W), NEW key, calcIndx[f][key] \in Nat
  PROVE  HashFind(ht, key) = {e \in W : e[f] = key}
  <1>1. PICK n, c, A : ht = TableOver(f, n, c, A) /\ GoodChains(f, n, A) /\ AllIn(n, A) = W /\ IsFiniteSet(W) /\ c = Cardinality(W)
    BY DEF GoodTable
  <1>2. ht.size = n /\ ht.infoArray = A /\ ht.field = f
    BY <1>1 DEF TableOver
  <1>3. PICK h : h = calcIndx[f][key] % n /\ h \in 0..(n - 1)
    <2>1. n \in Nat /\ n # 0
      BY <1>1 DEF GoodChains, Chains
    <2>2. PICK v \in Nat : v = calcIndx[f][key]
      OBVIOUS
    <2>3. v % n \in 0..(n - 1)
      BY <2>1
    <2> QED
      BY <2>2, <2>3
  <1>4. PICK i : i = FindInfo(ht, key)
    OBVIOUS
  <1>5. HashFind(ht, key) = IF i = 0 THEN {} ELSE {A[h][i]}
    <2>1. Hashval(ht, key) = h
      BY <1>2, <1>3 DEF Hashval
    <2> QED
      BY <1>2, <1>4, <2>1 DEF HashFind
  <1>6. \/ i = 0 /\ \A e \in W : e[f] # key
        \/ i # 0 /\ FoundAt(f, n, A, key, i)
    BY <1>1, <1>4, FindSo
  <1>7. CASE i = 0
    BY <1>5, <1>6, <1>7
  <1>8. CASE i # 0
    <2>1. PICK s \in Seq(Entry) : s = A[h]
      BY <1>1, <1>3 DEF GoodChains, Chains
    <2>2. i \in 1..Len(s) /\ s[i][f] = key
      BY <1>3, <1>6, <1>8, <2>1 DEF FoundAt
    <2>3. PICK x \in W : x = s[i]
      BY <1>1, <1>3, <2>1, <2>2 DEF AllIn
    <2>4. \A d, e \in W : d[f] = e[f] => d = e
      BY TableHas
    <2>5. HashFind(ht, key) = {x}
      BY <1>5, <1>8, <2>1, <2>3
    <2>6. \A e \in W : e[f] = key <=> e = x
      BY <2>2, <2>3, <2>4
    <2> QED
      BY <2>5, <2>6
  <1> QED
    BY <1>7, <1>8

\* The table is sound.
LEMMA TableStays ==
  ASSUME NEW ht, NEW f, NEW W, GoodTable(ht, f, W)
  PROVE  HashTableSound(ht)
  <1>1. PICK n, c, A : ht = TableOver(f, n, c, A) /\ GoodChains(f, n, A) /\ AllIn(n, A) = W /\ IsFiniteSet(W) /\ c = Cardinality(W)
    BY DEF GoodTable
  <1>2. ht.size = n /\ ht.infoArray = A /\ ht.field = f /\ ht.elementCount = c
    BY <1>1 DEF TableOver
  <1>3. \A i \in 0..(n - 1) : A[i] \in Seq(Entry) /\ DOMAIN A[i] = 1..Len(A[i])
    BY <1>1 DEF GoodChains, Chains
  <1>4. \A i \in 0..(n - 1) : \A j \in DOMAIN A[i] : Hashval(ht, A[i][j][f]) = i
    BY <1>1, <1>2, <1>3 DEF GoodChains, InPlace, Hashval
  <1>5. HashElements(ht) = W /\ \A d, e \in W : d[f] = e[f] => d = e
    BY TableHas
  <1>6. \A i \in 0..(n - 1) : IsInjective(A[i])
    <2> SUFFICES ASSUME NEW i \in 0..(n - 1), NEW j \in 1..Len(A[i]), NEW k \in 1..Len(A[i]), A[i][j] = A[i][k] PROVE j = k
      BY <1>3 DEF IsInjective
    <2> QED
      BY <1>1 DEF GoodChains, KeysOnce
  <1> QED
    BY <1>1, <1>2, <1>4, <1>5, <1>6 DEF HashTableSound

-----------------------------------------------------------------------------
(* Word maps: the order in which a table is saved *)

\* The entries of the first i chains, each once
OrderTo(A, i, s) ==
  /\ s \in Seq(Entry)
  /\ \A j, k \in 1..Len(s) : s[j] = s[k] => j = k
  /\ \A e : (\E j \in 1..Len(s) : s[j] = e) <=> \E k \in 0..(i - 1) : \E j \in 1..Len(A[k]) : A[k][j] = e

\* The next chain
LEMMA OrderStep ==
  ASSUME NEW f, NEW n, NEW A, GoodChains(f, n, A), NEW i \in 0..(n - 1), NEW s, OrderTo(A, i, s)
  PROVE  OrderTo(A, i + 1, s \o A[i])
  <1>1. PICK t \in Seq(Entry) : t = A[i]
    BY DEF GoodChains, Chains
  <1>2. s \in Seq(Entry)
    BY DEF OrderTo
  <1>3. PICK l, m \in Nat : l = Len(s) /\ m = Len(t)
    BY <1>1, <1>2
  <1>4. PICK u : u = s \o t
    OBVIOUS
  <1>5. u \in Seq(Entry) /\ Len(u) = l + m /\ \A j \in 1..(l + m) : u[j] = IF j <= l THEN s[j] ELSE t[j - l]
    BY <1>1, <1>2, <1>3, <1>4, ConcatProperties
  <1>6. \A j \in 1..(l + m) : IF j <= l THEN j \in 1..l ELSE j - l \in 1..m
    BY <1>3
  <1>7. \A j \in 1..l : \E k \in 0..(i - 1) : \E p \in 1..Len(A[k]) : A[k][p] = s[j]
    BY <1>3 DEF OrderTo
  <1>8. \A j \in 1..l : \A k \in 1..m : s[j] # t[k]
    <2> SUFFICES ASSUME NEW j \in 1..l, NEW k \in 1..m, s[j] = t[k] PROVE FALSE
      OBVIOUS
    <2>1. PICK q \in 0..(i - 1) : \E p \in 1..Len(A[q]) : A[q][p] = s[j]
      BY <1>7
    <2>2. PICK p \in 1..Len(A[q]) : A[q][p] = s[j]
      BY <2>1
    <2>3. n \in Nat
      BY DEF GoodChains, Chains
    <2>4. q \in 0..(n - 1) /\ q # i
      BY <2>3
    <2>5. calcIndx[f][s[j][f]] % n = q
      BY <2>2, <2>4 DEF GoodChains, InPlace
    <2>6. calcIndx[f][t[k][f]] % n = i
      BY <1>1, <1>3 DEF GoodChains, InPlace
    <2> QED
      BY <2>4, <2>5, <2>6
  <1>9. \A j, k \in 1..l : s[j] = s[k] => j = k
    BY <1>3 DEF OrderTo
  <1>10. \A j, k \in 1..m : t[j] = t[k] => j = k
    BY <1>1, <1>3 DEF GoodChains, KeysOnce
  <1>11. ASSUME NEW j \in 1..(l + m), NEW k \in 1..(l + m), u[j] = u[k] PROVE j = k
    <2>1. CASE j <= l /\ k <= l
      BY <1>5, <1>6, <1>9, <1>11, <2>1
    <2>2. CASE j <= l /\ ~(k <= l)
      BY <1>5, <1>6, <1>8, <1>11, <2>2
    <2>3. CASE ~(j <= l) /\ k <= l
      BY <1>5, <1>6, <1>8, <1>11, <2>3
    <2>4. CASE ~(j <= l) /\ ~(k <= l)
      <3>1. j - l = k - l
        BY <1>5, <1>6, <1>10, <1>11, <2>4
      <3> QED
        BY <1>3, <3>1
    <2> QED
      BY <2>1, <2>2, <2>3, <2>4
  <1>12. \A e : (\E j \in 1..(l + m) : u[j] = e) <=> (\E j \in 1..l : s[j] = e) \/ \E j \in 1..m : t[j] = e
    <2>1. \A j \in 1..l : j \in 1..(l + m) /\ j <= l
      BY <1>3
    <2>2. \A j \in 1..m : j + l \in 1..(l + m) /\ ~(j + l <= l) /\ (j + l) - l = j
      BY <1>3
    <2>3. \A j \in 1..l : u[j] = s[j]
      BY <1>5, <2>1
    <2>4. \A j \in 1..m : u[j + l] = t[j]
      BY <1>5, <2>2
    <2>5. \A j \in 1..(l + m) : (\E k \in 1..l : s[k] = u[j]) \/ \E k \in 1..m : t[k] = u[j]
      BY <1>5, <1>6
    <2> QED
      BY <2>1, <2>2, <2>3, <2>4, <2>5
  <1>13. \A k : k \in 0..((i + 1) - 1) <=> k \in 0..(i - 1) \/ k = i
    OBVIOUS
  <1>14. \A e : (\E j \in 1..l : s[j] = e) <=> \E k \in 0..(i - 1) : \E j \in 1..Len(A[k]) : A[k][j] = e
    BY <1>3 DEF OrderTo
  <1>15. \A e : (\E j \in 1..(l + m) : u[j] = e) <=> \E k \in 0..((i + 1) - 1) : \E j \in 1..Len(A[k]) : A[k][j] = e
    <2> SUFFICES ASSUME NEW e PROVE (\E j \in 1..(l + m) : u[j] = e) <=> \E k \in 0..((i + 1) - 1) : \E j \in 1..Len(A[k]) : A[k][j] = e
      OBVIOUS
    <2> DEFINE In(k) == \E j \in 1..Len(A[k]) : A[k][j] = e
    <2>1. (\E j \in 1..m : t[j] = e) <=> In(i)
      BY <1>1, <1>3
    <2>2. (\E j \in 1..l : s[j] = e) <=> \E k \in 0..(i - 1) : In(k)
      BY <1>14
    <2>3. (\E j \in 1..(l + m) : u[j] = e) <=> (\E k \in 0..(i - 1) : In(k)) \/ In(i)
      <3> HIDE DEF In
      <3> QED
        BY <1>12, <2>1, <2>2
    <2>4. (\E k \in 0..((i + 1) - 1) : In(k)) <=> (\E k \in 0..(i - 1) : In(k)) \/ In(i)
      <3> HIDE DEF In
      <3> QED
        BY <1>13
    <2> QED
      BY <2>3, <2>4
  <1> QED
    BY <1>1, <1>4, <1>5, <1>11, <1>15 DEF OrderTo

\* What the definition of HashOrder says of a function
OrderFollows(f, n, A) == f = [i \in 0..n |-> IF i = 0 THEN << >> ELSE f[i - 1] \o A[i - 1]]

\* The definition uses such a function if there is one.
LEMMA OrderUse ==
  ASSUME NEW n, NEW A, NEW ht, ht.size = n, ht.infoArray = A, \E f : OrderFollows(f, n, A)
  PROVE  \E f : OrderFollows(f, n, A) /\ HashOrder(ht) = f[n]
  <1> DEFINE G == CHOOSE f : OrderFollows(f, n, A)
  <1>1. OrderFollows(G, n, A)
    OBVIOUS
  <1>2. HashOrder(ht) = G[n]
    BY DEF HashOrder, OrderFollows
  <1> QED
    BY <1>1, <1>2

\* The entries W, each once
Listing(s, W) ==
  /\ s \in Seq(Entry) /\ Len(s) = Cardinality(W)
  /\ \A j, k \in 1..Len(s) : s[j] = s[k] => j = k
  /\ \A e : (\E j \in 1..Len(s) : s[j] = e) <=> e \in W

\* HashOrder lists the table.
LEMMA OrderSo ==
  ASSUME NEW ht, NEW f, NEW W, GoodTable(ht, f, W)
  PROVE  Listing(HashOrder(ht), W)
  <1>1. PICK n, c, A : ht = TableOver(f, n, c, A) /\ GoodChains(f, n, A) /\ AllIn(n, A) = W /\ IsFiniteSet(W) /\ c = Cardinality(W)
    BY DEF GoodTable
  <1>2. ht.size = n /\ ht.infoArray = A
    BY <1>1 DEF TableOver
  <1>3. n \in Nat /\ \A i \in 0..(n - 1) : A[i] \in Seq(Entry)
    BY <1>1 DEF GoodChains, Chains
  <1>4. PICK o \in Seq(Entry) : o = << >> /\ Len(o) = 0
    BY EmptySeq
  <1>5. PICK g \in [1..n -> [Seq(Entry) -> Seq(Entry)]] : \A i \in 1..n : \A s \in Seq(Entry) : g[i][s] = s \o A[i - 1]
    <2>1. ASSUME NEW i \in 1..n, NEW s \in Seq(Entry) PROVE s \o A[i - 1] \in Seq(Entry)
      <3>1. i - 1 \in 0..(n - 1)
        BY <1>3
      <3>2. A[i - 1] \in Seq(Entry)
        BY <1>3, <3>1
      <3> QED
        BY <3>2, ConcatProperties
    <2>2. [i \in 1..n |-> [s \in Seq(Entry) |-> s \o A[i - 1]]] \in [1..n -> [Seq(Entry) -> Seq(Entry)]]
      BY <2>1
    <2> QED
      BY <2>2
  <1>6. PICK h : Unfolds(h, n, Seq(Entry), o, g)
    BY <1>3, Recursion
  <1>7. h \in [0..n -> Seq(Entry)] /\ h[0] = o /\ \A i \in 1..n : h[i] = h[i - 1] \o A[i - 1]
    <2>1. h \in [0..n -> Seq(Entry)] /\ h[0] = o /\ \A i \in 1..n : h[i] = g[i][h[i - 1]]
      BY <1>6 DEF Unfolds
    <2>2. \A i \in 1..n : i - 1 \in 0..n
      BY <1>3
    <2>3. \A i \in 1..n : h[i - 1] \in Seq(Entry)
      BY <2>1, <2>2
    <2> QED
      BY <1>5, <2>1, <2>3
  <1>8. OrderFollows(h, n, A)
    <2>1. \A i \in 0..n : h[i] = IF i = 0 THEN << >> ELSE h[i - 1] \o A[i - 1]
      <3>1. \A i \in 0..n : i = 0 \/ i \in 1..n
        BY <1>3
      <3> QED
        BY <1>4, <1>7, <3>1
    <2>2. h = [i \in 0..n |-> IF i = 0 THEN << >> ELSE h[i - 1] \o A[i - 1]]
      BY <1>7, <2>1
    <2> QED
      BY <2>2 DEF OrderFollows
  <1>9. PICK d : OrderFollows(d, n, A) /\ HashOrder(ht) = d[n]
    BY <1>2, <1>8, OrderUse
  <1>10. \A i \in 0..n : d[i] = IF i = 0 THEN << >> ELSE d[i - 1] \o A[i - 1]
    <2>1. d = [i \in 0..n |-> IF i = 0 THEN << >> ELSE d[i - 1] \o A[i - 1]]
      BY <1>9 DEF OrderFollows
    <2> QED
      BY <2>1
  <1> DEFINE T == {i \in 0..n : OrderTo(A, i, d[i])}
  <1>11. 0 \in T
    <2>1. d[0] = o
      BY <1>3, <1>4, <1>10
    <2>2. 1..Len(o) = {} /\ 0..(0 - 1) = {}
      BY <1>4
    <2>3. OrderTo(A, 0, o)
      BY <2>2 DEF OrderTo
    <2> QED
      BY <1>3, <2>1, <2>3
  <1>12. ASSUME NEW i \in 0..n, i # n, i \in T PROVE i + 1 \in T
    <2>1. i + 1 \in 0..n /\ i + 1 # 0 /\ (i + 1) - 1 = i /\ i \in 0..(n - 1)
      BY <1>3, <1>12
    <2>2. d[i + 1] = d[i] \o A[i]
      BY <1>10, <2>1
    <2>3. OrderTo(A, i + 1, d[i] \o A[i])
      BY <1>1, <1>12, <2>1, OrderStep
    <2> QED
      BY <2>1, <2>2, <2>3
  <1>13. OrderTo(A, n, HashOrder(ht))
    <2>1. n \in T
      <3> HIDE DEF T
      <3>1. n \in 0..n
        BY <1>3
      <3> QED
        BY <1>3, <1>11, <1>12, <3>1, Climb
    <2> QED
      BY <1>9, <2>1
  <1>14. PICK s \in Seq(Entry) : s = HashOrder(ht) /\ \A j, k \in 1..Len(s) : s[j] = s[k] => j = k
    BY <1>13 DEF OrderTo
  <1>15. \A e : (\E j \in 1..Len(s) : s[j] = e) <=> e \in W
    <2>1. \A e : (\E j \in 1..Len(s) : s[j] = e) => e \in Entry
      OBVIOUS
    <2>2. \A e : (\E j \in 1..Len(s) : s[j] = e) <=> \E k \in 0..(n - 1) : \E j \in 1..Len(A[k]) : A[k][j] = e
      BY <1>13, <1>14 DEF OrderTo
    <2> QED
      BY <1>1, <2>1, <2>2 DEF AllIn
  <1>16. Len(s) = Cardinality(W)
    <2>1. PICK l \in Nat : l = Len(s)
      OBVIOUS
    <2>2. PICK b : b = [j \in 1..l |-> s[j]]
      OBVIOUS
    <2>3. b \in Bijection(1..l, W)
      <3>1. b \in [1..l -> W] /\ \A j \in 1..l : b[j] = s[j]
        BY <1>15, <2>1, <2>2
      <3>2. \A e \in W : \E j \in 1..l : b[j] = e
        BY <1>15, <2>1, <3>1
      <3>3. b \in Injection(1..l, W)
        BY <1>14, <2>1, <3>1 DEF Injection, IsInjective
      <3>4. b \in Surjection(1..l, W)
        BY <3>1, <3>2 DEF Surjection
      <3> QED
        BY <3>3, <3>4 DEF Bijection
    <2>4. ExistsBijection(1..l, W)
      BY <2>3 DEF ExistsBijection
    <2> QED
      BY <2>1, <2>4, FS_CountingElements
  <1> QED
    BY <1>14, <1>15, <1>16 DEF Listing

-----------------------------------------------------------------------------
(* Word maps: the map *)

\* The map m holds the entries N in its table by name and K in the one by number; a table it has not is empty.
MapHas(m, N, K) ==
  \E t, bn, bk : /\ t \in 1..3 /\ m = [type |-> t, byName |-> bn, byNumber |-> bk]
                 /\ GoodTable(bn, "name", N) /\ GoodTable(bk, "number", K)
                 /\ (~ByName(t) => N = {}) /\ (~ByNumber(t) => K = {})

\* What a table that the map has or has not may hold
NameSet(t, W) == IF ByName(t) THEN W ELSE {}

NumberSet(t, W) == IF ByNumber(t) THEN W ELSE {}

\* The entries of the main table
MainSet(t, N, K) == IF ByName(t) THEN N ELSE K

MainField(t) == IF ByName(t) THEN "name" ELSE "number"

\* A map has a table by name, or by number, or both.
LEMMA TypeIs ==
  ASSUME NEW t \in 1..3
  PROVE  /\ ByName(t) \in BOOLEAN /\ ByNumber(t) \in BOOLEAN /\ (ByName(t) \/ ByNumber(t))
         /\ (t = 3 <=> ByName(t) /\ ByNumber(t))
  <1>1. CASE t = 1
    BY <1>1 DEF ByName, ByNumber
  <1>2. CASE t = 2
    BY <1>2 DEF ByName, ByNumber
  <1>3. CASE t = 3
    BY <1>3 DEF ByName, ByNumber
  <1> QED
    BY <1>1, <1>2, <1>3

\* A map, and its tables
LEMMA MapIs ==
  ASSUME NEW m, NEW N, NEW K, MapHas(m, N, K)
  PROVE  /\ m.type \in 1..3 /\ GoodTable(m.byName, "name", N) /\ GoodTable(m.byNumber, "number", K)
         /\ HashElements(m.byName) = N /\ N \subseteq Entry /\ m.byName.elementCount = Cardinality(N)
         /\ HashElements(m.byNumber) = K /\ K \subseteq Entry /\ m.byNumber.elementCount = Cardinality(K)
         /\ (\A d, e \in N : d["name"] = e["name"] => d = e) /\ (\A d, e \in K : d["number"] = e["number"] => d = e)
         /\ (~ByName(m.type) => N = {}) /\ (~ByNumber(m.type) => K = {})
  <1>1. PICK t, bn, bk : /\ t \in 1..3 /\ m = [type |-> t, byName |-> bn, byNumber |-> bk]
                         /\ GoodTable(bn, "name", N) /\ GoodTable(bk, "number", K)
                         /\ (~ByName(t) => N = {}) /\ (~ByNumber(t) => K = {})
    BY DEF MapHas
  <1>2. m.type = t /\ m.byName = bn /\ m.byNumber = bk
    BY <1>1
  <1>3. /\ HashElements(bn) = N /\ N \subseteq Entry /\ bn.elementCount = Cardinality(N)
        /\ \A d, e \in N : d["name"] = e["name"] => d = e
    BY <1>1, TableHas
  <1>4. /\ HashElements(bk) = K /\ K \subseteq Entry /\ bk.elementCount = Cardinality(K)
        /\ \A d, e \in K : d["number"] = e["number"] => d = e
    BY <1>1, TableHas
  <1> QED
    BY <1>1, <1>2, <1>3, <1>4

\* Its main table
LEMMA MainIs ==
  ASSUME NEW m, NEW N, NEW K, MapHas(m, N, K), NEW W, W = MainSet(m.type, N, K)
  PROVE  /\ Words(m) = W /\ W \subseteq Entry /\ IsFiniteSet(W) /\ MainTable(m).elementCount = Cardinality(W)
         /\ GoodTable(MainTable(m), MainField(m.type), W)
         /\ \A d, e \in W : d[MainField(m.type)] = e[MainField(m.type)] => d = e
  <1>1. GoodTable(m.byName, "name", N) /\ GoodTable(m.byNumber, "number", K)
    BY MapIs
  <1>2. GoodTable(MainTable(m), MainField(m.type), W)
    BY <1>1 DEF MainTable, MainField, MainSet
  <1> QED
    BY <1>2, TableHas DEF Words

\* What is found by a name or a number
LEMMA MapFinds ==
  ASSUME NEW m, NEW N, NEW K, MapHas(m, N, K)
  PROVE  /\ \A n \in WordName : wordMap_findByName(m, n) = {e \in N : e["name"] = n}
         /\ \A k \in WordNumber : wordMap_findByNumber(m, k) = {e \in K : e["number"] = k}
  <1>1. /\ GoodTable(m.byName, "name", N) /\ GoodTable(m.byNumber, "number", K)
        /\ (~ByName(m.type) => N = {}) /\ (~ByNumber(m.type) => K = {})
    BY MapIs
  <1>2. ASSUME NEW n \in WordName PROVE wordMap_findByName(m, n) = {e \in N : e["name"] = n}
    <2>1. calcIndx["name"][n] \in Nat
      BY WordMapAssumption
    <2>2. HashFind(m.byName, n) = {e \in N : e["name"] = n}
      BY <1>1, <2>1, TableFinds
    <2> QED
      BY <1>1, <2>2 DEF wordMap_findByName
  <1>3. ASSUME NEW k \in WordNumber PROVE wordMap_findByNumber(m, k) = {e \in K : e["number"] = k}
    <2>1. calcIndx["number"][k] \in Nat
      BY WordMapAssumption
    <2>2. HashFind(m.byNumber, k) = {e \in K : e["number"] = k}
      BY <1>1, <2>1, TableFinds
    <2> QED
      BY <2>2 DEF wordMap_findByNumber
  <1> QED
    BY <1>2, <1>3

\* The map r after a step that leaves it the tables of m with other entries
MapBecomes(m, N, K, r) ==
  MapHas(r, N, K) /\ r.type = m.type /\ MainTable(r).size = MainTable(m).size

\* An entry is added to the tables.
LEMMA MapAdds ==
  ASSUME NEW m, NEW N, NEW K, MapHas(m, N, K), NEW x \in Entry, NEW r, r = Added(m, x)
  PROVE  MapBecomes(m, NameSet(m.type, D!Indexed(N, "name", x)), NumberSet(m.type, D!Indexed(K, "number", x)), r)
  <1>1. PICK t, bn, bk : /\ t \in 1..3 /\ m = [type |-> t, byName |-> bn, byNumber |-> bk]
                         /\ GoodTable(bn, "name", N) /\ GoodTable(bk, "number", K)
                         /\ (~ByName(t) => N = {}) /\ (~ByNumber(t) => K = {})
    BY DEF MapHas
  <1>2. m.type = t /\ m.byName = bn /\ m.byNumber = bk
    BY <1>1
  <1>3. PICK an : an = IF ByName(t) THEN HashAdd(bn, x) ELSE bn
    OBVIOUS
  <1>4. PICK ak : ak = IF ByNumber(t) THEN HashAdd(bk, x) ELSE bk
    OBVIOUS
  <1>5. r = [type |-> t, byName |-> an, byNumber |-> ak]
    BY <1>1, <1>2, <1>3, <1>4 DEF Added
  <1>6. GoodTable(an, "name", NameSet(t, D!Indexed(N, "name", x))) /\ an.size = bn.size
    <2>1. CASE ByName(t)
      <3>1. an = HashAdd(bn, x) /\ NameSet(t, D!Indexed(N, "name", x)) = D!Indexed(N, "name", x)
        BY <1>3, <2>1 DEF NameSet
      <3> QED
        BY <1>1, <3>1, TableTakes
    <2>2. CASE ~ByName(t)
      BY <1>1, <1>3, <2>2 DEF NameSet
    <2> QED
      BY <2>1, <2>2
  <1>7. GoodTable(ak, "number", NumberSet(t, D!Indexed(K, "number", x))) /\ ak.size = bk.size
    <2>1. CASE ByNumber(t)
      <3>1. ak = HashAdd(bk, x) /\ NumberSet(t, D!Indexed(K, "number", x)) = D!Indexed(K, "number", x)
        BY <1>4, <2>1 DEF NumberSet
      <3> QED
        BY <1>1, <3>1, TableTakes
    <2>2. CASE ~ByNumber(t)
      BY <1>1, <1>4, <2>2 DEF NumberSet
    <2> QED
      BY <2>1, <2>2
  <1>8. r.type = t /\ r.byName = an /\ r.byNumber = ak
    BY <1>5
  <1>9. MainTable(r).size = MainTable(m).size
    BY <1>2, <1>6, <1>7, <1>8 DEF MainTable
  <1>10. MapHas(r, NameSet(t, D!Indexed(N, "name", x)), NumberSet(t, D!Indexed(K, "number", x)))
    <2>1. ~ByName(t) => NameSet(t, D!Indexed(N, "name", x)) = {}
      BY DEF NameSet
    <2>2. ~ByNumber(t) => NumberSet(t, D!Indexed(K, "number", x)) = {}
      BY DEF NumberSet
    <2> QED
      BY <1>1, <1>5, <1>6, <1>7, <2>1, <2>2 DEF MapHas
  <1> QED
    BY <1>2, <1>8, <1>9, <1>10 DEF MapBecomes

\* What has the keys of an entry is deleted from the tables.
LEMMA MapDeletes ==
  ASSUME NEW m, NEW N, NEW K, MapHas(m, N, K), NEW x \in Entry, NEW r, r = Deleted(m, x)
  PROVE  MapBecomes(m, D!Without(N, "name", x), D!Without(K, "number", x), r)
  <1>1. PICK t, bn, bk : /\ t \in 1..3 /\ m = [type |-> t, byName |-> bn, byNumber |-> bk]
                         /\ GoodTable(bn, "name", N) /\ GoodTable(bk, "number", K)
                         /\ (~ByName(t) => N = {}) /\ (~ByNumber(t) => K = {})
    BY DEF MapHas
  <1>2. m.type = t /\ m.byName = bn /\ m.byNumber = bk
    BY <1>1
  <1>3. PICK an : an = IF ByName(t) THEN HashDelete(bn, x) ELSE bn
    OBVIOUS
  <1>4. PICK ak : ak = IF ByNumber(t) THEN HashDelete(bk, x) ELSE bk
    OBVIOUS
  <1>5. r = [type |-> t, byName |-> an, byNumber |-> ak]
    BY <1>1, <1>2, <1>3, <1>4 DEF Deleted
  <1>6. D!Without({}, "name", x) = {} /\ D!Without({}, "number", x) = {}
    BY DEF D!Without
  <1>7. GoodTable(an, "name", D!Without(N, "name", x)) /\ an.size = bn.size
    <2>1. CASE ByName(t)
      BY <1>1, <1>3, <2>1, TableLeaves
    <2>2. CASE ~ByName(t)
      BY <1>1, <1>3, <1>6, <2>2
    <2> QED
      BY <2>1, <2>2
  <1>8. GoodTable(ak, "number", D!Without(K, "number", x)) /\ ak.size = bk.size
    <2>1. CASE ByNumber(t)
      BY <1>1, <1>4, <2>1, TableLeaves
    <2>2. CASE ~ByNumber(t)
      BY <1>1, <1>4, <1>6, <2>2
    <2> QED
      BY <2>1, <2>2
  <1>9. r.type = t /\ r.byName = an /\ r.byNumber = ak
    BY <1>5
  <1>10. MainTable(r).size = MainTable(m).size
    BY <1>2, <1>7, <1>8, <1>9 DEF MainTable
  <1>11. MapHas(r, D!Without(N, "name", x), D!Without(K, "number", x))
    BY <1>1, <1>5, <1>6, <1>7, <1>8 DEF MapHas
  <1> QED
    BY <1>2, <1>9, <1>10, <1>11 DEF MapBecomes

\* A new map is empty.
LEMMA MapNew ==
  ASSUME NEW t \in 1..3, NEW n \in Nat, n # 0, NEW m, m = wordMap_create2(t, n)
  PROVE  MapHas(m, {}, {}) /\ m.type = t
  <1>1. PICK bn, bk : bn = HashCreateTable(n, "name") /\ bk = HashCreateTable(n, "number")
    OBVIOUS
  <1>2. GoodTable(bn, "name", {}) /\ GoodTable(bk, "number", {})
    BY <1>1, TableNew
  <1>3. m = [type |-> t, byName |-> bn, byNumber |-> bk]
    BY <1>1 DEF wordMap_create2
  <1> QED
    BY <1>2, <1>3 DEF MapHas

-----------------------------------------------------------------------------
(* Word maps: loading *)

\* What the definition of LoadedFrom says of a function, up to k
LoadFollows(f, t, n, s, k) == f = [i \in 0..k |-> IF i = 0 THEN wordMap_create2(t, n) ELSE Added(f[i - 1], s[i])]

\* There is such a function.
LEMMA LoadExists ==
  ASSUME NEW t, NEW n \in Nat, NEW s
  PROVE  \E f : LoadFollows(f, t, n, s, n)
  <1> DEFINE T == {k \in 0..n : \E f : LoadFollows(f, t, n, s, k)}
  <1>1. 0 \in T
    <2>1. PICK a : a = wordMap_create2(t, n)
      OBVIOUS
    <2>2. PICK f : f = [i \in 0..0 |-> a]
      OBVIOUS
    <2>3. \A i \in 0..0 : a = IF i = 0 THEN a ELSE Added(f[i - 1], s[i])
      OBVIOUS
    <2>4. f = [i \in 0..0 |-> IF i = 0 THEN a ELSE Added(f[i - 1], s[i])]
      BY <2>2, <2>3
    <2>5. LoadFollows(f, t, n, s, 0)
      BY <2>1, <2>4 DEF LoadFollows
    <2> QED
      BY <2>5
  <1>2. ASSUME NEW k \in 0..n, k # n, k \in T PROVE k + 1 \in T
    <2>1. PICK f : LoadFollows(f, t, n, s, k)
      BY <1>2
    <2>2. PICK a : a = wordMap_create2(t, n)
      OBVIOUS
    <2>3. \A i \in 0..k : f[i] = IF i = 0 THEN a ELSE Added(f[i - 1], s[i])
      <3>1. f = [i \in 0..k |-> IF i = 0 THEN a ELSE Added(f[i - 1], s[i])]
        BY <2>1, <2>2 DEF LoadFollows
      <3> QED
        BY <3>1
    <2>4. PICK v : v = Added(f[k], s[k + 1])
      OBVIOUS
    <2>5. PICK h : h = [i \in 0..(k + 1) |-> IF i = k + 1 THEN v ELSE f[i]]
      OBVIOUS
    <2>6. h[k + 1] = v /\ \A i \in 0..k : h[i] = f[i]
      BY <2>5
    <2>7. \A i \in 0..k : i = 0 \/ i - 1 \in 0..k
      OBVIOUS
    <2>8. \A i \in 0..k : h[i] = IF i = 0 THEN a ELSE Added(h[i - 1], s[i])
      BY <2>3, <2>6, <2>7
    <2>9. h[k + 1] = Added(h[(k + 1) - 1], s[k + 1])
      <3>1. (k + 1) - 1 = k /\ k \in 0..k
        OBVIOUS
      <3> QED
        BY <2>4, <2>6, <3>1
    <2>10. \A i \in 0..(k + 1) : i \in 0..k \/ (i = k + 1 /\ i # 0)
      OBVIOUS
    <2>11. \A i \in 0..(k + 1) : h[i] = IF i = 0 THEN a ELSE Added(h[i - 1], s[i])
      BY <2>8, <2>9, <2>10
    <2>12. h = [i \in 0..(k + 1) |-> h[i]]
      BY <2>5
    <2>13. h = [i \in 0..(k + 1) |-> IF i = 0 THEN a ELSE Added(h[i - 1], s[i])]
      BY <2>11, <2>12
    <2>14. LoadFollows(h, t, n, s, k + 1)
      BY <2>2, <2>13 DEF LoadFollows
    <2>15. k + 1 \in 0..n
      BY <1>2
    <2> QED
      BY <2>14, <2>15
  <1>3. n \in T
    <2> HIDE DEF T
    <2>1. n \in 0..n
      OBVIOUS
    <2> QED
      BY <1>1, <1>2, <2>1, Climb
  <1> QED
    BY <1>3

\* The definition uses it.
LEMMA LoadUse ==
  ASSUME NEW file, NEW t, NEW n \in Nat, NEW s, file.count = n, file.lines = s, (IF file.version = 1 THEN 3 ELSE file.type) = t
  PROVE  \E f : LoadFollows(f, t, n, s, n) /\ LoadedFrom(file) = f[n]
  <1> DEFINE G == CHOOSE f : LoadFollows(f, t, n, s, n)
  <1>1. LoadFollows(G, t, n, s, n)
    BY LoadExists
  <1>2. LoadedFrom(file) = G[n]
    BY DEF LoadedFrom, LoadFollows
  <1> QED
    BY <1>1, <1>2

\* The first i lines
FirstLines(s, i) == {s[j] : j \in 1..i}

\* An index of some entries, with another entry
LEMMA IndexTakes ==
  ASSUME NEW f, NEW S, NEW V, D!IndexOf(S, f, V), NEW x
  PROVE  D!IndexOf(D!Indexed(S, f, x), f, V \cup {x})
  <1>1. S \subseteq V /\ (\A e \in V : \E p \in S : p[f] = e[f]) /\ \A p, q \in S : p[f] = q[f] => p = q
    BY DEF D!IndexOf
  <1>2. CASE \E p \in S : p[f] = x[f]
    <2>1. D!Indexed(S, f, x) = S
      BY <1>2 DEF D!Indexed
    <2>2. D!IndexOf(S, f, V \cup {x})
      BY <1>1, <1>2 DEF D!IndexOf
    <2> QED
      BY <2>1, <2>2
  <1>3. CASE \A p \in S : p[f] # x[f]
    <2>1. D!Indexed(S, f, x) = S \cup {x}
      BY <1>3 DEF D!Indexed
    <2>2. D!IndexOf(S \cup {x}, f, V \cup {x})
      BY <1>1, <1>3 DEF D!IndexOf
    <2> QED
      BY <2>1, <2>2
  <1> QED
    BY <1>2, <1>3

\* Entries with different keys are all in their index.
LEMMA IndexAll ==
  ASSUME NEW f, NEW S, NEW W, D!IndexOf(S, f, W), \A d, e \in W : d[f] = e[f] => d = e
  PROVE  S = W
  BY DEF D!IndexOf

\* The tables of a map of type t are indices of V.
Indexing(t, N, K, V) == (ByName(t) => D!IndexOf(N, "name", V)) /\ (ByNumber(t) => D!IndexOf(K, "number", V))

\* A map of type t that indexes V
Loads(m, t, V) == m.type = t /\ \E N, K : MapHas(m, N, K) /\ Indexing(t, N, K, V)

\* The map that is loaded from lines indexes them.
LEMMA LoadSo ==
  ASSUME NEW t \in 1..3, NEW s \in Seq(Entry), NEW n \in Nat, n # 0, n = Len(s),
         NEW file, file.count = n, file.lines = s, (IF file.version = 1 THEN 3 ELSE file.type) = t
  PROVE  Loads(LoadedFrom(file), t, FirstLines(s, n))
  <1>1. PICK h : LoadFollows(h, t, n, s, n) /\ LoadedFrom(file) = h[n]
    BY LoadUse
  <1>2. PICK a : a = wordMap_create2(t, n)
    OBVIOUS
  <1>3. \A i \in 0..n : h[i] = IF i = 0 THEN a ELSE Added(h[i - 1], s[i])
    <2>1. h = [i \in 0..n |-> IF i = 0 THEN a ELSE Added(h[i - 1], s[i])]
      BY <1>1, <1>2 DEF LoadFollows
    <2> QED
      BY <2>1
  <1>4. MapHas(a, {}, {}) /\ a.type = t
    BY <1>2, MapNew
  <1> DEFINE T == {i \in 0..n : Loads(h[i], t, FirstLines(s, i))}
  <1>5. 0 \in T
    <2>1. FirstLines(s, 0) = {}
      BY DEF FirstLines
    <2>2. h[0] = a /\ 0 \in 0..n
      BY <1>3
    <2>3. Indexing(t, {}, {}, {})
      BY DEF Indexing, D!IndexOf
    <2> QED
      BY <1>4, <2>1, <2>2, <2>3 DEF Loads
  <1>6. ASSUME NEW i \in 0..n, i # n, i \in T PROVE i + 1 \in T
    <2>1. i + 1 \in 0..n /\ i + 1 # 0 /\ (i + 1) - 1 = i /\ i + 1 \in 1..n
      BY <1>6
    <2>2. PICK p, x, V : p = h[i] /\ x = s[i + 1] /\ V = FirstLines(s, i)
      OBVIOUS
    <2>3. PICK N, K : MapHas(p, N, K) /\ Indexing(t, N, K, V) /\ p.type = t
      BY <1>6, <2>2 DEF Loads
    <2>4. x \in Entry
      BY <2>1, <2>2
    <2>5. PICK r : r = Added(p, x)
      OBVIOUS
    <2>6. PICK P, Q : P = NameSet(t, D!Indexed(N, "name", x)) /\ Q = NumberSet(t, D!Indexed(K, "number", x))
      OBVIOUS
    <2>7. MapBecomes(p, P, Q, r)
      BY <2>3, <2>4, <2>5, <2>6, MapAdds
    <2>8. MapHas(r, P, Q) /\ r.type = t
      BY <2>3, <2>7 DEF MapBecomes
    <2>9. Indexing(t, P, Q, V \cup {x})
      <3>1. ASSUME ByName(t) PROVE D!IndexOf(P, "name", V \cup {x})
        <4>1. D!IndexOf(N, "name", V)
          BY <2>3, <3>1 DEF Indexing
        <4>2. P = D!Indexed(N, "name", x)
          BY <2>6, <3>1 DEF NameSet
        <4> QED
          BY <4>1, <4>2, IndexTakes
      <3>2. ASSUME ByNumber(t) PROVE D!IndexOf(Q, "number", V \cup {x})
        <4>1. D!IndexOf(K, "number", V)
          BY <2>3, <3>2 DEF Indexing
        <4>2. Q = D!Indexed(K, "number", x)
          BY <2>6, <3>2 DEF NumberSet
        <4> QED
          BY <4>1, <4>2, IndexTakes
      <3> QED
        BY <3>1, <3>2 DEF Indexing
    <2>10. h[i + 1] = r
      BY <1>3, <2>1, <2>2, <2>5
    <2>11. V \cup {x} = FirstLines(s, i + 1)
      <3>1. \A j : j \in 1..(i + 1) <=> j \in 1..i \/ j = i + 1
        OBVIOUS
      <3> QED
        BY <2>2, <3>1 DEF FirstLines
    <2> QED
      BY <2>1, <2>8, <2>9, <2>10, <2>11 DEF Loads
  <1>7. n \in T
    <2> HIDE DEF T
    <2>1. n \in 0..n
      OBVIOUS
    <2> QED
      BY <1>5, <1>6, <2>1, Climb
  <1> QED
    BY <1>1, <1>7

-----------------------------------------------------------------------------
(* Word maps: the steps *)

\* The tables of a map of both hold the same.
Agree(t, N, K) == t = 3 => N = K

\* No entry was taken by one table only, so they agree, and no assert of a deletion failed.
Sound(t, N, K) == clashed # TRUE => Agree(t, N, K) /\ wordMapState # "deleteAsserts"

\* Of the map: each table is a table of its entries, and they agree until they clash.
WordsInv == clashed \in BOOLEAN /\ \E N, K : MapHas(map, N, K) /\ Sound(map.type, N, K)

\* What a step does to the entries of the tables: from N and K to P and Q
Adds(t, N, K, P, Q) ==
  \E x \in Entry : P = NameSet(t, D!Indexed(N, "name", x)) /\ Q = NumberSet(t, D!Indexed(K, "number", x))

Deletes(t, N, K, P, Q) ==
  \E x \in Entry : /\ (ByName(t) /\ x \in N) \/ (ByNumber(t) /\ x \in K)
                   /\ P = D!Without(N, "name", x) /\ Q = D!Without(K, "number", x)

Reloads(t, N, K, P, Q) ==
  MainSet(t, P, Q) = MainSet(t, N, K) /\ Indexing(t, P, Q, MainSet(t, N, K))

\* What a step may do to a map that holds N and K
MapMoves(m, N, K, r, P, Q) ==
  /\ MapHas(r, P, Q) /\ r.type = m.type
  /\ \/ P = N /\ Q = K /\ MainTable(r).size = MainTable(m).size
     \/ Adds(m.type, N, K, P, Q) /\ MainTable(r).size = MainTable(m).size
     \/ Deletes(m.type, N, K, P, Q) /\ MainTable(r).size = MainTable(m).size
     \/ Reloads(m.type, N, K, P, Q)

\* A step from N and K to some P and Q that keeps what Sound says
Moves(N, K) ==
  \E P, Q : MapMoves(map, N, K, map', P, Q) /\ (Sound(map.type, N, K) => Sound(map.type, P, Q)')

\* The initial map
LEMMA WordsStart == WordMapInit => WordsInv /\ \A f \in DOMAIN Indices(map) : Indices(map)[f] = {}
  <1> SUFFICES ASSUME WordMapInit PROVE WordsInv /\ \A f \in DOMAIN Indices(map) : Indices(map)[f] = {}
    OBVIOUS
  <1>1. PICK t \in 1..3 : map = wordMap_create2(t, DefaultHashtableSize)
    BY DEF WordMapInit, WordMapType
  <1>2. DefaultHashtableSize \in Nat /\ DefaultHashtableSize # 0
    BY WordMapAssumption
  <1>3. MapHas(map, {}, {})
    BY <1>1, <1>2, MapNew
  <1>4. HashElements(map.byName) = {} /\ HashElements(map.byNumber) = {}
    BY <1>3, MapIs
  <1>5. \A f \in DOMAIN Indices(map) : Indices(map)[f] = {}
    BY <1>4 DEF Indices, TableOf
  <1>6. clashed = FALSE /\ wordMapState = "runs"
    BY DEF WordMapInit
  <1> QED
    BY <1>3, <1>5, <1>6 DEF WordsInv, Sound, Agree

\* wordMap_add: a table that has not the key takes the entry.
LEMMA WordsAdd ==
  ASSUME NEW N, NEW K, MapHas(map, N, K), NEW x \in Entry, wordMap_add(x)
  PROVE  Moves(N, K)
  <1>1. PICK t \in 1..3 : t = map.type
    BY MapIs
  <1>2. PICK r : r = map' /\ r = Added(map, x)
    BY DEF wordMap_add
  <1>3. PICK P, Q : P = NameSet(t, D!Indexed(N, "name", x)) /\ Q = NumberSet(t, D!Indexed(K, "number", x))
    OBVIOUS
  <1>4. MapBecomes(map, P, Q, r)
    BY <1>1, <1>2, <1>3, MapAdds
  <1>5. MapMoves(map, N, K, map', P, Q)
    BY <1>1, <1>2, <1>3, <1>4 DEF MapBecomes, MapMoves, Adds
  <1>6. x.name \in WordName /\ x.number \in WordNumber /\ x["name"] = x.name /\ x["number"] = x.number
    BY DEF Entry
  <1>7. wordMap_findByName(map, x.name) = {e \in N : e["name"] = x["name"]}
    BY <1>6, MapFinds
  <1>8. wordMap_findByNumber(map, x.number) = {e \in K : e["number"] = x["number"]}
    BY <1>6, MapFinds
  <1>9. ASSUME clashed' # TRUE, Sound(t, N, K) PROVE Agree(t, P, Q) /\ wordMapState' # "deleteAsserts"
    <2>1. clashed' = (clashed \/ Clash(map, x)) /\ wordMapState' = wordMapState
      BY DEF wordMap_add
    <2>2. clashed # TRUE /\ ~Clash(map, x)
      BY <1>9, <2>1
    <2>3. Agree(t, N, K) /\ wordMapState # "deleteAsserts"
      BY <1>9, <2>2 DEF Sound
    <2>4. ASSUME t = 3 PROVE P = Q
      <3>1. N = K
        BY <2>3, <2>4 DEF Agree
      <3>2. P = D!Indexed(N, "name", x) /\ Q = D!Indexed(N, "number", x)
        BY <1>3, <2>4, <3>1, TypeIs DEF NameSet, NumberSet
      <3>3. {e \in N : e["name"] = x["name"]} = {} <=> {e \in N : e["number"] = x["number"]} = {}
        BY <1>1, <1>7, <1>8, <2>2, <2>4, <3>1 DEF Clash
      <3>4. (\E e \in N : e["name"] = x["name"]) <=> \E e \in N : e["number"] = x["number"]
        BY <3>3
      <3> QED
        BY <3>2, <3>4 DEF D!Indexed
    <2> QED
      BY <2>1, <2>3, <2>4 DEF Agree
  <1>10. Sound(map.type, N, K) => Sound(map.type, P, Q)'
    <2>1. map'.type = t
      BY <1>1, <1>2, <1>4 DEF MapBecomes
    <2> QED
      BY <1>1, <1>9, <2>1 DEF Sound
  <1> QED
    BY <1>5, <1>10 DEF Moves

\* The deletion of an entry that one of the tables has
LEMMA WordsDeleteOf ==
  ASSUME NEW N, NEW K, MapHas(map, N, K), NEW x \in Entry, (ByName(map.type) /\ x \in N) \/ (ByNumber(map.type) /\ x \in K), DeleteEntry(x)
  PROVE  Moves(N, K)
  <1>1. PICK t \in 1..3 : t = map.type
    BY MapIs
  <1>2. PICK r : r = map' /\ r = Deleted(map, x)
    BY DEF DeleteEntry
  <1>3. PICK P, Q : P = D!Without(N, "name", x) /\ Q = D!Without(K, "number", x)
    OBVIOUS
  <1>4. MapBecomes(map, P, Q, r)
    BY <1>2, <1>3, MapDeletes
  <1>5. MapMoves(map, N, K, map', P, Q)
    BY <1>1, <1>2, <1>3, <1>4 DEF MapBecomes, MapMoves, Deletes
  <1>6. x.name \in WordName /\ x.number \in WordNumber /\ x["name"] = x.name /\ x["number"] = x.number
    BY DEF Entry
  <1>7. wordMap_findByName(map, x.name) = {e \in N : e["name"] = x["name"]}
    BY <1>6, MapFinds
  <1>8. wordMap_findByNumber(map, x.number) = {e \in K : e["number"] = x["number"]}
    BY <1>6, MapFinds
  <1>9. ASSUME clashed' # TRUE, Sound(t, N, K) PROVE Agree(t, P, Q) /\ wordMapState' # "deleteAsserts"
    <2>1. clashed' = clashed /\ wordMapState' = IF DeleteStops(map, x) THEN "deleteAsserts" ELSE wordMapState
      BY DEF DeleteEntry
    <2>2. Agree(t, N, K) /\ wordMapState # "deleteAsserts"
      BY <1>9, <2>1 DEF Sound
    <2>3. t = 3 => N = K
      BY <2>2 DEF Agree
    <2>4. (ByName(t) => x \in N) /\ (ByNumber(t) => x \in K)
      BY <1>1, <2>3, TypeIs
    <2>5. ~DeleteStops(map, x)
      <3>1. ByName(t) => wordMap_findByName(map, x.name) # {}
        BY <1>7, <2>4
      <3>2. ByNumber(t) => wordMap_findByNumber(map, x.number) # {}
        BY <1>8, <2>4
      <3> QED
        BY <1>1, <3>1, <3>2 DEF DeleteStops
    <2>6. ASSUME t = 3 PROVE P = Q
      <3>1. N = K /\ x \in N
        BY <2>3, <2>4, <2>6, TypeIs
      <3>2. (\A d, e \in N : d["name"] = e["name"] => d = e) /\ (\A d, e \in K : d["number"] = e["number"] => d = e)
        BY MapIs
      <3>3. D!Without(N, "name", x) = N \ {x}
        BY <3>1, <3>2 DEF D!Without
      <3>4. D!Without(K, "number", x) = K \ {x}
        BY <3>1, <3>2 DEF D!Without
      <3> QED
        BY <1>3, <3>1, <3>3, <3>4
    <2> QED
      BY <2>1, <2>2, <2>5, <2>6 DEF Agree
  <1>10. Sound(map.type, N, K) => Sound(map.type, P, Q)'
    <2>1. map'.type = t
      BY <1>1, <1>2, <1>4 DEF MapBecomes
    <2> QED
      BY <1>1, <1>9, <2>1 DEF Sound
  <1> QED
    BY <1>5, <1>10 DEF Moves

\* wordMap_deleteByNumber and wordMap_deleteByName: each table loses what has the key.
LEMMA WordsDelete ==
  ASSUME NEW N, NEW K, MapHas(map, N, K),
         (\E k \in WordNumber : wordMap_deleteByNumber(k)) \/ (\E n \in WordName : wordMap_deleteByName(n))
  PROVE  Moves(N, K)
  <1>1. N \subseteq Entry /\ K \subseteq Entry
    BY MapIs
  <1>2. CASE \E k \in WordNumber : wordMap_deleteByNumber(k)
    <2>1. PICK k \in WordNumber : wordMap_deleteByNumber(k)
      BY <1>2
    <2>2. ByNumber(map.type) /\ \E x \in wordMap_findByNumber(map, k) : DeleteEntry(x)
      BY <2>1 DEF wordMap_deleteByNumber
    <2>3. PICK x \in wordMap_findByNumber(map, k) : DeleteEntry(x)
      BY <2>2
    <2>4. wordMap_findByNumber(map, k) = {e \in K : e["number"] = k}
      BY MapFinds
    <2>5. x \in K
      BY <2>3, <2>4
    <2> QED
      BY <1>1, <2>2, <2>3, <2>5, WordsDeleteOf
  <1>3. CASE \E n \in WordName : wordMap_deleteByName(n)
    <2>1. PICK n \in WordName : wordMap_deleteByName(n)
      BY <1>3
    <2>2. ByName(map.type) /\ \E x \in wordMap_findByName(map, n) : DeleteEntry(x)
      BY <2>1 DEF wordMap_deleteByName
    <2>3. PICK x \in wordMap_findByName(map, n) : DeleteEntry(x)
      BY <2>2
    <2>4. wordMap_findByName(map, n) = {e \in N : e["name"] = n}
      BY MapFinds
    <2>5. x \in N
      BY <2>3, <2>4
    <2> QED
      BY <1>1, <2>2, <2>3, <2>5, WordsDeleteOf
  <1> QED
    BY <1>2, <1>3

\* wordMap_save and wordMap_load: the entries of the main table are indexed.
LEMMA WordsLoad ==
  ASSUME NEW N, NEW K, MapHas(map, N, K), NEW version \in {1, 2}, wordMap_load(version), wordMapState = "runs"
  PROVE  Moves(N, K)
  <1>1. PICK t \in 1..3 : t = map.type
    BY MapIs
  <1>2. PICK W, f : W = MainSet(t, N, K) /\ f = MainField(t)
    OBVIOUS
  <1>3. /\ Words(map) = W /\ W \subseteq Entry /\ IsFiniteSet(W) /\ MainTable(map).elementCount = Cardinality(W)
        /\ GoodTable(MainTable(map), f, W)
        /\ \A d, e \in W : d[f] = e[f] => d = e
    BY <1>1, <1>2, MainIs
  <1>4. PICK s : s = HashOrder(MainTable(map)) /\ Listing(s, W)
    BY <1>3, OrderSo
  <1>5. PICK n \in Nat : n = Cardinality(W) /\ n = Len(s)
    BY <1>3, <1>4, FS_CardinalityType DEF Listing
  <1>6. PICK file : file = wordMap_save(map)
    OBVIOUS
  <1>7. file = [version |-> 2, type |-> t, count |-> n, lines |-> s]
    BY <1>1, <1>3, <1>4, <1>5, <1>6 DEF wordMap_save
  <1>8. file.count = n
    BY <1>7
  <1>9. CASE n = 0
    <2>1. map' = map /\ clashed' = clashed /\ wordMapState' = "loadAsserts"
      BY <1>6, <1>8, <1>9 DEF wordMap_load
    <2>2. MapMoves(map, N, K, map', N, K)
      BY <2>1 DEF MapMoves
    <2>3. Sound(map.type, N, K) => Sound(map.type, N, K)'
      BY <2>1 DEF Sound
    <2> QED
      BY <2>2, <2>3 DEF Moves
  <1>10. CASE n # 0
    <2>1. PICK g : g = IF version = 1 THEN OfVersion1(file) ELSE file
      OBVIOUS
    <2>2. g.count = n /\ g.lines = s /\ (IF g.version = 1 THEN 3 ELSE g.type) = t
      <3>1. CASE version = 1
        <4>1. g = [version |-> 1, type |-> t, count |-> n, lines |-> s]
          BY <1>7, <2>1, <3>1 DEF OfVersion1
        <4>2. t = 3
          BY <1>1, <3>1 DEF wordMap_load
        <4> QED
          BY <4>1, <4>2
      <3>2. CASE version = 2
        <4>1. g = file
          BY <2>1, <3>2
        <4> QED
          BY <1>7, <4>1
      <3> QED
        BY <3>1, <3>2
    <2>3. /\ map' = LoadedFrom(g) /\ wordMapState' = wordMapState
          /\ clashed' = (map.type = 3 /\ \E d, e \in Words(map) : d # e /\ d.number = e.number)
      BY <1>6, <1>8, <1>10, <2>1 DEF wordMap_load
    <2>4. PICK r : r = map' /\ r = LoadedFrom(g)
      BY <2>3
    <2>5. s \in Seq(Entry) /\ FirstLines(s, n) = W
      BY <1>4, <1>5 DEF FirstLines, Listing
    <2>6. Loads(r, t, W)
      BY <1>5, <1>10, <2>2, <2>4, <2>5, LoadSo
    <2>7. PICK P, Q : MapHas(r, P, Q) /\ Indexing(t, P, Q, W) /\ r.type = t
      BY <2>6 DEF Loads
    <2>8. MainSet(t, P, Q) = W
      <3>1. CASE ByName(t)
        <4>1. D!IndexOf(P, "name", W) /\ \A d, e \in W : d["name"] = e["name"] => d = e
          BY <1>2, <1>3, <2>7, <3>1 DEF Indexing, MainField
        <4> QED
          BY <3>1, <4>1, IndexAll DEF MainSet
      <3>2. CASE ~ByName(t)
        <4>1. D!IndexOf(Q, "number", W) /\ \A d, e \in W : d["number"] = e["number"] => d = e
          BY <1>2, <1>3, <2>7, <3>2, TypeIs DEF Indexing, MainField
        <4> QED
          BY <3>2, <4>1, IndexAll DEF MainSet
      <3> QED
        BY <3>1, <3>2
    <2>9. MapMoves(map, N, K, map', P, Q)
      BY <1>1, <1>2, <2>4, <2>7, <2>8 DEF MapMoves, Reloads
    <2>10. ASSUME clashed' # TRUE PROVE Agree(t, P, Q)
      <3>1. ASSUME t = 3 PROVE P = Q
        <4>1. \A d, e \in W : d.number = e.number => d = e
          BY <1>1, <1>3, <2>3, <2>10, <3>1
        <4>2. \A d, e \in W : d["number"] = e["number"] => d = e
          BY <4>1
        <4>3. D!IndexOf(Q, "number", W)
          BY <2>7, <3>1, TypeIs DEF Indexing
        <4>4. Q = W
          BY <4>2, <4>3, IndexAll
        <4>5. P = W
          BY <2>8, <3>1, TypeIs DEF MainSet
        <4> QED
          BY <4>4, <4>5
      <3> QED
        BY <3>1 DEF Agree
    <2>11. Sound(map.type, P, Q)'
      BY <2>3, <2>4, <2>7, <2>10 DEF Sound
    <2> QED
      BY <2>9, <2>11 DEF Moves
  <1> QED
    BY <1>9, <1>10

\* Every step of the word map
LEMMA WordsStep ==
  ASSUME NEW N, NEW K, MapHas(map, N, K), [WordMapNext]_wordMapVars
  PROVE  Moves(N, K)
  <1>1. CASE \E x \in Entry : wordMap_add(x)
    BY <1>1, WordsAdd
  <1>2. CASE (\E k \in WordNumber : wordMap_deleteByNumber(k)) \/ (\E n \in WordName : wordMap_deleteByName(n))
    BY <1>2, WordsDelete
  <1>3. CASE wordMapState = "runs" /\ \E version \in {1, 2} : wordMap_load(version)
    BY <1>3, WordsLoad
  <1>4. CASE map' = map /\ clashed' = clashed /\ wordMapState' = wordMapState
    <2>1. MapMoves(map, N, K, map', N, K)
      BY <1>4 DEF MapMoves
    <2>2. Sound(map.type, N, K) => Sound(map.type, N, K)'
      BY <1>4 DEF Sound
    <2> QED
      BY <2>1, <2>2 DEF Moves
  <1>5. CASE \E c \in HashCursor :
               \/ \E field \in {"name", "number"} : wordMap_cursor_create(c, field)
               \/ wordMap_cursor_destroy(c)
               \/ wordMap_cursor_goFirst(c)
               \/ wordMap_cursor_goNext(c)
    <2>1. map' = map /\ clashed' = clashed /\ wordMapState' = wordMapState
      BY <1>5 DEF wordMap_cursor_create, wordMap_cursor_destroy, wordMap_cursor_goFirst, wordMap_cursor_goNext
    <2> QED
      BY <1>4, <2>1
  <1> QED
    BY <1>1, <1>2, <1>3, <1>4, <1>5 DEF WordMapNext, wordMapVars

\* clashed is a truth value.
LEMMA ClashedIs == clashed \in BOOLEAN /\ [WordMapNext]_wordMapVars => clashed' \in BOOLEAN
  <1> SUFFICES ASSUME clashed \in BOOLEAN, [WordMapNext]_wordMapVars PROVE clashed' \in BOOLEAN
    OBVIOUS
  <1>1. CASE \E x \in Entry : wordMap_add(x)
    BY <1>1 DEF wordMap_add
  <1>2. CASE \E version \in {1, 2} : wordMap_load(version)
    BY <1>2 DEF wordMap_load
  <1>3. CASE clashed' = clashed
    BY <1>3
  <1>4. CASE (\E k \in WordNumber : wordMap_deleteByNumber(k)) \/ (\E n \in WordName : wordMap_deleteByName(n))
    BY <1>4 DEF wordMap_deleteByNumber, wordMap_deleteByName, DeleteEntry
  <1>5. CASE \E c \in HashCursor :
               \/ \E field \in {"name", "number"} : wordMap_cursor_create(c, field)
               \/ wordMap_cursor_destroy(c)
               \/ wordMap_cursor_goFirst(c)
               \/ wordMap_cursor_goNext(c)
    BY <1>5 DEF wordMap_cursor_create, wordMap_cursor_destroy, wordMap_cursor_goFirst, wordMap_cursor_goNext
  <1> QED
    BY <1>1, <1>2, <1>3, <1>4, <1>5 DEF WordMapNext, wordMapVars

\* The indices of a map
LEMMA IndicesAre ==
  ASSUME NEW m, NEW N, NEW K, MapHas(m, N, K)
  PROVE  /\ Indices(m) = [f \in Fields(m.type) |-> IF f = "name" THEN N ELSE K]
         /\ \A f \in Fields(m.type) : (f = "name" /\ ByName(m.type)) \/ (f = "number" /\ ByNumber(m.type))
         /\ ("name" \in Fields(m.type) <=> ByName(m.type)) /\ ("number" \in Fields(m.type) <=> ByNumber(m.type))
  <1>1. HashElements(m.byName) = N /\ HashElements(m.byNumber) = K
    BY MapIs
  <1>2. \A f \in Fields(m.type) : HashElements(TableOf(m, f)) = IF f = "name" THEN N ELSE K
    BY <1>1 DEF TableOf
  <1>3. "name" # "number"
    OBVIOUS
  <1> QED
    BY <1>2, <1>3 DEF Indices, Fields

\* What a step does to the indices
LEMMA WordsIndices ==
  ASSUME NEW N, NEW K, MapHas(map, N, K), NEW P, NEW Q, MapMoves(map, N, K, map', P, Q)
  PROVE  [D!Reload \/ D!AddPair \/ D!DeletePair]_(Indices(map))
  <1>1. PICK t \in 1..3 : t = map.type
    BY MapIs
  <1>2. PICK r : r = map'
    OBVIOUS
  <1>3. MapHas(r, P, Q) /\ r.type = t
    BY <1>1, <1>2 DEF MapMoves
  <1>4. PICK F : F = Fields(t)
    OBVIOUS
  <1>5. PICK I : I = Indices(map) /\ I = [f \in F |-> IF f = "name" THEN N ELSE K]
    BY <1>1, <1>4, IndicesAre
  <1>6. PICK J : J = Indices(map)' /\ J = [f \in F |-> IF f = "name" THEN P ELSE Q]
    <2>1. Indices(map)' = Indices(r)
      BY <1>2
    <2>2. Indices(r) = [f \in F |-> IF f = "name" THEN P ELSE Q]
      BY <1>3, <1>4, IndicesAre
    <2> QED
      BY <2>1, <2>2
  <1>7. /\ \A f \in F : (f = "name" /\ ByName(t)) \/ (f = "number" /\ ByNumber(t))
        /\ ("name" \in F <=> ByName(t)) /\ ("number" \in F <=> ByNumber(t))
    BY <1>1, <1>4, IndicesAre
  <1>8. DOMAIN I = F /\ DOMAIN J = F /\ \A f \in F : IF f = "name" THEN I[f] = N /\ J[f] = P ELSE I[f] = K /\ J[f] = Q
    BY <1>5, <1>6
  <1>9. CASE P = N /\ Q = K
    BY <1>5, <1>6, <1>9
  <1>10. CASE Adds(t, N, K, P, Q)
    <2>1. PICK x \in Entry : P = NameSet(t, D!Indexed(N, "name", x)) /\ Q = NumberSet(t, D!Indexed(K, "number", x))
      BY <1>10 DEF Adds
    <2>2. \A f \in F : (IF f = "name" THEN P ELSE Q) = D!Indexed(I[f], f, x)
      BY <1>7, <1>8, <2>1 DEF NameSet, NumberSet
    <2>3. J = [f \in DOMAIN I |-> D!Indexed(I[f], f, x)]
      BY <1>6, <1>8, <2>2
    <2>4. x \in D!Pair
      BY DEF D!Pair, Entry
    <2>5. D!AddPair
      BY <1>5, <1>6, <2>3, <2>4 DEF D!AddPair
    <2> QED
      BY <2>5
  <1>11. CASE Deletes(t, N, K, P, Q)
    <2>1. PICK x \in Entry : /\ (ByName(t) /\ x \in N) \/ (ByNumber(t) /\ x \in K)
                             /\ P = D!Without(N, "name", x) /\ Q = D!Without(K, "number", x)
      BY <1>11 DEF Deletes
    <2>2. \A f \in F : (IF f = "name" THEN P ELSE Q) = D!Without(I[f], f, x)
      BY <1>7, <1>8, <2>1
    <2>3. J = [f \in DOMAIN I |-> D!Without(I[f], f, x)]
      BY <1>6, <1>8, <2>2
    <2>4. \E g \in DOMAIN I : x \in I[g]
      <3>1. CASE ByName(t) /\ x \in N
        <4>1. "name" \in DOMAIN I /\ x \in I["name"]
          BY <1>7, <1>8, <3>1
        <4> QED
          BY <4>1
      <3>2. CASE ByNumber(t) /\ x \in K
        <4>1. "number" \in DOMAIN I /\ x \in I["number"]
          BY <1>7, <1>8, <3>2
        <4> QED
          BY <4>1
      <3> QED
        BY <2>1, <3>1, <3>2
    <2>5. D!DeletePair
      BY <1>5, <1>6, <2>3, <2>4 DEF D!DeletePair
    <2> QED
      BY <2>5
  <1>12. CASE Reloads(t, N, K, P, Q)
    <2>1. PICK W, g : W = MainSet(t, N, K) /\ g = IF "name" \in F THEN "name" ELSE "number"
      OBVIOUS
    <2>2. MainSet(t, P, Q) = W /\ Indexing(t, P, Q, W)
      BY <1>12, <2>1 DEF Reloads
    <2>3. g \in F /\ (g = "name" <=> ByName(t))
      BY <1>7, <2>1, TypeIs
    <2>4. I[g] = W /\ J[g] = W
      BY <1>8, <2>1, <2>2, <2>3 DEF MainSet
    <2>5. \A f \in F : D!IndexOf(J[f], f, W)
      BY <1>7, <1>8, <2>2 DEF Indexing
    <2>6. D!First = g
      BY <1>5, <1>8, <2>1 DEF D!First
    <2>7. D!Reload
      BY <1>5, <1>6, <1>8, <2>4, <2>5, <2>6 DEF D!Reload
    <2> QED
      BY <2>7
  <1> QED
    BY <1>1, <1>9, <1>10, <1>11, <1>12 DEF MapMoves

\* What a step leaves, and what it does to the indices
LEMMA WordsMove ==
  ASSUME WordsInv, [WordMapNext]_wordMapVars
  PROVE  /\ WordsInv' /\ [D!Reload \/ D!AddPair \/ D!DeletePair]_(Indices(map))
         /\ MainTable(map').size # MainTable(map).size => Words(map') = Words(map)
  <1>1. PICK N, K : MapHas(map, N, K) /\ Sound(map.type, N, K)
    BY DEF WordsInv
  <1>2. PICK P, Q : MapMoves(map, N, K, map', P, Q) /\ (Sound(map.type, N, K) => Sound(map.type, P, Q)')
    BY <1>1, WordsStep DEF Moves
  <1>3. WordsInv'
    <2>1. clashed' \in BOOLEAN
      BY ClashedIs DEF WordsInv
    <2>2. MapHas(map', P, Q)
      BY <1>2 DEF MapMoves
    <2>3. Sound(map.type, P, Q)'
      BY <1>1, <1>2
    <2> QED
      BY <2>1, <2>2, <2>3 DEF WordsInv
  <1>4. [D!Reload \/ D!AddPair \/ D!DeletePair]_(Indices(map))
    BY <1>1, <1>2, WordsIndices
  <1>5. ASSUME MainTable(map').size # MainTable(map).size PROVE Words(map') = Words(map)
    <2>1. PICK t, r : t = map.type /\ r = map'
      OBVIOUS
    <2>2. \/ P = N /\ Q = K
          \/ Reloads(t, N, K, P, Q)
      BY <1>2, <1>5, <2>1 DEF MapMoves
    <2>3. MainSet(t, P, Q) = MainSet(t, N, K)
      BY <2>2 DEF Reloads
    <2>4. MapHas(r, P, Q) /\ r.type = t
      BY <1>2, <2>1 DEF MapMoves
    <2>5. Words(r) = MainSet(t, P, Q) /\ Words(map) = MainSet(t, N, K)
      BY <1>1, <2>1, <2>4, MainIs
    <2> QED
      BY <2>1, <2>3, <2>5
  <1> QED
    BY <1>3, <1>4, <1>5

\* A library step is a step of the word map, or leaves it alone.
LEMMA WordsSteps == [Next]_libraryVars => [WordMapNext]_wordMapVars
  BY DEF Next, libraryVars, wordMapVars

\* The invariant of the word map holds in every state of the library.
LEMMA WordsInvariance == Spec => []WordsInv
  <1>1. Init => WordsInv
    BY WordsStart DEF Init
  <1>2. WordsInv /\ [Next]_libraryVars => WordsInv'
    BY WordsMove, WordsSteps
  <1> QED
    BY <1>1, <1>2, PTL DEF Spec

\* wordMap.c implements the dictionary: whatever the hash function, with tables of any size, and whatever entries are
\* added, each table takes an entry unless it has its key and loses what has the key that is deleted, and a save and load
\* makes the tables from the entries of the first, all of which stay.
THEOREM WordMapImplements == Spec => ImplementsDictionary
  <1>1. Init => DOMAIN Indices(map) \subseteq {"name", "number"} /\ \A f \in DOMAIN Indices(map) : Indices(map)[f] = {}
    <2>1. DOMAIN Indices(map) \subseteq {"name", "number"}
      BY DEF Indices, Fields
    <2> QED
      BY <2>1, WordsStart DEF Init
  <1>2. WordsInv /\ [Next]_libraryVars => [D!Reload \/ D!AddPair \/ D!DeletePair]_(Indices(map))
    BY WordsMove, WordsSteps
  <1>3. WordsInv /\ [Next]_libraryVars => [MainTable(map').size # MainTable(map).size => Words(map') = Words(map)]_map
    BY WordsMove, WordsSteps
  <1>4. Spec => D!Dictionary
    BY <1>1, <1>2, WordsInvariance, PTL DEF Spec, D!Dictionary
  <1>5. Spec => LoadKeepsWords
    BY <1>3, WordsInvariance, PTL DEF Spec, LoadKeepsWords
  <1> QED
    BY <1>4, <1>5 DEF ImplementsDictionary

\* Each table of a word map is sound and finds its entries by their key, whatever is added; and as long as no entry was
\* taken by one table only, both hold the same, the count is theirs, and a deletion finds its entry in both.
THEOREM WordTablesAgree == Spec => []TablesAgree
  <1>1. WordsInv => TablesAgree
    <2> SUFFICES ASSUME WordsInv PROVE TablesAgree
      OBVIOUS
    <2>1. PICK N, K : MapHas(map, N, K) /\ Sound(map.type, N, K)
      BY DEF WordsInv
    <2>2. PICK t \in 1..3 : t = map.type
      BY <2>1, MapIs
    <2>3. /\ GoodTable(map.byName, "name", N) /\ GoodTable(map.byNumber, "number", K)
          /\ HashElements(map.byName) = N /\ N \subseteq Entry /\ map.byName.elementCount = Cardinality(N)
          /\ HashElements(map.byNumber) = K /\ K \subseteq Entry /\ map.byNumber.elementCount = Cardinality(K)
          /\ (\A d, e \in N : d["name"] = e["name"] => d = e) /\ (\A d, e \in K : d["number"] = e["number"] => d = e)
      BY <2>1, MapIs
    <2>4. HashTableSound(map.byName) /\ HashTableSound(map.byNumber)
      BY <2>3, TableStays
    <2>5. ASSUME NEW e \in N PROVE wordMap_findByName(map, e.name) = {e}
      <3>1. e.name \in WordName /\ e["name"] = e.name
        BY <2>3 DEF Entry
      <3>2. wordMap_findByName(map, e.name) = {d \in N : d["name"] = e["name"]}
        BY <2>1, <3>1, MapFinds
      <3> QED
        BY <2>3, <3>2
    <2>6. ASSUME NEW e \in K PROVE wordMap_findByNumber(map, e.number) = {e}
      <3>1. e.number \in WordNumber /\ e["number"] = e.number
        BY <2>3 DEF Entry
      <3>2. wordMap_findByNumber(map, e.number) = {d \in K : d["number"] = e["number"]}
        BY <2>1, <3>1, MapFinds
      <3> QED
        BY <2>3, <3>2
    <2>7. ASSUME clashed # TRUE
          PROVE  /\ map.type = 3 => HashElements(map.byName) = HashElements(map.byNumber)
                 /\ wordMap_getNoElements(map) = Cardinality(Words(map))
                 /\ wordMapState # "deleteAsserts"
      <3>1. (t = 3 => N = K) /\ wordMapState # "deleteAsserts"
        BY <2>1, <2>2, <2>7 DEF Sound, Agree
      <3>2. Words(map) = MainSet(t, N, K)
        BY <2>1, <2>2, MainIs
      <3>3. wordMap_getNoElements(map) = Cardinality(IF ByNumber(t) THEN K ELSE N)
        BY <2>2, <2>3 DEF wordMap_getNoElements
      <3>4. MainSet(t, N, K) = IF ByNumber(t) THEN K ELSE N
        BY <3>1, TypeIs DEF MainSet
      <3> QED
        BY <2>2, <2>3, <3>1, <3>2, <3>3, <3>4
    <2>8. ~clashed => clashed # TRUE
      OBVIOUS
    <2> QED
      BY <2>2, <2>3, <2>4, <2>5, <2>6, <2>7, <2>8 DEF TablesAgree, WordMapType
  <1> QED
    BY <1>1, WordsInvariance, PTL

\* The containers that a single thread uses keep their representation sound through every sequence of calls: the
\* tables of a word map, a bag with its iterators, the elements of a circular buffer, the free list of an ID table and a string buffer.
THEOREM ContainersStaySound == Spec => []ContainersSound
  BY WordTablesAgree, BagStaysSound, CircElementsOwned, IdtFreeListStaysSound, StringBufferStaysSound, PTL DEF ContainersSound
=============================================================================
