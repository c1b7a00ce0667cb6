------------------------------- MODULE StrBuf -------------------------------
(***************************************************************************)
(* The string buffer of strbuf.c, by its numbers: how many characters it   *)
(* holds (cursor - string), bufferSize, bufferRemaining, and the bytes     *)
(* allocated.  A piece of a format is the number of characters it adds; a  *)
(* string to be quoted is the sequence of the kinds of its characters.     *)
(*                                                                         *)
(* Every write is modelled with its end, and some end past the allocation. *)
(* The model notes by how much and goes on, as a program does in which     *)
(* those bytes belong to nobody.  malloc and realloc succeed.              *)
(***************************************************************************)
EXTENDS Integers, Sequences, SequencesExt

CONSTANTS
  StrBufLengths,     \* the lengths strbuf_create is called with
  StrBufPieces,      \* the lengths of what is appended
  StrBufMax          \* bound: characters in the buffer

ASSUME StrBufAssumption ==
  /\ StrBufLengths \subseteq Nat \ {0} /\ StrBufLengths # {}
  /\ StrBufPieces \subseteq Nat \ {0} /\ StrBufMax \in Nat

VARIABLE strbuf

(* beyond and uncounted are history: by how many bytes a write has ended   *)
(* past the allocation of its time, and how many bytes a write has been of *)
(* that bufferRemaining does not count.                                    *)
strbuf_create(length) ==
  [length |-> 0, bufferSize |-> length, bufferRemaining |-> length,
   allocated |-> length + 1, beyond |-> 0, uncounted |-> 0]

Mut_EnlargeDoublesOnly(b, minFreeSpace) ==
  IF b.bufferRemaining > minFreeSpace THEN b
  ELSE [b EXCEPT !.bufferSize = @ + b.bufferSize, !.bufferRemaining = @ + b.bufferSize,
                 !.allocated = b.bufferSize + b.bufferSize]

(* The size is doubled, or grows by what is asked for when that is more.   *)
(* The allocation is then as large as bufferSize.                          *)
strbuf_enlarge(b, minFreeSpace) ==
  LET sizeIncrease == IF b.bufferSize + b.bufferRemaining < minFreeSpace
                      THEN minFreeSpace ELSE b.bufferSize
  IN IF b.bufferRemaining > minFreeSpace THEN b
     ELSE [b EXCEPT !.bufferSize = @ + sizeIncrease,
                    !.bufferRemaining = @ + sizeIncrease,
                    !.allocated = b.bufferSize + sizeIncrease]

Larger(m, n) == IF m < n THEN n ELSE m

(* `bytes' written at the cursor, which moves n characters.                *)
Put(b, n, bytes) ==
  [b EXCEPT !.length = @ + n, !.bufferRemaining = @ - n,
            !.beyond = Larger(@, b.length + bytes - b.allocated),
            !.uncounted = Larger(@, bytes - n)]

(* The \0 that ends a format; it is not counted.                           *)
Terminated(b) == Put(b, 0, 1)

(* %d, and %s without a quote string: strcpy writes the \0 too.            *)
PutText(b, n) == Put(strbuf_enlarge(b, n), n, n + 1)

(* A character of the format itself                                        *)
PutChar(b) == Put(IF b.bufferRemaining = 0 THEN strbuf_enlarge(b, 1) ELSE b, 1, 1)

(* What sprintf( cursor, "%%%2xc", c ) writes: %, the code, a letter c and *)
(* \0.  The code has two digits, or eight for a char that is negative.     *)
CharKind == {"plain", "quoted", "negative"}
QuotedBytes(kind) == IF kind = "negative" THEN 11 ELSE 5

(* %s with a quote string: room for the string is made first, and, for     *)
(* each character to be quoted, room for it and the rest of the string.    *)
(* Three characters are counted for a quoted one.                          *)
Quoted(b, s) ==
  LET at[i \in 0 .. Len(s)] ==
        LET remainToCopy == Len(s) - i + 1
        IN IF i = 0 THEN strbuf_enlarge(b, Len(s))
           ELSE IF s[i] = "plain" THEN Put(at[i - 1], 1, 1)
           ELSE Put(IF at[i - 1].bufferRemaining < remainToCopy + 2
                    THEN strbuf_enlarge(at[i - 1], remainToCopy + 2) ELSE at[i - 1],
                    3, QuotedBytes(s[i]))
  IN at

PutQuoted(b, s) == Quoted(b, s)[Len(s)]

(* A block, with nothing after it                                          *)
PutBinary(b, n) == Put(strbuf_enlarge(b, n), n, n)

---------------------------------------------------------------------------
StrBufInit == strbuf = strbuf_create(CHOOSE n \in StrBufLengths : TRUE)

(* A format of one piece, or of none (that of an unknown character ends    *)
(* there); one of several pieces is as many calls, which only write the \0 *)
(* more often.                                                             *)
strbuf_sprintf ==
  \/ \E n \in StrBufPieces : strbuf' = Terminated(PutText(strbuf, n))
  \/ strbuf' = Terminated(PutChar(strbuf))
  \/ strbuf' = Terminated(strbuf)

strbuf_sprintfQuoteSubstrings ==
  \E n \in StrBufPieces : \E s \in [1 .. n -> CharKind] :
    strbuf' = Terminated(PutQuoted(strbuf, s))

strbuf_appendBinary(n) == strbuf' = PutBinary(strbuf, n)

(* The string with its \0                                                  *)
strbuf_stringList_append == \E n \in StrBufPieces : strbuf_appendBinary(n + 1)

(* Destroyed, and another one created                                      *)
strbuf_destroy == \E n \in StrBufLengths : strbuf' = strbuf_create(n)

StrBufNext ==
  \/ /\ strbuf.length <= StrBufMax
     /\ \/ strbuf_sprintf \/ strbuf_sprintfQuoteSubstrings \/ strbuf_stringList_append
        \/ \E n \in StrBufPieces : strbuf_appendBinary(n)
  \/ strbuf_destroy

---------------------------------------------------------------------------
(* The invariant strbuf.c states of its structure (strbuf.c:30) and        *)
(* asserts in every function, with what it is for: bufferRemaining, a      *)
(* size_t, never goes below zero, the characters it counts lie in the      *)
(* allocation, and a write ends past the allocation by no more than it     *)
(* does not count, whatever mixture of pieces and quoted strings fills and *)
(* enlarges the buffer: by nothing as long as the buffer has not grown and *)
(* nothing was quoted, by the \0 in one that has grown, by two bytes after *)
(* quoting, or eight when the character was negative.                      *)
StrBufSound ==
  /\ strbuf.length = strbuf.bufferSize - strbuf.bufferRemaining
  /\ strbuf.bufferRemaining >= 0
  /\ strbuf.bufferSize <= strbuf.allocated
  /\ \/ strbuf.beyond = 0
     \/ strbuf.beyond <= strbuf.uncounted - (strbuf.allocated - strbuf.bufferSize)
  /\ strbuf.uncounted \in {0, 1, 5 - 3, 11 - 3}

(* strbuf.c calls its buffers safe (strbuf.c:12), with a byte reserved for *)
(* the terminating \0 (strbuf.c:51).  A buffer that has grown has none.    *)
WritesInBounds == strbuf.beyond = 0
=============================================================================
