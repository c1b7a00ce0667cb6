----------------------------- MODULE ByteStream -----------------------------
(***************************************************************************)
(* What byteQueue.h promises to one writer and one reader: a bounded FIFO  *)
(* of bytes that carries one stream after the other.  A stream begins only *)
(* when the reader has been told of the end of the previous one, and by    *)
(* then has all of its bytes.                                              *)
(***************************************************************************)
EXTENDS Naturals, Sequences

CONSTANTS Byte, Capacity

VARIABLES contents,    \* bytes written and not read, oldest first
          ended,       \* the writer is between two streams
          endSeen      \* the reader has been told that the last stream ended

vars == <<contents, ended, endSeen>>

Init == contents = << >> /\ ended = TRUE /\ endSeen = FALSE

Put ==
  /\ ~ended
  /\ \E n \in 1..(Capacity - Len(contents)) :
       /\ contents' \in {contents \o bs : bs \in [1..n -> Byte]}
  /\ UNCHANGED <<ended, endSeen>>

Take ==
  /\ \E n \in 1..Len(contents) : contents' = SubSeq(contents, n + 1, Len(contents))
  /\ UNCHANGED <<ended, endSeen>>

End == ~ended /\ ended' = TRUE /\ endSeen' = FALSE /\ UNCHANGED contents

SeeEnd == ended /\ contents = << >> /\ endSeen' = TRUE /\ UNCHANGED <<contents, ended>>

Begin == ended /\ endSeen /\ contents = << >> /\ ended' = FALSE /\ UNCHANGED <<contents, endSeen>>

Next == Put \/ Take \/ End \/ SeeEnd \/ Begin

Spec == Init /\ [][Next]_vars

=============================================================================
