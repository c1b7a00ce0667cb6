--------------------------- MODULE CircularBuffer ---------------------------
(***************************************************************************)
(* The circular buffer of circularBuffer.c on a vector of its own.  It has *)
(* no lock: a function is one step.  The buffer owns its elements if it    *)
(* has a destroyFunc.                                                      *)
(***************************************************************************)
EXTENDS Vector

CONSTANTS CircElement, CircSize

NullPtr == "NULL"

(* With one slot tailIndex starts outside the vector (README).             *)
ASSUME CircAssumption == CircSize \in Nat /\ CircSize > 1 /\ NullPtr \notin CircElement

VARIABLES
  circBuf,    \* the sCircularBuffer, and whether it exists
  circFreed,  \* the calls of destroyFunc
  circPopped, \* history: elements given back by popTail
  circPushed  \* history: elements ever pushed

circVars == <<circBuf, circFreed, circPopped, circPushed>>

(* The slots are filled by vectorSetElementAt, one after the other.        *)
CircInit ==
  /\ \E destroyFunc \in BOOLEAN :
       circBuf = [vector |-> [vectorCreate(CircSize, 1) EXCEPT
                                !.data = [i \in 1 .. CircSize |-> NullPtr]],
                  headIndex |-> 0, tailIndex |-> 1, elementCount |-> 0,
                  destroyFunc |-> destroyFunc, exists |-> TRUE]
  /\ circFreed = << >>
  /\ circPopped = {}
  /\ circPushed = {}

Following(index) == IF index = CircSize - 1 THEN 0 ELSE index + 1

(* A full buffer gives up its tail element first.                          *)
Mut_MadeRoomKeepsTail(cb) ==
  IF cb.elementCount = CircSize THEN [cb EXCEPT !.elementCount = @ - 1] ELSE cb

MadeRoom(cb) ==
  IF cb.elementCount = CircSize
  THEN [cb EXCEPT !.tailIndex = Following(@), !.elementCount = @ - 1]
  ELSE cb

(* The elements are new to the buffer, or were popped.                     *)
circBuf_push(e) ==
  /\ circBuf.exists
  /\ e \notin Range(circBuf.vector.data) \cup Range(circFreed)
  /\ LET full == circBuf.elementCount = CircSize
         cb == MadeRoom(circBuf)
         head == Following(cb.headIndex)
     IN /\ circBuf' = [cb EXCEPT !.headIndex = head,
                                 !.vector = vectorSetElementAt(@, head, e),
                                 !.elementCount = @ + 1]
        /\ circFreed' = IF full /\ cb.destroyFunc
                        THEN Append(circFreed,
                                    vectorGetElementAt(cb.vector, circBuf.tailIndex))
                        ELSE circFreed
  /\ circPopped' = circPopped \ {e}
  /\ circPushed' = circPushed \cup {e}

(* The slot is cleared, in a build with assertions.                        *)
WithoutTail(cb) ==
  [cb EXCEPT !.vector = vectorSetElementAt(@, cb.tailIndex, NullPtr),
             !.tailIndex = Following(@), !.elementCount = @ - 1]

Oldest(cb) == vectorGetElementAt(cb.vector, cb.tailIndex)

circBuf_popTail ==
  /\ circBuf.exists /\ circBuf.elementCount > 0
  /\ circBuf' = WithoutTail(circBuf)
  /\ circPopped' = circPopped \cup {Oldest(circBuf)}
  /\ UNCHANGED <<circFreed, circPushed>>

(* clear pops and destroys until the buffer is empty; it calls destroyFunc *)
(* without a test for NULL.                                                *)
Popping(cb) ==
  LET after[i \in 0 .. cb.elementCount] == IF i = 0 THEN cb ELSE WithoutTail(after[i - 1])
  IN after

circBuf_clear ==
  LET n == circBuf.elementCount
  IN /\ circBuf.exists /\ circBuf.destroyFunc /\ n > 0
     /\ circBuf' = Popping(circBuf)[n]
     /\ circFreed' = circFreed \o [i \in 1 .. n |-> Oldest(Popping(circBuf)[i - 1])]
     /\ UNCHANGED <<circPopped, circPushed>>

(* destroy walks from the head, the newest element, upwards: what it meets *)
(* next are the empty slots (destroyFunc gets their NULL) and the oldest.  *)
WalkFrom(head) ==
  LET index[i \in 1 .. CircSize] == IF i = 1 THEN head ELSE Following(index[i - 1])
  IN index

circBuf_destroy ==
  /\ circBuf.exists
  /\ circBuf' = [circBuf EXCEPT !.exists = FALSE]
  /\ circFreed' = IF circBuf.destroyFunc
                  THEN circFreed \o
                       [i \in 1 .. circBuf.elementCount |->
                          vectorGetElementAt(circBuf.vector, WalkFrom(circBuf.headIndex)[i])]
                  ELSE circFreed
  /\ UNCHANGED <<circPopped, circPushed>>

CircNext ==
  \/ \E e \in CircElement : circBuf_push(e)
  \/ circBuf_popTail \/ circBuf_clear \/ circBuf_destroy

---------------------------------------------------------------------------
CircItems == [i \in 1 .. circBuf.elementCount |->
                vectorGetElementAt(circBuf.vector,
                                   (circBuf.tailIndex + i - 1) % CircSize)]

(* The buffer holds the most recent elements in the order they were        *)
(* pushed; head, tail and count agree around the end of the vector, and    *)
(* an element that a push drops is the oldest.                             *)
R == INSTANCE RecentItems WITH Item <- CircElement, Size <- CircSize,
                               items <- CircItems

CircImplementsRecentItems == R!RecentItems

(* The walk of circBuf_destroy meets all the elements, and nothing else.   *)
WalkMeetsAll == circBuf.elementCount \in {0, 1, CircSize}

(* The buffer answers for every element pushed: as long as it exists, each *)
(* is in it, or was given back by popTail, or - if there is a destroyFunc -*)
(* was destroyed, in one of these ways only; none is destroyed twice, and  *)
(* destroyFunc is not called for NULL.  circBuf_destroy leaves it so when  *)
(* the buffer is full, empty or has one element; otherwise the elements it *)
(* passes are lost, but none is destroyed again.                           *)
CircOwnership ==
  LET held == IF circBuf.exists THEN Range(CircItems) ELSE {}
      freed == Range(circFreed)
  IN /\ held \subseteq CircElement
     /\ held \cap freed = {} /\ held \cap circPopped = {} /\ freed \cap circPopped = {}
     /\ \A i, j \in DOMAIN circFreed :
          circFreed[i] = circFreed[j] => i = j \/ circFreed[i] = NullPtr
     /\ circBuf.exists \/ WalkMeetsAll =>
          /\ NullPtr \notin freed
          /\ circBuf.destroyFunc => circPushed \subseteq held \cup freed \cup circPopped

(* circularBuffer.c:105 has circBuf_destroy destroy all the elements.  With*)
(* more than one and free slots it walks the wrong way and loses some.     *)
DestroyFreesAll ==
  ~circBuf.exists /\ circBuf.destroyFunc =>
    circPushed \subseteq Range(circFreed) \cup circPopped
=============================================================================
