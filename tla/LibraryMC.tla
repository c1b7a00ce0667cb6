----------------------------- MODULE LibraryMC ------------------------------
(***************************************************************************)
(* The parts of the library that are used by themselves, in one run: each  *)
(* behaviour is one of the part that subject names.                        *)
(***************************************************************************)
EXTENDS WordMap, CircularBuffer, Bag, IDTable, MemoryManager, Logging, StateMachine,
        StrBuf, BinaryTree, Sock

VARIABLE subject

(* Names that meet in one chain of their table, numbers that do not.       *)
MCcalcIndx ==
  [name |-> [n \in WordName |-> IF n = "b" THEN 3 ELSE 1],
   number |-> [k \in WordNumber |-> k]]

(* Three cursors can be on a map with one table, two on one with both.     *)
MCCursors == [type \in WordMapType |-> IF type = 3 THEN {"c1", "c2"} ELSE HashCursor]

(* Connections are interchangeable.                                        *)
MCSymmetry == Permutations(SockConn)

libraryVars == <<wordMapVars, vectorVars, circVars, bagVars, idtVars, memVars, logVars, smVars,
                 strbuf, btVars, sockVars, subject>>

(* A part that is not the subject starts in one of its initial states.     *)
Init ==
  /\ subject \in {"wordMap", "vector", "circularBuffer", "bag", "idTable", "memory",
                  "logging", "stateMachine", "strbuf", "bt", "sock"}
  /\ WordMapInit /\ (subject # "wordMap" => map.type = CHOOSE t \in WordMapType : TRUE)
  /\ VectorInit
  /\ CircInit /\ (subject # "circularBuffer" => circBuf.destroyFunc)
  /\ BagInit /\ MemInit /\ LogInit /\ stateMachine_defCreate
  /\ IdtInit /\ (subject # "idTable" => idtPointer = CHOOSE size \in IdtPointerSizes : TRUE)
  /\ StrBufInit /\ bt_create /\ SockInit

Next ==
  \/ /\ subject = "wordMap" /\ WordMapNext
     /\ UNCHANGED <<vectorVars, circVars, bagVars, idtVars, memVars, logVars, smVars, strbuf,
                    btVars, sockVars, subject>>
  \/ /\ subject = "vector" /\ VectorNext
     /\ UNCHANGED <<wordMapVars, circVars, bagVars, idtVars, memVars, logVars, smVars, strbuf,
                    btVars, sockVars, subject>>
  \/ /\ subject = "circularBuffer" /\ CircNext
     /\ UNCHANGED <<wordMapVars, vectorVars, bagVars, idtVars, memVars, logVars, smVars, strbuf,
                    btVars, sockVars, subject>>
  \/ /\ subject = "bag" /\ BagNext
     /\ UNCHANGED <<wordMapVars, vectorVars, circVars, idtVars, memVars, logVars, smVars, strbuf,
                    btVars, sockVars, subject>>
  \/ /\ subject = "idTable" /\ IdtNext
     /\ UNCHANGED <<wordMapVars, vectorVars, circVars, bagVars, memVars, logVars, smVars,
                    strbuf, btVars, sockVars, subject>>
  \/ /\ subject = "memory" /\ MemNext
     /\ UNCHANGED <<wordMapVars, vectorVars, circVars, bagVars, idtVars, logVars, smVars, strbuf,
                    btVars, sockVars, subject>>
  \/ /\ subject = "logging" /\ LogNext
     /\ UNCHANGED <<wordMapVars, vectorVars, circVars, bagVars, idtVars, memVars, smVars, strbuf,
                    btVars, sockVars, subject>>
  \/ /\ subject = "stateMachine" /\ SmNext
     /\ UNCHANGED <<wordMapVars, vectorVars, circVars, bagVars, idtVars, memVars, logVars, strbuf,
                    btVars, sockVars, subject>>
  \/ /\ subject = "strbuf" /\ StrBufNext
     /\ UNCHANGED <<wordMapVars, vectorVars, circVars, bagVars, idtVars, memVars, logVars, smVars,
                    btVars, sockVars, subject>>
  \/ /\ subject = "bt" /\ BtNext
     /\ UNCHANGED <<wordMapVars, vectorVars, circVars, bagVars, idtVars, memVars, logVars, smVars,
                    strbuf, sockVars, subject>>
  \/ /\ subject = "sock" /\ SockNext
     /\ UNCHANGED <<wordMapVars, vectorVars, circVars, bagVars, idtVars, memVars, logVars,
                    smVars, strbuf, btVars, subject>>

Spec == Init /\ [][Next]_libraryVars

(* The containers that a single thread uses (wordMap.c, bag.c,             *)
(* circularBuffer.c, idTable.c, strbuf.c) keep their representation sound  *)
(* through any sequence of calls, those included that leak, overrun an     *)
(* allocation by a bounded number of bytes or stop the program: each part  *)
(* says above its definition what holds then.                              *)
ContainersSound ==
  TablesAgree /\ BagSound /\ CircOwnership /\ IdtFreeListSound /\ StrBufSound

(* What is searched and traversed by links: the cursors on the hash tables *)
(* of a word map (hash.c) are in the lists of their cells, until a third   *)
(* cursor cuts one off, and their traversals are complete; the binary tree *)
(* (bt.c) has the values that were not removed where a search and a walk   *)
(* look for them.                                                          *)
SearchedSound == CursorsSound /\ TraversalComplete /\ BtSound

(* What threads share without the caller's help stays whole: a vector      *)
(* (vector.c) and the blocks of a memory manager (memory.c).               *)
SharedSound == VectorShared /\ MemBlocksDisjoint
=============================================================================
