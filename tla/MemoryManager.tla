--------------------------- MODULE MemoryManager ----------------------------
(***************************************************************************)
(* The memory manager of memory.c: blocks of one size, the free ones in a  *)
(* list through their headers, used by several threads.  The list has a    *)
(* mutex; the field isFree of a block is set outside it, by the thread     *)
(* that has taken the block from the list or is about to give it back.     *)
(***************************************************************************)
EXTENDS Integers, FiniteSets, SequencesExt

CONSTANTS
  MemThread, MemCapacity,
  MemMaxDepth     \* bound on the depth of the mutex (see AllocateFull)

ASSUME MemAssumption ==
  MemCapacity \in Nat \ {0} /\ MemMaxDepth \in Nat /\ "unowned" \notin MemThread

VARIABLES
  memManager,  \* firstFree, and the headers of the blocks
  memMutex,    \* owner and depth of the recursive mutex
  memPc,       \* where a thread is
  memBlock,    \* the block a call of a thread works on, -1 for none
  memOwner,    \* history: the thread that has each block, or Unowned
  memFull      \* history: an allocation has failed

memVars == <<memManager, memMutex, memPc, memBlock, memOwner, memFull>>

Unowned == "unowned"
MemBlocks == 0 .. MemCapacity - 1

(* data is the union of nextFree and used.index.                           *)
MemInit ==
  /\ memManager = [firstFree |-> 0,
                   header |-> [i \in MemBlocks |->
                     [isFree |-> TRUE,
                      data |-> IF i = MemCapacity - 1 THEN -1 ELSE i + 1]]]
  /\ memMutex = [owner |-> Unowned, depth |-> 0]
  /\ memPc = [t \in MemThread |-> "out"]
  /\ memBlock = [t \in MemThread |-> -1]
  /\ memOwner = [i \in MemBlocks |-> Unowned]
  /\ memFull = FALSE

MemAt(t, from, to) == memPc[t] = from /\ memPc' = [memPc EXCEPT ![t] = to]

MemLock(t) ==
  /\ memMutex.owner \in {Unowned, t}
  /\ memMutex' = [owner |-> t, depth |-> memMutex.depth + 1]

MemUnlock(t) ==
  memMutex' = [owner |-> IF memMutex.depth = 1 THEN Unowned ELSE t,
               depth |-> memMutex.depth - 1]

---------------------------------------------------------------------------
(* memManager_allocate *)

memManager_allocate(t) ==
  /\ MemAt(t, "out", "pop")
  /\ MemLock(t) /\ memMutex.depth < MemMaxDepth
  /\ UNCHANGED <<memManager, memBlock, memOwner, memFull>>

Mut_PopKeepsList(t) ==
  /\ MemAt(t, "pop", "take")
  /\ memManager.firstFree # -1
  /\ memBlock' = [memBlock EXCEPT ![t] = memManager.firstFree]
  /\ MemUnlock(t)
  /\ UNCHANGED <<memManager, memOwner, memFull>>

(* The first free block leaves the list.                                   *)
AllocatePop(t) ==
  /\ MemAt(t, "pop", "take")
  /\ memManager.firstFree # -1
  /\ memBlock' = [memBlock EXCEPT ![t] = memManager.firstFree]
  /\ memManager' = [memManager EXCEPT
                      !.firstFree = memManager.header[memManager.firstFree].data]
  /\ MemUnlock(t)
  /\ UNCHANGED <<memOwner, memFull>>

(* No block is free: NULL is returned with the mutex locked.  The dump     *)
(* before that asserts of every block that it is in use, which a block on  *)
(* its way out of or into the list is not: then the program ends here.     *)
AllocateFull(t) ==
  /\ memManager.firstFree = -1
  /\ MemAt(t, "pop", IF \E i \in MemBlocks : memManager.header[i].isFree
                     THEN "aborted" ELSE "out")
  /\ memFull' = TRUE
  /\ UNCHANGED <<memManager, memMutex, memBlock, memOwner>>

(* After the unlock the header becomes that of a block in use.             *)
AllocateTake(t) ==
  LET i == memBlock[t]
  IN /\ MemAt(t, "take", "out")
     /\ memManager' = [memManager EXCEPT !.header[i] = [isFree |-> FALSE, data |-> i]]
     /\ memOwner' = [memOwner EXCEPT ![i] = t]
     /\ memBlock' = [memBlock EXCEPT ![t] = -1]
     /\ UNCHANGED <<memMutex, memFull>>

---------------------------------------------------------------------------
(* memManager_free, of a block in use, which another thread may have       *)
(* allocated.                                                              *)

memManager_free(t, i) ==
  /\ MemAt(t, "out", "give")
  /\ memOwner[i] # Unowned /\ ~memManager.header[i].isFree
  /\ memOwner' = [memOwner EXCEPT ![i] = Unowned]
  /\ memBlock' = [memBlock EXCEPT ![t] = memManager.header[i].data]
  /\ memManager' = [memManager EXCEPT !.header[i].isFree = TRUE]
  /\ UNCHANGED <<memMutex, memFull>>

FreeLock(t) ==
  /\ MemAt(t, "give", "push")
  /\ MemLock(t)
  /\ UNCHANGED <<memManager, memBlock, memOwner, memFull>>

FreePush(t) ==
  LET i == memBlock[t]
  IN /\ MemAt(t, "push", "out")
     /\ memManager' = [firstFree |-> i,
                       header |-> [memManager.header EXCEPT
                                     ![i].data = memManager.firstFree]]
     /\ MemUnlock(t)
     /\ memBlock' = [memBlock EXCEPT ![t] = -1]
     /\ UNCHANGED <<memOwner, memFull>>

MemNext ==
  /\ \A t \in MemThread : memPc[t] # "aborted"
  /\ \E t \in MemThread :
       \/ memManager_allocate(t) \/ AllocatePop(t) \/ AllocateFull(t) \/ AllocateTake(t)
       \/ \E i \in MemBlocks : memManager_free(t, i)
       \/ FreeLock(t) \/ FreePush(t)

---------------------------------------------------------------------------
(* The n-th block after the first in the free list, or -1 past its end.    *)
FreeAt[n \in 0 .. MemCapacity] ==
  IF n = 0 THEN memManager.firstFree
  ELSE IF FreeAt[n - 1] = -1 THEN -1 ELSE memManager.header[FreeAt[n - 1]].data

MemFreeList == Range(FreeAt) \ {-1}

InTransit == {i \in MemBlocks : \E t \in MemThread : memBlock[t] = i}
InUse == {i \in MemBlocks : memOwner[i] # Unowned}

(* A block is in the free list, in use, or in the hands of one call, and   *)
(* never two of these, with isFree and the union in its header to match:   *)
(* no block is handed out twice and none is lost, although its header is   *)
(* written outside the mutex (the asserts of memory.c:186 and :215).       *)
(* The mutex stays with a thread outside the manager only after the        *)
(* manager was full.                                                       *)
MemBlocksDisjoint ==
  /\ MemFreeList \cap InUse = {} /\ MemFreeList \cap InTransit = {}
  /\ InUse \cap InTransit = {}
  /\ MemFreeList \cup InUse \cup InTransit = MemBlocks
  /\ \A t, u \in MemThread : memBlock[t] = memBlock[u] /\ t # u => memBlock[t] = -1
  /\ \A i \in InUse : ~memManager.header[i].isFree /\ memManager.header[i].data = i
  /\ \A i \in MemBlocks \ InUse : memManager.header[i].isFree
  /\ memMutex.owner # Unowned /\ memPc[memMutex.owner] \notin {"pop", "push"} => memFull
=============================================================================
