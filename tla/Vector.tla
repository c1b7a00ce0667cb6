------------------------------- MODULE Vector -------------------------------
(***************************************************************************)
(* The vector of vector.c, shared by threads that each hold references to  *)
(* it.  The functions that add, read or set an element take the vector's   *)
(* recursive lock; the ones that remove do not, so that a thread removes   *)
(* between vectorLock and vectorUnlock.  The reference count has a lock of *)
(* its own; whoever takes the count to zero destroys the vector after it   *)
(* has unlocked.                                                           *)
(***************************************************************************)
EXTENDS Integers, Sequences, FiniteSets, SequencesExt

CONSTANTS
  VectorThread, VectorElement,
  VectorCapacity, VectorIncrement,   \* the arguments of vectorCreate
  VectorMaxRefs                      \* bound: references of all threads

ASSUME VectorAssumption ==
  /\ VectorCapacity \in Nat /\ VectorIncrement \in Nat \ {0}
  /\ VectorMaxRefs \in Nat
  /\ VectorThread # {} /\ "nobody" \notin VectorThread

---------------------------------------------------------------------------
(* Vectors as values; elements count from 0 in the code, from 1 here.      *)

vectorCreate(capacity, increment) ==
  [capacity |-> capacity, capacityIncrement |-> increment, data |-> << >>,
   refCount |-> 1]

increaseCapacity(v) == [v EXCEPT !.capacity = @ + v.capacityIncrement]

Fitting(v) == IF Len(v.data) = v.capacity THEN increaseCapacity(v) ELSE v

vectorSetElementAt(v, index, e) ==
  IF index = Len(v.data)
  THEN [Fitting(v) EXCEPT !.data = Append(@, e)]
  ELSE [v EXCEPT !.data[index + 1] = e]

vectorGetElementAt(v, index) == v.data[index + 1]

---------------------------------------------------------------------------
VARIABLES
  vec,          \* the vector
  vecLock,      \* owner and depth of its lock
  vecRefs,      \* the references of each thread
  vecPc,        \* where a thread is in a function of the vector
  vecIndex,     \* the index an append works with
  vecDestroyed, \* the calls of destroyFunc
  vecAppended   \* history: what is at each index, by the threads' accounts

vectorVars == <<vec, vecLock, vecRefs, vecPc, vecIndex, vecDestroyed, vecAppended>>

Nobody == "nobody"

VectorInit ==
  /\ vec = vectorCreate(VectorCapacity, VectorIncrement)
  /\ vecLock = [owner |-> Nobody, depth |-> 0]
  /\ LET t == CHOOSE u \in VectorThread : TRUE
     IN vecRefs = [u \in VectorThread |-> IF u = t THEN 1 ELSE 0]
  /\ vecPc = [t \in VectorThread |-> "out"]
  /\ vecIndex = [t \in VectorThread |-> 0]
  /\ vecDestroyed = << >>
  /\ vecAppended = << >>

VecAt(t, from, to) == vecPc[t] = from /\ vecPc' = [vecPc EXCEPT ![t] = to]

VecHolds(t) == vecRefs[t] > 0

VecLocked(t) ==
  /\ vecLock.owner \in {Nobody, t}
  /\ vecLock' = [owner |-> t, depth |-> vecLock.depth + 1]

VecUnlocked(t) ==
  vecLock' = [owner |-> IF vecLock.depth = 1 THEN Nobody ELSE t,
              depth |-> vecLock.depth - 1]

vectorLock(t) ==
  /\ vecPc[t] = "out" /\ VecHolds(t) /\ vecLock.owner # t
  /\ VecLocked(t)
  /\ UNCHANGED <<vec, vecRefs, vecPc, vecIndex, vecDestroyed, vecAppended>>

vectorUnlock(t) ==
  /\ vecPc[t] = "out" /\ vecLock.owner = t
  /\ VecUnlocked(t)
  /\ UNCHANGED <<vec, vecRefs, vecPc, vecIndex, vecDestroyed, vecAppended>>

(* vectorAppend and vectorAppendPtr: lock, grow, write, count, unlock.     *)
Mut_AppendUnlocked(t) ==
  /\ VecAt(t, "out", "append") /\ VecHolds(t)
  /\ vecIndex' = [vecIndex EXCEPT ![t] = Len(vec.data)]
  /\ vecLock.owner = Nobody
  /\ UNCHANGED <<vec, vecLock, vecRefs, vecDestroyed, vecAppended>>

vectorAppend(t) ==
  /\ VecAt(t, "out", "append") /\ VecHolds(t)
  /\ VecLocked(t)
  /\ vec' = Fitting(vec)
  /\ vecIndex' = [vecIndex EXCEPT ![t] = Len(vec.data)]
  /\ UNCHANGED <<vecRefs, vecDestroyed, vecAppended>>

(* The element, one the vector does not own yet, is written at the index   *)
(* read before, and counted.                                               *)
vectorAppendWrite(t, e) ==
  /\ VecAt(t, "append", "out")
  /\ e \notin Range(vec.data) \cup Range(vecDestroyed)
  /\ vec' = vectorSetElementAt(vec, vecIndex[t], e)
  /\ vecAppended' = Append(vecAppended, e)
  /\ VecUnlocked(t)
  /\ UNCHANGED <<vecRefs, vecIndex, vecDestroyed>>

vectorRemoveLastElement(t) ==
  /\ vecPc[t] = "out" /\ vecLock.owner = t /\ vec.data # << >>
  /\ vec' = [vec EXCEPT !.data = Front(@)]
  /\ vecAppended' = Front(vecAppended)
  /\ UNCHANGED <<vecLock, vecRefs, vecPc, vecIndex, vecDestroyed>>

vectorRemoveAll(t) ==
  /\ vecPc[t] = "out" /\ vecLock.owner = t /\ vec.data # << >>
  /\ vec' = [vec EXCEPT !.data = << >>]
  /\ vecDestroyed' = vecDestroyed \o vec.data
  /\ vecAppended' = << >>
  /\ UNCHANGED <<vecLock, vecRefs, vecPc, vecIndex>>

(* A holder takes a reference and hands it to a thread.                    *)
vectorRefcountIncrease(t, u) ==
  /\ vecPc[t] = "out" /\ VecHolds(t) /\ vec.refCount < VectorMaxRefs
  /\ vec' = [vec EXCEPT !.refCount = @ + 1]
  /\ vecRefs' = [vecRefs EXCEPT ![u] = @ + 1]
  /\ UNCHANGED <<vecLock, vecPc, vecIndex, vecDestroyed, vecAppended>>

Mut_DecreaseLooksFirst(t) ==
  /\ VecHolds(t) /\ vecLock.owner # t
  /\ vec.refCount > 0
  /\ VecAt(t, "out", IF vec.refCount <= 2 THEN "destroy" ELSE "out")
  /\ vec' = [vec EXCEPT !.refCount = @ - 1]
  /\ vecRefs' = [vecRefs EXCEPT ![t] = @ - 1]
  /\ UNCHANGED <<vecLock, vecIndex, vecDestroyed, vecAppended>>

vectorRefcountDecrease(t) ==
  /\ VecHolds(t) /\ vecLock.owner # t
  /\ vec.refCount > 0
  /\ VecAt(t, "out", IF vec.refCount = 1 THEN "destroy" ELSE "out")
  /\ vec' = [vec EXCEPT !.refCount = @ - 1]
  /\ vecRefs' = [vecRefs EXCEPT ![t] = @ - 1]
  /\ UNCHANGED <<vecLock, vecIndex, vecDestroyed, vecAppended>>

vectorDestroy(t) ==
  /\ VecAt(t, "destroy", "freed")
  /\ vecDestroyed' = vecDestroyed \o vec.data
  /\ UNCHANGED <<vec, vecLock, vecRefs, vecIndex, vecAppended>>

VectorNext ==
  \E t \in VectorThread :
    \/ vectorLock(t) \/ vectorUnlock(t)
    \/ vectorAppend(t) \/ \E e \in VectorElement : vectorAppendWrite(t, e)
    \/ vectorRemoveLastElement(t) \/ vectorRemoveAll(t)
    \/ \E u \in VectorThread : vectorRefcountIncrease(t, u)
    \/ vectorRefcountDecrease(t) \/ vectorDestroy(t)

---------------------------------------------------------------------------
VecFreed == \E t \in VectorThread : vecPc[t] = "freed"

(* A shared vector loses no append and outlives its users: the elements    *)
(* are those the threads appended, each at the index it was given; the     *)
(* count of references is that of the threads; the vector is freed by one  *)
(* thread only, when nobody holds a reference, is inside a function or has *)
(* the lock, and every element is destroyed once.                          *)
VectorShared ==
  /\ vec.data = vecAppended /\ Len(vec.data) <= vec.capacity
  /\ vecLock.owner = Nobody <=> vecLock.depth = 0
  /\ Cardinality({t \in VectorThread : vecPc[t] \in {"destroy", "freed"}}) <= 1
  /\ (\E t \in VectorThread : vecPc[t] \in {"destroy", "freed"}) =>
       /\ \A u \in VectorThread : vecRefs[u] = 0 /\ (vecPc[u] # "append")
       /\ vecLock.owner = Nobody
  /\ IsInjective(vecDestroyed)
  /\ VecFreed => Range(vec.data) \subseteq Range(vecDestroyed)
=============================================================================
