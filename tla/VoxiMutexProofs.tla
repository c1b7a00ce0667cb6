-------------------------- MODULE VoxiMutexProofs --------------------------
(***************************************************************************)
(* The safety properties of VoxiMutex for any number of threads and any    *)
(* recursion depth, from one inductive invariant, and the refinement of    *)
(* Monitor.                                                                *)
(***************************************************************************)
EXTENDS VoxiMutex, TLAPS

\* Threads between a sem_wait and the matching sem_post.
InSemaphore(t) ==
  pc[t] \in {"lockBody", "lockTake", "lockPost", "unlockBody", "unlockMutex", "unlockPost",
             "waitBody", "waitPost", "waitRestore", "waitDone"}

\* Threads that have the pthread mutex: those that hold the VoxiMutex, and those
\* on the way in (lockSem2, lockTake, waitSem2, waitRestore) or out (unlockMutex,
\* waitPost, waitCond).
InMutex(t) ==
  \/ pc[t] \in {"lockSem2", "lockTake", "unlockMutex", "waitPost", "waitCond", "waitSem2", "waitRestore"}
  \/ Holds(t)

\* The semaphore is binary and has one user at a time.
SemInv ==
  /\ \A t \in Thread : InSemaphore(t) => semaphore = 0
  /\ \A t, u \in Thread : InSemaphore(t) /\ InSemaphore(u) => t = u

\* The pthread mutex belongs to whoever is in, entering or leaving.
MutexInv == \A t \in Thread : InMutex(t) => mutex = t

\* What the program counter says about the number of open lock calls.
ThreadDepth(t) ==
  /\ pc[t] \in {"lockMutex", "lockSem2", "lockTake", "unlockMutex"} => Depth(t) = 0
  /\ pc[t] \in {"lockPost", "unlockSem", "unlockBody"} \cup PcWait => Depth(t) > 0
  /\ Suspended(t) => oldCount[t] = Depth(t)

DepthInv == \A t \in Thread : ThreadDepth(t)

\* mutex->count is positive exactly while somebody holds the VoxiMutex.
CountInv ==
  /\ CountIsDepth
  /\ count > 0 => thread \in Thread /\ Holds(thread)

\* A lock taken at depth 0 was told NULL, because lastLockFrom is NULL whenever
\* count is 0.
WhereInv ==
  /\ count = 0 => lastLockFrom = NULL
  /\ \A t \in Thread : Depth(t) > 0 => returned[t][1] = NULL

Inv == TypeOK /\ SemInv /\ MutexInv /\ DepthInv /\ CountInv /\ WhereInv

\* The inductive invariant holds of a mutex that threading_mutex_init has set up.
LEMMA InitInv == Init => Inv
  <1> SUFFICES ASSUME Init PROVE Inv
    OBVIOUS
  <1>1. TypeOK
    BY ConstantsAssumption, Z3 DEF Init, TypeOK, Wheres
  <1>2. ASSUME NEW t \in Thread
        PROVE  pc[t] = "client" /\ Depth(t) = 0 /\ ~Suspended(t) /\ ~Holds(t)
    <2>1. Len(<< >>) = 0
      OBVIOUS
    <2>2. pc[t] = "client" /\ Depth(t) = 0
      BY <2>1, Zenon DEF Init, Depth
    <2> QED
      BY <2>2 DEF Holds, Suspended
  <1>3. SemInv /\ MutexInv
    BY <1>2, Z3 DEF SemInv, MutexInv, InSemaphore, InMutex
  <1>4. DepthInv
    <2> SUFFICES ASSUME NEW t \in Thread PROVE ThreadDepth(t)
      BY DEF DepthInv
    <2> QED
      BY <1>2 DEF ThreadDepth, PcWait
  <1>5. CountInv /\ WhereInv
    BY <1>2, Z3 DEF Init, CountInv, CountIsDepth, WhereInv
  <1> QED
    BY <1>1, <1>3, <1>4, <1>5 DEF Inv

-----------------------------------------------------------------------------
(* What the two kinds of step that touch "returned" do to it. *)

\* Depths are natural numbers.
LEMMA DepthNat ==
  ASSUME TypeOK, NEW t \in Thread
  PROVE  Depth(t) \in Nat
  BY DEF TypeOK, Depth

\* Entering the lock appends one returned string and touches no other thread.
LEMMA PushFacts ==
  ASSUME TypeOK, NEW t \in Thread, SwapWhere(t)
  PROVE  /\ returned' \in [Thread -> Seq(Wheres)]
         /\ Depth(t)' = Depth(t) + 1
         /\ returned'[t][1] = IF Depth(t) = 0 THEN lastLockFrom ELSE returned[t][1]
         /\ \A u \in Thread : u # t => Depth(u)' = Depth(u) /\ returned'[u] = returned[u]
  <1>1. /\ returned[t] \in Seq(Wheres)
        /\ lastLockFrom \in Wheres
        /\ returned'[t] = Append(returned[t], lastLockFrom)
        /\ Append(returned[t], lastLockFrom) \in Seq(Wheres)
    BY DEF TypeOK, SwapWhere
  <1>2. returned' \in [Thread -> Seq(Wheres)]
    BY <1>1, Z3 DEF TypeOK, SwapWhere
  <1>3. Depth(t)' = Depth(t) + 1
    BY <1>1 DEF Depth
  <1>4. returned'[t][1] = IF Depth(t) = 0 THEN lastLockFrom ELSE returned[t][1]
    BY <1>1 DEF Depth
  <1>5. ASSUME NEW u \in Thread, u # t PROVE returned'[u] = returned[u]
    BY <1>5 DEF TypeOK, SwapWhere
  <1> QED
    BY <1>2, <1>3, <1>4, <1>5, Z3 DEF Depth

\* An unlock drops the newest returned string and touches no other thread.
LEMMA PopFacts ==
  ASSUME TypeOK, NEW t \in Thread, Depth(t) > 0, UnlockBody(t)
  PROVE  /\ returned' \in [Thread -> Seq(Wheres)]
         /\ UnlockArg(t) \in Wheres
         /\ Depth(t)' = Depth(t) - 1
         /\ Depth(t) > 1 => returned'[t][1] = returned[t][1]
         /\ \A u \in Thread : u # t => Depth(u)' = Depth(u) /\ returned'[u] = returned[u]
  <1>0. returned[t] \in Seq(Wheres) /\ returned'[t] = SubSeq(returned[t], 1, Depth(t) - 1)
    BY Zenon DEF TypeOK, UnlockBody
  <1>1. /\ returned[t] \in Seq(Wheres)
        /\ Len(returned[t]) \in Nat
        /\ returned'[t] = SubSeq(returned[t], 1, Depth(t) - 1)
    BY <1>0
  <1>2. /\ SubSeq(returned[t], 1, Depth(t) - 1) \in Seq(Wheres)
        /\ Len(SubSeq(returned[t], 1, Depth(t) - 1)) = Depth(t) - 1
    BY <1>1 DEF Depth
  <1>3. returned' \in [Thread -> Seq(Wheres)]
    BY <1>1, <1>2, Z3 DEF TypeOK, UnlockBody
  <1>4. UnlockArg(t) \in Wheres
    BY <1>1 DEF UnlockArg, Depth
  <1>5. Depth(t)' = Depth(t) - 1
    BY <1>1, <1>2 DEF Depth
  <1>6. Depth(t) > 1 => returned'[t][1] = returned[t][1]
    BY <1>1, <1>2 DEF Depth
  <1>7. ASSUME NEW u \in Thread, u # t PROVE returned'[u] = returned[u]
    BY <1>7 DEF TypeOK, UnlockBody
  <1> QED
    BY <1>3, <1>4, <1>5, <1>6, <1>7, Z3 DEF Depth

-----------------------------------------------------------------------------
(* Inv is preserved, one lemma per part and one case per action. *)

\* A step of thread t that leaves count, thread, lastLockFrom, oldCount and the
\* returned strings alone.
Quiet(t) ==
  \/ LockSemWait(t) \/ LockContend(t) \/ LockMutex(t) \/ LockSemWait2(t) \/ LockSemPost(t)
  \/ UnlockSemWait(t) \/ UnlockMutex(t) \/ UnlockSemPost(t)
  \/ WaitSemWait1(t) \/ WaitSemPost1(t) \/ WaitCond(t) \/ WaitRefused(t)
  \/ WakeUp(t) \/ WaitMutex(t) \/ WaitSemWait2(t) \/ WaitSemPost2(t)
  \/ CallUnlock(t) \/ CallWait(t) \/ (\E w \in Wheres : CallLock(t, w))
  \/ (\E ts \in SUBSET Waiters : Notify(t, ts))

\* One step of thread t.
Step(t) ==
  Quiet(t) \/ LockRecursive(t) \/ LockTake(t) \/ UnlockBody(t) \/ WaitSave(t) \/ WaitRestore(t)

\* A thread that holds the lock, is entering or is leaving excludes every other.
LEMMA Exclusion ==
  ASSUME Inv, NEW t \in Thread, NEW u \in Thread, InMutex(t), InMutex(u)
  PROVE  t = u
  BY DEF Inv, MutexInv

\* The thread that has just won the pthread mutex finds the lock free.
LEMMA EnterFacts ==
  ASSUME Inv, NEW t \in Thread, pc[t] \in {"lockSem2", "lockTake", "waitPost", "waitCond", "waitSem2", "waitRestore"}
  PROVE  count = 0 /\ \A u \in Thread : ~Holds(u)
  <1>1. InMutex(t)
    BY DEF InMutex
  <1>2. ~Holds(t)
    <2>1. CASE pc[t] \in {"lockSem2", "lockTake"}
      BY <2>1 DEF Inv, DepthInv, ThreadDepth, Holds
    <2>2. CASE pc[t] \notin {"lockSem2", "lockTake"}
      BY <2>2 DEF Holds, Suspended
    <2> QED
      BY <2>1, <2>2
  <1>3. ASSUME NEW u \in Thread PROVE ~Holds(u)
    BY <1>1, <1>2, Exclusion DEF InMutex
  <1>4. count = 0
    BY <1>3 DEF Inv, TypeOK, CountInv
  <1> QED
    BY <1>3, <1>4, Zenon

\* A thread about to undo a lock call, or to wait, holds the lock, and count is
\* its depth.
LEMMA UnlockFacts ==
  ASSUME Inv, NEW t \in Thread, pc[t] \in {"unlockBody", "waitBody"}
  PROVE  Holds(t) /\ Depth(t) > 0 /\ count = Depth(t) /\ thread = t
  <1>1. Depth(t) > 0
    BY DEF Inv, DepthInv, ThreadDepth, PcWait
  <1>2. Holds(t)
    BY <1>1 DEF Holds, Suspended
  <1> QED
    BY <1>1, <1>2 DEF Inv, CountInv, CountIsDepth

\* The fast path of threading_mutex_lock is taken by the holder, and only by it.
LEMMA RecursionFacts ==
  ASSUME Inv, NEW t \in Thread, pc[t] = "lockBody"
  PROVE  (count > 0 /\ thread = t) <=> Depth(t) > 0
  <1>1. Holds(t) <=> Depth(t) > 0
    BY DEF Holds, Suspended
  <1> QED
    BY <1>1 DEF Inv, CountInv, CountIsDepth

\* No step changes the depth of another thread.
LEMMA OtherDepth ==
  ASSUME Inv, NEW t \in Thread, Step(t), NEW u \in Thread, u # t
  PROVE  Depth(u)' = Depth(u) /\ returned'[u] = returned[u]
  <1> USE DEF shared, local, Depth
  <1>0. TypeOK
    BY DEF Inv
  <1>1. CASE LockSemWait(t)
    BY <1>1 DEF LockSemWait
  <1>2. CASE LockContend(t)
    BY <1>2 DEF LockContend
  <1>3. CASE LockMutex(t)
    BY <1>3 DEF LockMutex
  <1>4. CASE LockSemWait2(t)
    BY <1>4 DEF LockSemWait2
  <1>5. CASE LockSemPost(t)
    BY <1>5 DEF LockSemPost
  <1>6. CASE UnlockSemWait(t)
    BY <1>6 DEF UnlockSemWait
  <1>7. CASE UnlockMutex(t)
    BY <1>7 DEF UnlockMutex
  <1>8. CASE UnlockSemPost(t)
    BY <1>8 DEF UnlockSemPost
  <1>9. CASE WaitSemWait1(t)
    BY <1>9 DEF WaitSemWait1
  <1>10. CASE WaitSemPost1(t)
    BY <1>10 DEF WaitSemPost1
  <1>11. CASE WaitCond(t)
    BY <1>11 DEF WaitCond
  <1>12. CASE WaitRefused(t)
    BY <1>12 DEF WaitRefused
  <1>13. CASE WakeUp(t)
    BY <1>13 DEF WakeUp
  <1>14. CASE WaitMutex(t)
    BY <1>14 DEF WaitMutex
  <1>15. CASE WaitSemWait2(t)
    BY <1>15 DEF WaitSemWait2
  <1>16. CASE WaitSemPost2(t)
    BY <1>16 DEF WaitSemPost2
  <1>17. CASE CallUnlock(t)
    BY <1>17 DEF CallUnlock
  <1>18. CASE CallWait(t)
    BY <1>18 DEF CallWait
  <1>19. CASE \E w \in Wheres : CallLock(t, w)
    BY <1>19 DEF CallLock
  <1>20. CASE \E ts \in SUBSET Waiters : Notify(t, ts)
    BY <1>20 DEF Notify
  <1>21. CASE LockRecursive(t)
    BY <1>21, <1>0, PushFacts DEF LockRecursive
  <1>22. CASE LockTake(t)
    BY <1>22, <1>0, PushFacts DEF LockTake
  <1>23. CASE UnlockBody(t)
    BY <1>23, <1>0, UnlockFacts, PopFacts DEF UnlockBody, Goto
  <1>24. CASE WaitSave(t)
    BY <1>24 DEF WaitSave
  <1>25. CASE WaitRestore(t)
    BY <1>25 DEF WaitRestore
  <1> QED
    BY <1>1, <1>2, <1>3, <1>4, <1>5, <1>6, <1>7, <1>8, <1>9, <1>10, <1>11, <1>12, <1>13, <1>14,
       <1>15, <1>16, <1>17, <1>18, <1>19, <1>20, <1>21, <1>22, <1>23, <1>24, <1>25 DEF Step, Quiet

\* Types are preserved; in particular the semaphore, posted only by the thread
\* that has it, never exceeds 1.
LEMMA TypeStep ==
  ASSUME Inv, NEW t \in Thread, Step(t)
  PROVE  TypeOK'
  <1> USE ConstantsAssumption DEF Inv, TypeOK, SemInv, InSemaphore, Goto, SemWait, SemPost, shared,
     local,
                                  Wheres, PcLock, PcUnlock, PcWait
  <1>1. CASE LockSemWait(t)
    BY <1>1 DEF LockSemWait
  <1>2. CASE LockContend(t)
    BY <1>2 DEF LockContend
  <1>3. CASE LockMutex(t)
    BY <1>3 DEF LockMutex
  <1>4. CASE LockSemWait2(t)
    BY <1>4 DEF LockSemWait2
  <1>5. CASE LockSemPost(t)
    BY <1>5 DEF LockSemPost
  <1>6. CASE UnlockSemWait(t)
    BY <1>6 DEF UnlockSemWait
  <1>7. CASE UnlockMutex(t)
    BY <1>7 DEF UnlockMutex
  <1>8. CASE UnlockSemPost(t)
    BY <1>8 DEF UnlockSemPost
  <1>9. CASE WaitSemWait1(t)
    BY <1>9 DEF WaitSemWait1
  <1>10. CASE WaitSemPost1(t)
    BY <1>10 DEF WaitSemPost1
  <1>11. CASE WaitCond(t)
    BY <1>11 DEF WaitCond
  <1>12. CASE WaitRefused(t)
    BY <1>12 DEF WaitRefused
  <1>13. CASE WakeUp(t)
    BY <1>13 DEF WakeUp
  <1>14. CASE WaitMutex(t)
    BY <1>14 DEF WaitMutex
  <1>15. CASE WaitSemWait2(t)
    BY <1>15 DEF WaitSemWait2
  <1>16. CASE WaitSemPost2(t)
    BY <1>16 DEF WaitSemPost2
  <1>17. CASE CallUnlock(t)
    BY <1>17 DEF CallUnlock
  <1>18. CASE CallWait(t)
    BY <1>18 DEF CallWait
  <1>19. CASE \E w \in Wheres : CallLock(t, w)
    BY <1>19 DEF CallLock
  <1>20. CASE \E ts \in SUBSET Waiters : Notify(t, ts)
    BY <1>20 DEF Notify, Waiters
  <1>21. CASE LockRecursive(t)
    BY <1>21, PushFacts DEF LockRecursive, SwapWhere
  <1>22. CASE LockTake(t)
    BY <1>22, PushFacts DEF LockTake, SwapWhere
  <1>23. CASE UnlockBody(t)
    <2>1. pc[t] = "unlockBody" /\ pc' = [pc EXCEPT ![t] = IF count = 1 THEN "unlockMutex" ELSE "unlockPost"]
      BY <1>23 DEF UnlockBody
    <2>2. count > 0 /\ Depth(t) > 0
      BY <2>1, UnlockFacts
    <2>3. returned' \in [Thread -> Seq(Wheres)] /\ UnlockArg(t) \in Wheres
      BY <1>23, <2>2, PopFacts
    <2> QED
      BY <1>23, <2>1, <2>2, <2>3 DEF UnlockBody
  <1>24. CASE WaitSave(t)
    BY <1>24 DEF WaitSave
  <1>25. CASE WaitRestore(t)
    BY <1>25 DEF WaitRestore
  <1> QED
    BY <1>1, <1>2, <1>3, <1>4, <1>5, <1>6, <1>7, <1>8, <1>9, <1>10, <1>11, <1>12, <1>13, <1>14,
       <1>15, <1>16, <1>17, <1>18, <1>19, <1>20, <1>21, <1>22, <1>23, <1>24, <1>25 DEF Step, Quiet

\* One thread at a time is between sem_wait and sem_post.
LEMMA SemStep ==
  ASSUME Inv, NEW t \in Thread, Step(t)
  PROVE  SemInv'
  <1> SUFFICES ASSUME NEW u \in Thread, NEW v \in Thread
               PROVE  /\ InSemaphore(u)' => semaphore' = 0
                      /\ InSemaphore(u)' /\ InSemaphore(v)' => u = v
    BY DEF SemInv
  <1> USE DEF Inv, TypeOK, SemInv, InSemaphore, Goto, SemWait, SemPost, shared, local
  <1>1. CASE LockSemWait(t)
    BY <1>1 DEF LockSemWait
  <1>2. CASE LockContend(t)
    BY <1>2 DEF LockContend
  <1>3. CASE LockMutex(t)
    BY <1>3 DEF LockMutex
  <1>4. CASE LockSemWait2(t)
    BY <1>4 DEF LockSemWait2
  <1>5. CASE LockSemPost(t)
    BY <1>5 DEF LockSemPost
  <1>6. CASE UnlockSemWait(t)
    BY <1>6 DEF UnlockSemWait
  <1>7. CASE UnlockMutex(t)
    BY <1>7 DEF UnlockMutex
  <1>8. CASE UnlockSemPost(t)
    BY <1>8 DEF UnlockSemPost
  <1>9. CASE WaitSemWait1(t)
    BY <1>9 DEF WaitSemWait1
  <1>10. CASE WaitSemPost1(t)
    BY <1>10 DEF WaitSemPost1
  <1>11. CASE WaitCond(t)
    BY <1>11 DEF WaitCond
  <1>12. CASE WaitRefused(t)
    BY <1>12 DEF WaitRefused
  <1>13. CASE WakeUp(t)
    BY <1>13 DEF WakeUp
  <1>14. CASE WaitMutex(t)
    BY <1>14 DEF WaitMutex
  <1>15. CASE WaitSemWait2(t)
    BY <1>15 DEF WaitSemWait2
  <1>16. CASE WaitSemPost2(t)
    BY <1>16 DEF WaitSemPost2
  <1>17. CASE CallUnlock(t)
    BY <1>17 DEF CallUnlock
  <1>18. CASE CallWait(t)
    BY <1>18 DEF CallWait
  <1>19. CASE \E w \in Wheres : CallLock(t, w)
    BY <1>19 DEF CallLock
  <1>20. CASE \E ts \in SUBSET Waiters : Notify(t, ts)
    BY <1>20 DEF Notify, Waiters
  <1>21. CASE LockRecursive(t)
    BY <1>21 DEF LockRecursive
  <1>22. CASE LockTake(t)
    BY <1>22 DEF LockTake
  <1>23. CASE UnlockBody(t)
    BY <1>23 DEF UnlockBody
  <1>24. CASE WaitSave(t)
    BY <1>24 DEF WaitSave
  <1>25. CASE WaitRestore(t)
    BY <1>25 DEF WaitRestore
  <1> QED
    BY <1>1, <1>2, <1>3, <1>4, <1>5, <1>6, <1>7, <1>8, <1>9, <1>10, <1>11, <1>12, <1>13, <1>14,
       <1>15, <1>16, <1>17, <1>18, <1>19, <1>20, <1>21, <1>22, <1>23, <1>24, <1>25 DEF Step, Quiet

\* A step moves its own thread only, except that a notification moves waiters
\* to the queue for the pthread mutex.
LEMMA OtherPc ==
  ASSUME Inv, NEW t \in Thread, Step(t), NEW u \in Thread, u # t
  PROVE  pc'[u] = pc[u] \/ (pc[u] = "waiting" /\ pc'[u] = "waitMutex")
  <1> USE DEF Inv, TypeOK, Goto
  <1>1. CASE LockSemWait(t)
    BY <1>1 DEF LockSemWait
  <1>2. CASE LockContend(t)
    BY <1>2 DEF LockContend
  <1>3. CASE LockMutex(t)
    BY <1>3 DEF LockMutex
  <1>4. CASE LockSemWait2(t)
    BY <1>4 DEF LockSemWait2
  <1>5. CASE LockSemPost(t)
    BY <1>5 DEF LockSemPost
  <1>6. CASE UnlockSemWait(t)
    BY <1>6 DEF UnlockSemWait
  <1>7. CASE UnlockMutex(t)
    BY <1>7 DEF UnlockMutex
  <1>8. CASE UnlockSemPost(t)
    BY <1>8 DEF UnlockSemPost
  <1>9. CASE WaitSemWait1(t)
    BY <1>9 DEF WaitSemWait1
  <1>10. CASE WaitSemPost1(t)
    BY <1>10 DEF WaitSemPost1
  <1>11. CASE WaitCond(t)
    BY <1>11 DEF WaitCond
  <1>12. CASE WaitRefused(t)
    BY <1>12 DEF WaitRefused
  <1>13. CASE WakeUp(t)
    BY <1>13 DEF WakeUp
  <1>14. CASE WaitMutex(t)
    BY <1>14 DEF WaitMutex
  <1>15. CASE WaitSemWait2(t)
    BY <1>15 DEF WaitSemWait2
  <1>16. CASE WaitSemPost2(t)
    BY <1>16 DEF WaitSemPost2
  <1>17. CASE CallUnlock(t)
    BY <1>17 DEF CallUnlock
  <1>18. CASE CallWait(t)
    BY <1>18 DEF CallWait
  <1>19. CASE \E w \in Wheres : CallLock(t, w)
    BY <1>19 DEF CallLock
  <1>20. CASE \E ts \in SUBSET Waiters : Notify(t, ts)
    BY <1>20 DEF Notify, Waiters
  <1>21. CASE LockRecursive(t)
    BY <1>21 DEF LockRecursive
  <1>22. CASE LockTake(t)
    BY <1>22 DEF LockTake
  <1>23. CASE UnlockBody(t)
    BY <1>23 DEF UnlockBody
  <1>24. CASE WaitSave(t)
    BY <1>24 DEF WaitSave
  <1>25. CASE WaitRestore(t)
    BY <1>25 DEF WaitRestore
  <1> QED
    BY <1>1, <1>2, <1>3, <1>4, <1>5, <1>6, <1>7, <1>8, <1>9, <1>10, <1>11, <1>12, <1>13, <1>14,
       <1>15, <1>16, <1>17, <1>18, <1>19, <1>20, <1>21, <1>22, <1>23, <1>24, <1>25 DEF Step, Quiet

\* No step makes another thread hold the lock or stop holding it.
LEMMA OtherHolds ==
  ASSUME Inv, NEW t \in Thread, Step(t), NEW u \in Thread, u # t
  PROVE  /\ Holds(u)' <=> Holds(u)
         /\ Suspended(u)' <=> Suspended(u)
         /\ InMutex(u)' <=> InMutex(u)
  <1>1. Depth(u)' = Depth(u)
    BY OtherDepth
  <1>2. pc'[u] = pc[u] \/ (pc[u] = "waiting" /\ pc'[u] = "waitMutex")
    BY OtherPc
  <1>3. Suspended(u)' <=> Suspended(u)
    BY <1>2 DEF Suspended
  <1>4. Holds(u)' <=> Holds(u)
    BY <1>1, <1>3 DEF Holds
  <1> QED
    BY <1>2, <1>3, <1>4 DEF InMutex

\* The pthread mutex stays with the thread that holds, enters or leaves the lock.
LEMMA MutexStep ==
  ASSUME Inv, NEW t \in Thread, Step(t)
  PROVE  MutexInv'
  <1>a. ASSUME NEW u \in Thread, u # t, InMutex(u)' PROVE mutex' = u
    <2>1. InMutex(u) /\ mutex = u
      BY <1>a, OtherHolds DEF Inv, MutexInv
    <2>2. ~InMutex(t)
      BY <1>a, <2>1, Exclusion
    <2>3. pc[t] \notin {"lockSem2", "lockTake", "unlockMutex", "waitPost", "waitCond", "waitSem2", "waitRestore"}
      BY <2>2 DEF InMutex
    <2> QED
      BY <2>1, <2>3, ConstantsAssumption DEF Step, Quiet, LockSemWait, LockContend, LockMutex,
         LockSemWait2, LockSemPost, UnlockSemWait, UnlockMutex, UnlockSemPost, WaitSemWait1,
         WaitSemPost1, WaitCond, WaitRefused, WakeUp, WaitMutex, WaitSemWait2, WaitSemPost2,
         CallUnlock, CallWait, CallLock, Notify, LockRecursive, LockTake, UnlockBody, WaitSave,
         WaitRestore, Goto, shared, local
  <1>b. ASSUME InMutex(t)' PROVE mutex' = t
    <2> USE <1>b DEF Inv, TypeOK, MutexInv, InMutex, Holds, Suspended, DepthInv, ThreadDepth,
       Depth, Goto, shared, local
    <2>1. CASE LockSemWait(t)
      BY <2>1 DEF LockSemWait
    <2>2. CASE LockContend(t)
      BY <2>2 DEF LockContend
    <2>3. CASE LockMutex(t)
      BY <2>3 DEF LockMutex
    <2>4. CASE LockSemWait2(t)
      BY <2>4 DEF LockSemWait2
    <2>5. CASE LockSemPost(t)
      BY <2>5 DEF LockSemPost
    <2>6. CASE UnlockSemWait(t)
      BY <2>6 DEF UnlockSemWait
    <2>7. CASE UnlockMutex(t)
      BY <2>7 DEF UnlockMutex
    <2>8. CASE UnlockSemPost(t)
      BY <2>8 DEF UnlockSemPost
    <2>9. CASE WaitSemWait1(t)
      BY <2>9 DEF WaitSemWait1
    <2>10. CASE WaitSemPost1(t)
      BY <2>10 DEF WaitSemPost1
    <2>11. CASE WaitCond(t)
      BY <2>11 DEF WaitCond
    <2>12. CASE WaitRefused(t)
      BY <2>12 DEF WaitRefused
    <2>13. CASE WakeUp(t)
      BY <2>13 DEF WakeUp
    <2>14. CASE WaitMutex(t)
      BY <2>14 DEF WaitMutex
    <2>15. CASE WaitSemWait2(t)
      BY <2>15 DEF WaitSemWait2
    <2>16. CASE WaitSemPost2(t)
      BY <2>16 DEF WaitSemPost2
    <2>17. CASE CallUnlock(t)
      BY <2>17 DEF CallUnlock
    <2>18. CASE CallWait(t)
      BY <2>18 DEF CallWait
    <2>19. CASE \E w \in Wheres : CallLock(t, w)
      BY <2>19 DEF CallLock
    <2>20. CASE \E ts \in SUBSET Waiters : Notify(t, ts)
      BY <2>20 DEF Notify, Waiters
    <2>21. CASE LockRecursive(t)
      BY <2>21, RecursionFacts DEF LockRecursive
    <2>22. CASE LockTake(t)
      BY <2>22 DEF LockTake
    <2>23. CASE UnlockBody(t)
      BY <2>23, UnlockFacts DEF UnlockBody
    <2>24. CASE WaitSave(t)
      BY <2>24, UnlockFacts DEF WaitSave
    <2>25. CASE WaitRestore(t)
      BY <2>25 DEF WaitRestore
    <2> QED
      BY <2>1, <2>2, <2>3, <2>4, <2>5, <2>6, <2>7, <2>8, <2>9, <2>10, <2>11, <2>12, <2>13, <2>14,
         <2>15, <2>16, <2>17, <2>18, <2>19, <2>20, <2>21, <2>22, <2>23, <2>24, <2>25 DEF Step, Quiet
  <1> QED
    BY <1>a, <1>b DEF MutexInv

\* A quiet step does not make its own thread hold the lock or stop holding it.
LEMMA QuietFacts ==
  ASSUME Inv, NEW t \in Thread, Quiet(t)
  PROVE  /\ UNCHANGED <<count, thread, lastLockFrom, returned, oldCount>>
         /\ Depth(t)' = Depth(t)
         /\ Holds(t)' <=> Holds(t)
  <1> USE DEF Inv, TypeOK, Goto, shared, local, Depth, Holds, Suspended
  <1>1. CASE LockSemWait(t)
    BY <1>1 DEF LockSemWait
  <1>2. CASE LockContend(t)
    BY <1>2 DEF LockContend
  <1>3. CASE LockMutex(t)
    BY <1>3 DEF LockMutex
  <1>4. CASE LockSemWait2(t)
    BY <1>4 DEF LockSemWait2
  <1>5. CASE LockSemPost(t)
    BY <1>5 DEF LockSemPost
  <1>6. CASE UnlockSemWait(t)
    BY <1>6 DEF UnlockSemWait
  <1>7. CASE UnlockMutex(t)
    BY <1>7 DEF UnlockMutex
  <1>8. CASE UnlockSemPost(t)
    BY <1>8 DEF UnlockSemPost
  <1>9. CASE WaitSemWait1(t)
    BY <1>9 DEF WaitSemWait1
  <1>10. CASE WaitSemPost1(t)
    BY <1>10 DEF WaitSemPost1
  <1>11. CASE WaitCond(t)
    BY <1>11 DEF WaitCond
  <1>12. CASE WaitRefused(t)
    BY <1>12 DEF WaitRefused
  <1>13. CASE WakeUp(t)
    BY <1>13 DEF WakeUp
  <1>14. CASE WaitMutex(t)
    BY <1>14 DEF WaitMutex
  <1>15. CASE WaitSemWait2(t)
    BY <1>15 DEF WaitSemWait2
  <1>16. CASE WaitSemPost2(t)
    BY <1>16 DEF WaitSemPost2
  <1>17. CASE CallUnlock(t)
    BY <1>17 DEF CallUnlock
  <1>18. CASE CallWait(t)
    BY <1>18 DEF CallWait
  <1>19. CASE \E w \in Wheres : CallLock(t, w)
    BY <1>19 DEF CallLock
  <1>20. CASE \E ts \in SUBSET Waiters : Notify(t, ts)
    BY <1>20 DEF Notify, Waiters
  <1> QED
    BY <1>1, <1>2, <1>3, <1>4, <1>5, <1>6, <1>7, <1>8, <1>9, <1>10, <1>11, <1>12, <1>13, <1>14,
       <1>15, <1>16, <1>17, <1>18, <1>19, <1>20 DEF Quiet

\* What the program counter says of a thread's depth stays true.
LEMMA DepthStep ==
  ASSUME Inv, NEW t \in Thread, Step(t)
  PROVE  DepthInv'
  <1>0. TypeOK
    BY DEF Inv
  <1>a. ASSUME NEW u \in Thread, u # t PROVE ThreadDepth(u)'
    <2>1. oldCount'[u] = oldCount[u]
      BY <1>0, <1>a, QuietFacts DEF Step, LockRecursive, LockTake, UnlockBody, WaitSave,
         WaitRestore, TypeOK, local
    <2>2. Depth(u)' = Depth(u) /\ (Suspended(u)' <=> Suspended(u))
      BY <1>a, OtherDepth, OtherHolds
    <2>3. pc'[u] = pc[u] \/ (pc[u] = "waiting" /\ pc'[u] = "waitMutex")
      BY <1>a, OtherPc
    <2> QED
      BY <2>1, <2>2, <2>3 DEF Inv, DepthInv, ThreadDepth, PcWait
  <1>b. ThreadDepth(t)'
    <2> USE DEF Inv, TypeOK, DepthInv, ThreadDepth, PcWait, Suspended, Goto, shared, local
    <2>1. CASE LockSemWait(t)
      BY <2>1 DEF LockSemWait, Depth
    <2>2. CASE LockContend(t)
      BY <2>2, RecursionFacts DEF LockContend, Depth
    <2>3. CASE LockMutex(t)
      BY <2>3 DEF LockMutex, Depth
    <2>4. CASE LockSemWait2(t)
      BY <2>4 DEF LockSemWait2, Depth
    <2>5. CASE LockSemPost(t)
      BY <2>5 DEF LockSemPost, Depth
    <2>6. CASE UnlockSemWait(t)
      BY <2>6 DEF UnlockSemWait, Depth
    <2>7. CASE UnlockMutex(t)
      BY <2>7 DEF UnlockMutex, Depth
    <2>8. CASE UnlockSemPost(t)
      BY <2>8 DEF UnlockSemPost, Depth
    <2>9. CASE WaitSemWait1(t)
      BY <2>9 DEF WaitSemWait1, Depth
    <2>10. CASE WaitSemPost1(t)
      BY <2>10 DEF WaitSemPost1, Depth
    <2>11. CASE WaitCond(t)
      BY <2>11 DEF WaitCond, Depth
    <2>12. CASE WaitRefused(t)
      BY <2>12 DEF WaitRefused, Depth
    <2>13. CASE WakeUp(t)
      BY <2>13 DEF WakeUp, Depth
    <2>14. CASE WaitMutex(t)
      BY <2>14 DEF WaitMutex, Depth
    <2>15. CASE WaitSemWait2(t)
      BY <2>15 DEF WaitSemWait2, Depth
    <2>16. CASE WaitSemPost2(t)
      BY <2>16 DEF WaitSemPost2, Depth
    <2>17. CASE CallUnlock(t)
      BY <2>17 DEF CallUnlock, Depth
    <2>18. CASE CallWait(t)
      BY <2>18 DEF CallWait, Depth
    <2>19. CASE \E w \in Wheres : CallLock(t, w)
      BY <2>19 DEF CallLock, Depth
    <2>20. CASE \E ts \in SUBSET Waiters : Notify(t, ts)
      BY <2>20 DEF Notify, Waiters, Depth
    <2>21. CASE LockRecursive(t)
      <3>1. pc[t] = "lockBody" /\ pc'[t] = "lockPost"
        BY <2>21 DEF LockRecursive
      <3>2. Depth(t)' > 0
        BY <2>21, <1>0, PushFacts, DepthNat DEF LockRecursive
      <3> QED
        BY <3>1, <3>2
    <2>22. CASE LockTake(t)
      BY <2>22, <1>0, PushFacts DEF LockTake
    <2>23. CASE UnlockBody(t)
      <3>1. pc[t] = "unlockBody" /\ pc'[t] = IF count = 1 THEN "unlockMutex" ELSE "unlockPost"
        BY <2>23 DEF UnlockBody
      <3>2. count = Depth(t) /\ Depth(t) > 0
        BY <3>1, UnlockFacts
      <3>3. Depth(t)' = Depth(t) - 1
        BY <2>23, <1>0, <3>2, PopFacts
      <3> QED
        BY <3>1, <3>2, <3>3
    <2>24. CASE WaitSave(t)
      BY <2>24, UnlockFacts DEF WaitSave, Depth
    <2>25. CASE WaitRestore(t)
      BY <2>25 DEF WaitRestore, Depth
    <2> QED
      BY <2>1, <2>2, <2>3, <2>4, <2>5, <2>6, <2>7, <2>8, <2>9, <2>10, <2>11, <2>12, <2>13, <2>14,
         <2>15, <2>16, <2>17, <2>18, <2>19, <2>20, <2>21, <2>22, <2>23, <2>24, <2>25 DEF Step, Quiet
  <1> QED
    BY <1>a, <1>b DEF DepthInv

\* count keeps describing the holder's depth.
LEMMA CountStep ==
  ASSUME Inv, NEW t \in Thread, Step(t)
  PROVE  CountInv'
  <1>0. TypeOK /\ Depth(t) \in Nat
    BY DepthNat DEF Inv
  <1>1. CASE Quiet(t)
    <2>1. UNCHANGED <<count, thread>>
      BY <1>1, QuietFacts
    <2>2. ASSUME NEW u \in Thread PROVE Depth(u)' = Depth(u) /\ (Holds(u)' <=> Holds(u))
      <3>1. CASE u = t
        BY <1>1, <3>1, QuietFacts
      <3>2. CASE u # t
        BY <3>2, OtherDepth, OtherHolds
      <3> QED
        BY <3>1, <3>2
    <2>3. ASSUME NEW u \in Thread, Holds(u)' PROVE count' = Depth(u)' /\ thread' = u
      BY <2>1, <2>2, <2>3 DEF Inv, CountInv, CountIsDepth
    <2>4. count' > 0 => thread' \in Thread /\ Holds(thread)'
      BY <2>1, <2>2 DEF Inv, CountInv
    <2> QED
      BY <2>3, <2>4, Zenon DEF CountInv, CountIsDepth
  <1>2. CASE ~Quiet(t)
    <2>1. /\ thread' = t
          /\ \/ Holds(t)' /\ count' = Depth(t)'
             \/ ~Holds(t)' /\ count' = 0
      <3>1. CASE LockRecursive(t)
        <4>1. Depth(t) > 0 /\ pc[t] = "lockBody" /\ pc'[t] = "lockPost"
          BY <1>0, <3>1, RecursionFacts DEF LockRecursive, Goto, TypeOK
        <4>2. Holds(t) /\ count = Depth(t) /\ thread = t
          BY <4>1 DEF Inv, CountInv, CountIsDepth, Holds, Suspended
        <4>3. Depth(t)' = Depth(t) + 1 /\ count' = count + 1 /\ thread' = thread
          BY <1>0, <3>1, PushFacts DEF LockRecursive
        <4> QED
          BY <1>0, <4>1, <4>2, <4>3 DEF Holds, Suspended
      <3>2. CASE LockTake(t)
        <4>1. pc[t] = "lockTake" /\ pc'[t] = "lockPost" /\ Depth(t) = 0
          BY <1>0, <3>2 DEF LockTake, Goto, TypeOK, Inv, DepthInv, ThreadDepth
        <4>2. Depth(t)' = Depth(t) + 1 /\ count' = 1 /\ thread' = t
          BY <1>0, <3>2, PushFacts DEF LockTake
        <4> QED
          BY <4>1, <4>2 DEF Holds, Suspended
      <3>3. CASE UnlockBody(t)
        <4>1. pc[t] = "unlockBody" /\ pc'[t] \in {"unlockMutex", "unlockPost"}
          BY <1>0, <3>3 DEF UnlockBody, Goto, TypeOK
        <4>2. Depth(t) > 0 /\ count = Depth(t) /\ thread = t
          BY <4>1, UnlockFacts
        <4>3. Depth(t)' = Depth(t) - 1 /\ count' = count - 1 /\ thread' = thread
          BY <1>0, <3>3, <4>2, PopFacts DEF UnlockBody
        <4> QED
          BY <1>0, <4>1, <4>2, <4>3 DEF Holds, Suspended
      <3>4. CASE WaitSave(t)
        <4>1. pc[t] = "waitBody" /\ pc'[t] = "waitPost" /\ count' = 0 /\ thread' = thread
          BY <1>0, <3>4 DEF WaitSave, Goto, TypeOK
        <4>2. thread = t
          BY <4>1, UnlockFacts
        <4> QED
          BY <4>1, <4>2 DEF Holds, Suspended
      <3>5. CASE WaitRestore(t)
        <4>1. pc[t] = "waitRestore" /\ pc'[t] = "waitDone" /\ count' = oldCount[t] /\ thread' = t /\ Depth(t)' = Depth(t)
          BY <1>0, <3>5 DEF WaitRestore, Goto, TypeOK, local, Depth
        <4>2. Depth(t) > 0 /\ oldCount[t] = Depth(t)
          BY <4>1 DEF Inv, DepthInv, ThreadDepth, PcWait, Suspended
        <4> QED
          BY <4>1, <4>2 DEF Holds, Suspended
      <3> QED
        BY <1>2, <3>1, <3>2, <3>3, <3>4, <3>5 DEF Step
    <2>2. ASSUME NEW u \in Thread, u # t PROVE ~Holds(u)'
      <3>1. ~Holds(u)
        <4>1. CASE InMutex(t)
          BY <2>2, <4>1, Exclusion DEF InMutex
        <4>2. CASE LockRecursive(t)
          BY <2>2, <4>2 DEF LockRecursive, Inv, CountInv, CountIsDepth
        <4>3. CASE UnlockBody(t) \/ WaitSave(t)
          BY <4>3, <4>1, UnlockFacts DEF UnlockBody, WaitSave, Goto, InMutex
        <4>4. CASE LockTake(t) \/ WaitRestore(t)
          BY <4>4, <4>1 DEF LockTake, WaitRestore, Goto, InMutex
        <4> QED
          BY <1>2, <4>2, <4>3, <4>4 DEF Step
      <3> QED
        BY <2>2, <3>1, OtherHolds
    <2>3. ASSUME NEW u \in Thread, Holds(u)' PROVE count' = Depth(u)' /\ thread' = u
      BY <2>1, <2>2, <2>3
    <2>4. count' > 0 => thread' \in Thread /\ Holds(thread)'
      BY <2>1
    <2> QED
      BY <2>3, <2>4, Zenon DEF CountInv, CountIsDepth
  <1> QED
    BY <1>1, <1>2

\* The strings handed out at depth 0 are NULL, whoever locked before.
LEMMA WhereStep ==
  ASSUME Inv, NEW t \in Thread, Step(t)
  PROVE  WhereInv'
  <1>0. TypeOK /\ Depth(t) \in Nat
    BY DepthNat DEF Inv
  <1>a. ASSUME NEW u \in Thread, u # t, Depth(u)' > 0 PROVE returned'[u][1] = NULL
    BY <1>a, OtherDepth DEF Inv, WhereInv
  <1>1. CASE Quiet(t)
    <2>1. UNCHANGED <<count, lastLockFrom, returned>> /\ Depth(t)' = Depth(t)
      BY <1>1, QuietFacts
    <2> QED
      BY <1>a, <2>1 DEF Inv, WhereInv
  <1>2. CASE LockRecursive(t)
    <2>1. count' = count + 1 /\ count > 0 /\ Depth(t) > 0
      BY <1>2, RecursionFacts DEF LockRecursive, Goto
    <2>2. returned'[t][1] = NULL
      BY <1>0, <1>2, <2>1, PushFacts DEF LockRecursive, Inv, WhereInv
    <2>3. count' # 0
      BY <1>0, <2>1 DEF TypeOK
    <2> QED
      BY <1>a, <2>2, <2>3 DEF WhereInv
  <1>3. CASE LockTake(t)
    <2>1. count' = 1 /\ count = 0 /\ Depth(t) = 0
      BY <1>3, EnterFacts DEF LockTake, Goto, Inv, DepthInv, ThreadDepth
    <2>2. returned'[t][1] = NULL
      BY <1>0, <1>3, <2>1, PushFacts DEF LockTake, Inv, WhereInv
    <2> QED
      BY <1>a, <2>1, <2>2 DEF WhereInv
  <1>4. CASE UnlockBody(t)
    <2>1. count = Depth(t) /\ Depth(t) > 0 /\ count' = count - 1 /\ lastLockFrom' = returned[t][Depth(t)]
      BY <1>4, UnlockFacts DEF UnlockBody, Goto, UnlockArg
    <2>2. Depth(t)' = Depth(t) - 1 /\ (Depth(t) > 1 => returned'[t][1] = returned[t][1])
      BY <1>0, <1>4, <2>1, PopFacts
    <2>3. returned[t][1] = NULL
      BY <2>1 DEF Inv, WhereInv
    <2>4. count' = 0 => lastLockFrom' = NULL
      BY <1>0, <2>1, <2>3
    <2>5. Depth(t)' > 0 => returned'[t][1] = NULL
      BY <1>0, <2>2, <2>3
    <2> QED
      BY <1>a, <2>4, <2>5 DEF WhereInv
  <1>5. CASE WaitSave(t)
    <2>1. lastLockFrom' = NULL /\ returned' = returned /\ Depth(t)' = Depth(t)
      BY <1>5 DEF WaitSave, Depth
    <2> QED
      BY <1>a, <2>1 DEF Inv, WhereInv
  <1>6. CASE WaitRestore(t)
    <2>1. pc[t] = "waitRestore" /\ count' = oldCount[t] /\ returned' = returned /\ Depth(t)' = Depth(t)
      BY <1>6 DEF WaitRestore, Goto, local, Depth
    <2>2. count' > 0
      BY <2>1 DEF Inv, DepthInv, ThreadDepth, PcWait, Suspended
    <2> QED
      BY <1>a, <2>1, <2>2 DEF Inv, WhereInv
  <1> QED
    BY <1>1, <1>2, <1>3, <1>4, <1>5, <1>6 DEF Step

-----------------------------------------------------------------------------
(* The theorems *)

\* Every step of the specification is a step of some thread.
LEMMA NextIsStep ==
  ASSUME Next
  PROVE  \E t \in Thread : Step(t)
  <1>1. PICK t \in Thread :
          InLock(t) \/ InUnlock(t) \/ InWait(t) \/ Calls(t) \/ WaitRefused(t) \/ WakeUp(t)
    BY DEF Next
  <1>2. CASE Signal(t)
    <2>1. PICK u \in Waiters : Notify(t, {u})
      BY <1>2 DEF Signal
    <2> QED
      BY <2>1, Zenon DEF Step, Quiet
  <1>3. CASE Broadcast(t)
    BY <1>3, Zenon DEF Broadcast, Step, Quiet
  <1> QED
    BY <1>1, <1>2, <1>3 DEF InLock, InUnlock, InWait, Calls, Step, Quiet

\* Inv holds in every reachable state.
THEOREM Invariance == Spec => []Inv
  <1>1. Init => Inv
    BY InitInv
  <1>2. Inv /\ [Next]_vars => Inv'
    <2> SUFFICES ASSUME Inv, [Next]_vars PROVE Inv'
      OBVIOUS
    <2>1. CASE Next
      <3>1. PICK t \in Thread : Step(t)
        BY <2>1, NextIsStep
      <3> QED
        BY <3>1, TypeStep, SemStep, MutexStep, DepthStep, CountStep, WhereStep DEF Inv
    <2>2. CASE UNCHANGED vars
      BY <2>2 DEF vars, Inv, TypeOK, SemInv, MutexInv, DepthInv, ThreadDepth, CountInv,
         CountIsDepth,
                  WhereInv, InSemaphore, InMutex, Holds, Suspended, Depth
    <2> QED
      BY <2>1, <2>2
  <1> QED
    BY <1>1, <1>2, PTL DEF Spec

\* The fields of sVoxiMutex keep their types; in particular the semaphore of
\* threading_mutex_init stays binary under any interleaving of its users.
THEOREM TypeCorrect == Spec => []TypeOK
  BY Invariance, PTL DEF Inv

\* threading_mutex_lock excludes: any number of threads, any recursion depth, with
\* condition waits.
THEOREM Exclusive == Spec => []MutualExclusion
  <1>1. Inv => MutualExclusion
    BY Exclusion, Zenon DEF MutualExclusion, InMutex
  <1> QED
    BY <1>1, Invariance, PTL

\* No assert of lock_debug, unlock_debug, cond_wait and cond_absolute_timedwait
\* that documents the algorithm can fail.
THEOREM NoAssertFails == Spec => []AssertionsHold
  <1>1. Inv => AssertionsHold
    <2> SUFFICES ASSUME Inv, NEW t \in Thread
                 PROVE  /\ pc[t] \in {"lockTake", "waitRestore"} => count = 0
                        /\ pc[t] \in {"unlockBody", "waitBody"} => thread = t /\ count > 0
                        /\ pc[t] \in {"lockBody", "lockTake", "unlockBody", "waitBody", "waitRestore"} => semaphore = 0
                        /\ pc[t] = "unlockBody" /\ count = 1 => UnlockArg(t) = NULL
      BY DEF AssertionsHold
    <2>1. pc[t] \in {"lockTake", "waitRestore"} => count = 0
      BY EnterFacts
    <2>2. pc[t] \in {"unlockBody", "waitBody"} => thread = t /\ count = Depth(t) /\ Depth(t) > 0
      BY UnlockFacts
    <2>3. pc[t] \in {"lockBody", "lockTake", "unlockBody", "waitBody", "waitRestore"} => semaphore = 0
      BY DEF Inv, SemInv, InSemaphore
    <2>4. pc[t] = "unlockBody" /\ count = 1 => UnlockArg(t) = NULL
      BY <2>2 DEF Inv, WhereInv, UnlockArg
    <2> QED
      BY <2>1, <2>2, <2>3, <2>4
  <1> QED
    BY <1>1, Invariance, PTL

\* The sem_post before the wait in threading_cond_wait is harmless: a thread that
\* is about to sleep excludes every thread that could signal under the lock.
THEOREM WakeupsKept == Spec => []NoLostWakeup
  <1>1. Inv => NoLostWakeup
    BY EnterFacts, Zenon DEF NoLostWakeup
  <1> QED
    BY <1>1, Invariance, PTL

\* mutex->count is the holder's number of open lock calls, condition waits of
\* other threads notwithstanding.
THEOREM CountCorrect == Spec => []CountIsDepth
  BY Invariance, PTL DEF Inv, CountInv

-----------------------------------------------------------------------------
(* Refinement of Monitor *)

Holder   == IF count > 0 THEN thread ELSE NoThread
Depths   == [t \in Thread |-> Depth(t)]
Sleeping == {t \in Thread : pc[t] \in {"waitPost", "waitCond", "waiting"}}
Woken    == {t \in Thread : pc[t] \in {"waitMutex", "waitSem2", "waitRestore"}}

\* A step that changes neither the holder nor any depth, and moves no thread into
\* or out of the two sets of waiting threads, is invisible to the monitor.
LEMMA Invisible ==
  ASSUME UNCHANGED <<count, thread, returned>>,
         \A u \in Thread : /\ pc'[u] \in {"waitPost", "waitCond", "waiting"}
                               <=> pc[u] \in {"waitPost", "waitCond", "waiting"}
                           /\ pc'[u] \in {"waitMutex", "waitSem2", "waitRestore"}
                               <=> pc[u] \in {"waitMutex", "waitSem2", "waitRestore"}
  PROVE  UNCHANGED Mon!vars
  <1>1. Holder' = Holder /\ Depths' = Depths
    BY DEF Holder, Depths, Depth
  <1>2. Sleeping' = Sleeping /\ Woken' = Woken
    BY Zenon DEF Sleeping, Woken
  <1> QED
    BY <1>1, <1>2 DEF Mon!vars, Holder, Depths, Sleeping, Woken

\* How the abstract depths change when the depth of t does.
LEMMA DepthsUpdate ==
  ASSUME Inv, NEW t \in Thread, Step(t), NEW d, Depth(t)' = d
  PROVE  Depths' = [Depths EXCEPT ![t] = d]
  <1>1. ASSUME NEW u \in Thread, u # t PROVE Depth(u)' = Depth(u)
    BY <1>1, OtherDepth
  <1> QED
    BY <1>1 DEF Depths

\* Winning the pthread mutex and setting count to 1 is the monitor's Acquire.
LEMMA TakeIsAcquire ==
  ASSUME Inv, NEW t \in Thread, LockTake(t)
  PROVE  Mon!Acquire(t)
  <1>0. Step(t) /\ TypeOK
    BY DEF Step, Inv
  <1>1. /\ pc[t] = "lockTake" /\ pc' = [pc EXCEPT ![t] = "lockPost"]
        /\ count' = 1 /\ thread' = t
    BY DEF LockTake, Goto
  <1>2. count = 0 /\ Depth(t) = 0
    BY <1>1, EnterFacts DEF Inv, DepthInv, ThreadDepth
  <1>3. Holder = NoThread /\ Holder' = t
    BY <1>1, <1>2 DEF Holder
  <1>4. Depth(t)' = 1
    BY <1>0, <1>2, PushFacts DEF LockTake
  <1>5. Depths[t] = 0 /\ Depths' = [Depths EXCEPT ![t] = 1]
    BY <1>0, <1>2, <1>4, DepthsUpdate DEF Depths
  <1>6. Sleeping' = Sleeping /\ Woken' = Woken
    BY <1>0, <1>1 DEF Sleeping, Woken, TypeOK
  <1> QED
    BY <1>3, <1>5, <1>6 DEF Mon!Acquire, Holder, Depths, Sleeping, Woken

\* The recursive fast path is the monitor's Reenter.
LEMMA RecursiveIsReenter ==
  ASSUME Inv, NEW t \in Thread, LockRecursive(t)
  PROVE  Mon!Reenter(t)
  <1>0. Step(t) /\ TypeOK
    BY DEF Step, Inv
  <1>1. /\ pc[t] = "lockBody" /\ pc' = [pc EXCEPT ![t] = "lockPost"]
        /\ count > 0 /\ count' = count + 1 /\ thread = t /\ thread' = t
    BY DEF LockRecursive, Goto
  <1>3. Holder = t /\ Holder' = t
    BY <1>0, <1>1 DEF Holder, TypeOK
  <1>4. Depth(t)' = Depth(t) + 1
    BY <1>0, PushFacts DEF LockRecursive
  <1>5. Depths[t] = Depth(t) /\ Depths' = [Depths EXCEPT ![t] = Depth(t) + 1]
    BY <1>0, <1>4, DepthsUpdate DEF Depths
  <1>6. Sleeping' = Sleeping /\ Woken' = Woken
    BY <1>0, <1>1 DEF Sleeping, Woken, TypeOK
  <1> QED
    BY <1>3, <1>5, <1>6 DEF Mon!Reenter, Holder, Depths, Sleeping, Woken

\* Decrementing count is the monitor's Release.
LEMMA UnlockIsRelease ==
  ASSUME Inv, NEW t \in Thread, UnlockBody(t)
  PROVE  Mon!Release(t)
  <1>0. Step(t) /\ TypeOK /\ Depth(t) \in Nat
    BY DepthNat DEF Step, Inv
  <1>1. /\ pc[t] = "unlockBody"
        /\ pc' = [pc EXCEPT ![t] = IF count = 1 THEN "unlockMutex" ELSE "unlockPost"]
        /\ count' = count - 1 /\ thread' = thread
    BY DEF UnlockBody, Goto
  <1>2. count = Depth(t) /\ Depth(t) > 0 /\ thread = t
    BY <1>1, UnlockFacts
  <1>3. Holder = t /\ Holder' = IF Depth(t) = 1 THEN NoThread ELSE t
    BY <1>0, <1>1, <1>2 DEF Holder, TypeOK
  <1>4. Depth(t)' = Depth(t) - 1
    BY <1>0, <1>2, PopFacts
  <1>5. Depths[t] = Depth(t) /\ Depths' = [Depths EXCEPT ![t] = Depth(t) - 1]
    BY <1>0, <1>4, DepthsUpdate DEF Depths
  <1>6. Sleeping' = Sleeping /\ Woken' = Woken
    BY <1>0, <1>1 DEF Sleeping, Woken, TypeOK
  <1> QED
    BY <1>3, <1>5, <1>6 DEF Mon!Release, Holder, Depths, Sleeping, Woken

\* Setting count to 0 in threading_cond_wait is the monitor's Wait: lock given up
\* and sleeping in one step.
LEMMA SaveIsWait ==
  ASSUME Inv, NEW t \in Thread, WaitSave(t)
  PROVE  Mon!Wait(t)
  <1>0. Step(t) /\ TypeOK /\ Depth(t) \in Nat
    BY DepthNat DEF Step, Inv
  <1>1. /\ pc[t] = "waitBody" /\ pc' = [pc EXCEPT ![t] = "waitPost"]
        /\ count' = 0 /\ thread' = thread /\ returned' = returned
    BY DEF WaitSave, Goto
  <1>2. count = Depth(t) /\ Depth(t) > 0 /\ thread = t
    BY <1>1, UnlockFacts
  <1>3. Holder = t /\ Holder' = NoThread
    BY <1>0, <1>1, <1>2 DEF Holder, TypeOK
  <1>5. Depths' = Depths
    BY <1>1 DEF Depths, Depth
  <1>6. Sleeping' = Sleeping \cup {t} /\ Woken' = Woken
    BY <1>0, <1>1 DEF Sleeping, Woken, TypeOK
  <1> QED
    BY <1>3, <1>5, <1>6 DEF Mon!Wait, Holder, Depths, Sleeping, Woken

\* Restoring count after the wait is the monitor's Resume, at the old depth.
LEMMA RestoreIsResume ==
  ASSUME Inv, NEW t \in Thread, WaitRestore(t)
  PROVE  Mon!Resume(t)
  <1>0. Step(t) /\ TypeOK /\ Depth(t) \in Nat
    BY DepthNat DEF Step, Inv
  <1>1. /\ pc[t] = "waitRestore" /\ pc' = [pc EXCEPT ![t] = "waitDone"]
        /\ count' = oldCount[t] /\ thread' = t /\ returned' = returned
    BY DEF WaitRestore, Goto, local
  <1>2. count = 0 /\ oldCount[t] > 0
    BY <1>1, EnterFacts DEF Inv, DepthInv, ThreadDepth, PcWait, Suspended
  <1>3. Holder = NoThread /\ Holder' = t
    BY <1>1, <1>2 DEF Holder
  <1>5. Depths' = Depths
    BY <1>1 DEF Depths, Depth
  <1>6. Sleeping' = Sleeping /\ Woken' = Woken \ {t} /\ t \in Woken
    BY <1>0, <1>1 DEF Sleeping, Woken, TypeOK
  <1> QED
    BY <1>3, <1>5, <1>6 DEF Mon!Resume, Holder, Depths, Sleeping, Woken

\* Signals, broadcasts, timeouts, spurious wakeups and refused timed waits are
\* the monitor's Wake.
LEMMA NotifyIsWake ==
  ASSUME Inv, UNCHANGED <<count, thread, returned>>,
         NEW ts \in SUBSET Sleeping, NEW to \in {"waitMutex", "waitSem2"},
         pc' = [u \in Thread |-> IF u \in ts THEN to ELSE pc[u]]
  PROVE  \E xs \in SUBSET Sleeping : Mon!Wake(xs)
  <1>1. Holder' = Holder /\ Depths' = Depths
    BY DEF Holder, Depths, Depth
  <1>2. ASSUME NEW u \in Thread
        PROVE  pc'[u] = IF u \in ts THEN to ELSE pc[u]
    OBVIOUS
  <1>3. Sleeping' = Sleeping \ ts
    BY <1>2 DEF Sleeping
  <1>4. Woken' = Woken \cup ts
    BY <1>2 DEF Woken, Sleeping
  <1> QED
    BY <1>1, <1>3, <1>4 DEF Mon!Wake, Holder, Depths, Sleeping, Woken

\* The remaining steps are invisible to the monitor.
LEMMA QuietIsInvisible ==
  ASSUME Inv, NEW t \in Thread, Quiet(t), ~WaitRefused(t), ~WakeUp(t),
         ~\E ts \in SUBSET Waiters : Notify(t, ts)
  PROVE  UNCHANGED Mon!vars
  <1>1. UNCHANGED <<count, thread, returned>>
    BY QuietFacts
  <1>2. \E a, b \in {"client"} \cup PcLock \cup PcUnlock \cup PcWait :
          /\ Goto(t, a, b)
          /\ b \in {"waitPost", "waitCond", "waiting"} <=> a \in {"waitPost", "waitCond", "waiting"}
          /\ b \in {"waitMutex", "waitSem2", "waitRestore"} <=> a \in {"waitMutex", "waitSem2", "waitRestore"}
    BY DEF Quiet, LockSemWait, LockContend, LockMutex, LockSemWait2, LockSemPost, UnlockSemWait,
       UnlockMutex, UnlockSemPost, WaitSemWait1, WaitSemPost1, WaitCond, WaitMutex, WaitSemWait2,
       WaitSemPost2, CallUnlock, CallWait, CallLock, PcLock, PcUnlock, PcWait
  <1>3. \A u \in Thread : /\ pc'[u] \in {"waitPost", "waitCond", "waiting"}
                               <=> pc[u] \in {"waitPost", "waitCond", "waiting"}
                          /\ pc'[u] \in {"waitMutex", "waitSem2", "waitRestore"}
                               <=> pc[u] \in {"waitMutex", "waitSem2", "waitRestore"}
    BY <1>2, Z3 DEF Goto, Inv, TypeOK
  <1> QED
    BY <1>1, <1>3, Invisible

\* Each step of the implementation is a step of the monitor or invisible to it.
LEMMA StepSimulation ==
  ASSUME Inv, NEW t \in Thread, Step(t)
  PROVE  Mon!Next \/ UNCHANGED Mon!vars
  <1>1. CASE LockTake(t) \/ LockRecursive(t) \/ UnlockBody(t) \/ WaitSave(t) \/ WaitRestore(t)
    BY <1>1, TakeIsAcquire, RecursiveIsReenter, UnlockIsRelease, SaveIsWait,
       RestoreIsResume DEF Mon!Next
  <1>2. ASSUME \E xs \in SUBSET Sleeping : Mon!Wake(xs) PROVE Mon!Next
    BY <1>2, Zenon DEF Mon!Next, Sleeping
  <1>3. CASE WakeUp(t)
    <2>1. /\ pc' = [u \in Thread |-> IF u \in {t} THEN "waitMutex" ELSE pc[u]]
          /\ {t} \in SUBSET Sleeping
          /\ UNCHANGED <<count, thread, returned>>
      BY <1>3 DEF WakeUp, Goto, Sleeping, shared, local, Inv, TypeOK
    <2> QED
      BY <1>2, <2>1, NotifyIsWake
  <1>4. CASE WaitRefused(t)
    <2>1. /\ pc' = [u \in Thread |-> IF u \in {t} THEN "waitSem2" ELSE pc[u]]
          /\ {t} \in SUBSET Sleeping
          /\ UNCHANGED <<count, thread, returned>>
      BY <1>4 DEF WaitRefused, Goto, Sleeping, shared, local, Inv, TypeOK
    <2> QED
      BY <1>2, <2>1, NotifyIsWake
  <1>5. CASE \E ts \in SUBSET Waiters : Notify(t, ts)
    <2>1. PICK ts \in SUBSET Waiters : Notify(t, ts)
      BY <1>5
    <2>2. /\ pc' = [u \in Thread |-> IF u \in ts THEN "waitMutex" ELSE pc[u]]
          /\ ts \in SUBSET Sleeping
          /\ UNCHANGED <<count, thread, returned>>
      BY <2>1 DEF Notify, Waiters, Sleeping, shared, local
    <2> QED
      BY <1>2, <2>2, NotifyIsWake
  <1>6. CASE Quiet(t)
    BY <1>3, <1>4, <1>5, <1>6, QuietIsInvisible
  <1> QED
    BY <1>1, <1>6 DEF Step

\* The initial state of the mutex is that of the monitor.
LEMMA InitSimulation == Init => Mon!Init
  <1> SUFFICES ASSUME Init PROVE Mon!Init
    OBVIOUS
  <1>1. Len(<< >>) = 0
    OBVIOUS
  <1>2. ASSUME NEW t \in Thread PROVE Depth(t) = 0 /\ pc[t] = "client"
    BY <1>1, Zenon DEF Init, Depth
  <1>3. Depths = [t \in Thread |-> 0]
    BY <1>2 DEF Depths
  <1>4. Sleeping = {} /\ Woken = {}
    BY <1>2 DEF Sleeping, Woken
  <1>5. Holder = NoThread
    BY DEF Init, Holder
  <1> QED
    BY <1>3, <1>4, <1>5 DEF Mon!Init, Holder, Depths, Sleeping, Woken

\* The semaphore-and-mutex construction of threading.c implements the recursive
\* monitor that its callers rely on.
THEOREM Refinement == Spec => ImplementsMonitor
  <1>1. Inv /\ [Next]_vars => [Mon!Next]_(Mon!vars)
    <2> SUFFICES ASSUME Inv, [Next]_vars PROVE Mon!Next \/ UNCHANGED Mon!vars
      OBVIOUS
    <2>1. CASE Next
      <3>1. PICK t \in Thread : Step(t)
        BY <2>1, NextIsStep
      <3> QED
        BY <3>1, StepSimulation
    <2>2. CASE UNCHANGED vars
      BY <2>2, Invisible DEF vars
    <2> QED
      BY <2>1, <2>2
  <1> QED
    BY <1>1, InitSimulation, Invariance, PTL DEF Spec, ImplementsMonitor, Mon!Spec

=============================================================================
