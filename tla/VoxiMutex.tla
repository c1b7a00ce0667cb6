----------------------------- MODULE VoxiMutex -----------------------------
(***************************************************************************)
(* The recursive mutex of threading.c: a pthread mutex that says who is    *)
(* inside, and a binary semaphore that protects the bookkeeping (count,    *)
(* thread, lastLockFrom).  A lock operation takes the two in one order     *)
(* (mutex, then semaphore), an unlock operation uses them in the other, a  *)
(* condition wait gives both up and takes both back.  Each thread is a     *)
(* program counter; one step is one blocking call or one stretch of code   *)
(* between two of them.                                                    *)
(*                                                                         *)
(* The condition variable is modelled by the threads whose pc is           *)
(* "waiting".  A client unlocks what it locked, passes to unlock_debug     *)
(* what lock_debug returned, and waits and signals while it holds the      *)
(* lock, as threading.h asks.                                              *)
(***************************************************************************)
EXTENDS Integers, Sequences

CONSTANTS Thread,      \* client threads
          NoThread,    \* no owner
          Where,       \* descriptions passed to threading_mutex_lock_debug
          NULL,        \* the null string (also what threading_mutex_lock passes)
          MaxDepth     \* bound: how often one thread locks recursively

ASSUME ConstantsAssumption ==
  /\ NoThread \notin Thread
  /\ NULL \notin Where
  /\ MaxDepth \in Nat \ {0}

VARIABLES semaphore,     \* mutex->semaphore, the value of the sem_t
          mutex,         \* mutex->mutex, the thread that has the pthread mutex
          count,         \* mutex->count
          thread,        \* mutex->thread
          lastLockFrom,  \* mutex->lastLockFrom
          pc,            \* where each thread is
          where,         \* the where argument of the lock call in progress
          returned,      \* per thread, what its open lock calls returned, newest last
          oldCount,      \* local of threading_cond_wait
          oldWhere       \* oldLastLockFrom, local of threading_cond_wait

shared == <<semaphore, mutex, count, thread, lastLockFrom>>
local  == <<where, returned, oldCount, oldWhere>>
vars   == <<semaphore, mutex, count, thread, lastLockFrom, pc, where, returned, oldCount, oldWhere>>

Wheres == Where \cup {NULL}

\* threading_mutex_init leaves mutex->thread unset: any value may be there.
Init ==
  /\ semaphore = 1
  /\ mutex = NoThread
  /\ count = 0
  /\ thread \in Thread \cup {NoThread}
  /\ lastLockFrom = NULL
  /\ pc = [t \in Thread |-> "client"]
  /\ where = [t \in Thread |-> NULL]
  /\ returned = [t \in Thread |-> << >>]
  /\ oldCount = [t \in Thread |-> 0]
  /\ oldWhere = [t \in Thread |-> NULL]

Depth(t) == Len(returned[t])

Goto(t, from, to) == pc[t] = from /\ pc' = [pc EXCEPT ![t] = to]

\* threading_sem_wait and sem_post on mutex->semaphore.
SemWait == semaphore > 0 /\ semaphore' = semaphore - 1
SemPost == semaphore' = semaphore + 1

-----------------------------------------------------------------------------
(* threading_mutex_lock, threading_mutex_lock_debug *)

CallLock(t, w) ==
  /\ Depth(t) < MaxDepth
  /\ Goto(t, "client", "lockSem")
  /\ where' = [where EXCEPT ![t] = w]
  /\ UNCHANGED <<shared, returned, oldCount, oldWhere>>

LockSemWait(t) ==
  /\ Goto(t, "lockSem", "lockBody")
  /\ SemWait
  /\ UNCHANGED <<mutex, count, thread, lastLockFrom, local>>

\* oldWhere = lastLockFrom; lastLockFrom = where; and, in the end, return oldWhere.
SwapWhere(t) ==
  /\ lastLockFrom' = where[t]
  /\ returned' = [returned EXCEPT ![t] = Append(@, lastLockFrom)]

LockRecursive(t) ==
  /\ count > 0 /\ thread = t
  /\ Goto(t, "lockBody", "lockPost")
  /\ count' = count + 1
  /\ SwapWhere(t)
  /\ UNCHANGED <<semaphore, mutex, thread, where, oldCount, oldWhere>>

Mut_LockContendSpins(t) ==
  /\ ~(count > 0 /\ thread = t)
  /\ Goto(t, "lockBody", "lockSem")
  /\ SemPost
  /\ UNCHANGED <<mutex, count, thread, lastLockFrom, local>>

Mut_LockContendBarges(t) ==
  /\ ~(count > 0 /\ thread = t)
  /\ Goto(t, "lockBody", "lockSem2")
  /\ SemPost
  /\ UNCHANGED <<mutex, count, thread, lastLockFrom, local>>

LockContend(t) ==
  /\ ~(count > 0 /\ thread = t)
  /\ Goto(t, "lockBody", "lockMutex")
  /\ SemPost
  /\ UNCHANGED <<mutex, count, thread, lastLockFrom, local>>

LockMutex(t) ==
  /\ Goto(t, "lockMutex", "lockSem2")
  /\ mutex = NoThread
  /\ mutex' = t
  /\ UNCHANGED <<semaphore, count, thread, lastLockFrom, local>>

LockSemWait2(t) ==
  /\ Goto(t, "lockSem2", "lockTake")
  /\ SemWait
  /\ UNCHANGED <<mutex, count, thread, lastLockFrom, local>>

LockTake(t) ==
  /\ Goto(t, "lockTake", "lockPost")
  /\ count' = 1
  /\ thread' = t
  /\ SwapWhere(t)
  /\ UNCHANGED <<semaphore, mutex, where, oldCount, oldWhere>>

LockSemPost(t) ==
  /\ Goto(t, "lockPost", "client")
  /\ SemPost
  /\ UNCHANGED <<mutex, count, thread, lastLockFrom, local>>

-----------------------------------------------------------------------------
(* threading_mutex_unlock, threading_mutex_unlock_debug *)

CallUnlock(t) ==
  /\ Depth(t) > 0
  /\ Goto(t, "client", "unlockSem")
  /\ UNCHANGED <<shared, local>>

UnlockSemWait(t) ==
  /\ Goto(t, "unlockSem", "unlockBody")
  /\ SemWait
  /\ UNCHANGED <<mutex, count, thread, lastLockFrom, local>>

\* The argument of unlock_debug: what the lock call being undone returned.
UnlockArg(t) == returned[t][Depth(t)]

UnlockBody(t) ==
  /\ Goto(t, "unlockBody", IF count = 1 THEN "unlockMutex" ELSE "unlockPost")
  /\ lastLockFrom' = UnlockArg(t)
  /\ count' = count - 1
  /\ returned' = [returned EXCEPT ![t] = SubSeq(@, 1, Depth(t) - 1)]
  /\ UNCHANGED <<semaphore, mutex, thread, where, oldCount, oldWhere>>

Mut_UnlockMutexPosts(t) ==
  /\ Goto(t, "unlockMutex", "unlockPost")
  /\ mutex' = NoThread
  /\ SemPost
  /\ UNCHANGED <<count, thread, lastLockFrom, local>>

UnlockMutex(t) ==
  /\ Goto(t, "unlockMutex", "unlockPost")
  /\ mutex' = NoThread
  /\ UNCHANGED <<semaphore, count, thread, lastLockFrom, local>>

UnlockSemPost(t) ==
  /\ Goto(t, "unlockPost", "client")
  /\ SemPost
  /\ UNCHANGED <<mutex, count, thread, lastLockFrom, local>>

-----------------------------------------------------------------------------
(* threading_cond_wait, threading_cond_timedwait,                          *)
(* threading_cond_absolute_timedwait, and the signals of other threads     *)

CallWait(t) ==
  /\ Depth(t) > 0
  /\ Goto(t, "client", "waitSem1")
  /\ UNCHANGED <<shared, local>>

WaitSemWait1(t) ==
  /\ Goto(t, "waitSem1", "waitBody")
  /\ SemWait
  /\ UNCHANGED <<mutex, count, thread, lastLockFrom, local>>

Mut_WaitSaveKeepsCount(t) ==
  /\ Goto(t, "waitBody", "waitPost")
  /\ oldWhere' = [oldWhere EXCEPT ![t] = lastLockFrom]
  /\ lastLockFrom' = NULL
  /\ oldCount' = [oldCount EXCEPT ![t] = count]
  /\ UNCHANGED <<semaphore, mutex, count, thread, where, returned>>

WaitSave(t) ==
  /\ Goto(t, "waitBody", "waitPost")
  /\ oldWhere' = [oldWhere EXCEPT ![t] = lastLockFrom]
  /\ lastLockFrom' = NULL
  /\ oldCount' = [oldCount EXCEPT ![t] = count]
  /\ count' = 0
  /\ UNCHANGED <<semaphore, mutex, thread, where, returned>>

Mut_WaitReleasesEarly(t) ==
  /\ Goto(t, "waitPost", "waitCond")
  /\ SemPost
  /\ mutex' = NoThread
  /\ UNCHANGED <<count, thread, lastLockFrom, local>>

WaitSemPost1(t) ==
  /\ Goto(t, "waitPost", "waitCond")
  /\ SemPost
  /\ UNCHANGED <<mutex, count, thread, lastLockFrom, local>>

\* pthread_cond_wait: gives up the pthread mutex and starts to wait in one step.
WaitCond(t) ==
  /\ Goto(t, "waitCond", "waiting")
  /\ mutex' = NoThread
  /\ UNCHANGED <<semaphore, count, thread, lastLockFrom, local>>

\* pthread_cond_timedwait refuses the time (EINVAL: the tv_nsec that
\* threading_cond_timedwait computes can reach 10^9): it returns at once, and
\* the pthread mutex has never been given up.
WaitRefused(t) ==
  /\ Goto(t, "waitCond", "waitSem2")
  /\ UNCHANGED <<shared, local>>

\* A timeout or a spurious wakeup.
WakeUp(t) ==
  /\ Goto(t, "waiting", "waitMutex")
  /\ UNCHANGED <<shared, local>>

\* pthread_cond_signal (one waiter) and pthread_cond_broadcast (all of them)
\* by a thread s that has the lock.
Notify(s, ts) ==
  /\ pc[s] = "client" /\ Depth(s) > 0
  /\ pc' = [t \in Thread |-> IF t \in ts THEN "waitMutex" ELSE pc[t]]
  /\ UNCHANGED <<shared, local>>

Waiters == {t \in Thread : pc[t] = "waiting"}

Signal(s) == \E t \in Waiters : Notify(s, {t})

Broadcast(s) == Waiters # {} /\ Notify(s, Waiters)

WaitMutex(t) ==
  /\ Goto(t, "waitMutex", "waitSem2")
  /\ mutex = NoThread
  /\ mutex' = t
  /\ UNCHANGED <<semaphore, count, thread, lastLockFrom, local>>

WaitSemWait2(t) ==
  /\ Goto(t, "waitSem2", "waitRestore")
  /\ SemWait
  /\ UNCHANGED <<mutex, count, thread, lastLockFrom, local>>

Mut_WaitRestoresOne(t) ==
  /\ Goto(t, "waitRestore", "waitDone")
  /\ count' = 1
  /\ lastLockFrom' = oldWhere[t]
  /\ thread' = t
  /\ UNCHANGED <<semaphore, mutex, local>>

Mut_WaitKeepsThread(t) ==
  /\ Goto(t, "waitRestore", "waitDone")
  /\ count' = oldCount[t]
  /\ lastLockFrom' = oldWhere[t]
  /\ UNCHANGED <<semaphore, mutex, thread, local>>

WaitRestore(t) ==
  /\ Goto(t, "waitRestore", "waitDone")
  /\ count' = oldCount[t]
  /\ lastLockFrom' = oldWhere[t]
  /\ thread' = t
  /\ UNCHANGED <<semaphore, mutex, local>>

WaitSemPost2(t) ==
  /\ Goto(t, "waitDone", "client")
  /\ SemPost
  /\ UNCHANGED <<mutex, count, thread, lastLockFrom, local>>

-----------------------------------------------------------------------------
\* What a thread does once it is inside one of the functions.
InLock(t) ==
  \/ LockSemWait(t) \/ LockRecursive(t) \/ LockContend(t) \/ LockMutex(t)
  \/ LockSemWait2(t) \/ LockTake(t) \/ LockSemPost(t)

InUnlock(t) ==
  UnlockSemWait(t) \/ UnlockBody(t) \/ UnlockMutex(t) \/ UnlockSemPost(t)

InWait(t) ==
  \/ WaitSemWait1(t) \/ WaitSave(t) \/ WaitSemPost1(t) \/ WaitCond(t)
  \/ WaitMutex(t) \/ WaitSemWait2(t) \/ WaitRestore(t) \/ WaitSemPost2(t)

Calls(t) ==
  \/ \E w \in Wheres : CallLock(t, w)
  \/ CallUnlock(t)
  \/ CallWait(t)
  \/ Signal(t)
  \/ Broadcast(t)

Next ==
  \E t \in Thread :
    InLock(t) \/ InUnlock(t) \/ InWait(t) \/ Calls(t) \/ WaitRefused(t) \/ WakeUp(t)

Spec == Init /\ [][Next]_vars

\* A thread inside a function of threading.c keeps running while it is not
\* blocked.  Nothing is assumed of the clients, of timeouts or of signals, and
\* nothing of the order in which the semaphore and the mutex serve threads.
FairSpec == Spec /\ \A t \in Thread : WF_vars(InLock(t) \/ InUnlock(t) \/ InWait(t))

-----------------------------------------------------------------------------
(* Properties *)

PcLock   == {"lockSem", "lockBody", "lockMutex", "lockSem2", "lockTake", "lockPost"}
PcUnlock == {"unlockSem", "unlockBody", "unlockMutex", "unlockPost"}
PcWait   == {"waitSem1", "waitBody", "waitPost", "waitCond", "waiting", "waitMutex",
             "waitSem2", "waitRestore", "waitDone"}

\* Types of the fields of sVoxiMutex and of the locals of threading.c's functions.
TypeOK ==
  /\ semaphore \in 0..1
  /\ mutex \in Thread \cup {NoThread}
  /\ count \in Nat
  /\ thread \in Thread \cup {NoThread}
  /\ lastLockFrom \in Wheres
  /\ pc \in [Thread -> {"client"} \cup PcLock \cup PcUnlock \cup PcWait]
  /\ where \in [Thread -> Wheres]
  /\ returned \in [Thread -> Seq(Wheres)]
  /\ oldCount \in [Thread -> Nat]
  /\ oldWhere \in [Thread -> Wheres]

\* A thread in a condition wait between giving the lock up and having it back.
Suspended(t) ==
  pc[t] \in {"waitPost", "waitCond", "waiting", "waitMutex", "waitSem2", "waitRestore"}

\* The lock calls of t have returned and not all are undone.
Holds(t) == Depth(t) > 0 /\ ~Suspended(t)

\* The point of threading_mutex_lock, with recursion, contention on the inner
\* semaphore and condition waits: two threads are never both between their
\* lock and their last unlock.
MutualExclusion == \A t, u \in Thread : Holds(t) /\ Holds(u) => t = u

\* The algorithmic assertions of threading.c never fail: count == 0 when the
\* pthread mutex has been won (lock_debug, cond_wait), thread == self and
\* count > 0 in unlock_debug and cond_absolute_timedwait, semaphore value 0
\* inside, and oldWhere == NULL at the last unlock although lockers, waiters and
\* lastLockFrom strings of several threads interleave.
AssertionsHold ==
  \A t \in Thread :
    /\ pc[t] \in {"lockTake", "waitRestore"} => count = 0
    /\ pc[t] \in {"unlockBody", "waitBody"} => thread = t /\ count > 0
    /\ pc[t] \in {"lockBody", "lockTake", "unlockBody", "waitBody", "waitRestore"} => semaphore = 0
    /\ pc[t] = "unlockBody" /\ count = 1 => UnlockArg(t) = NULL

\* The answer to the question asked in threading_cond_wait ("is it dangerous to
\* sem-post here, before the wait"): while a thread is between releasing the
\* VoxiMutex and sleeping on the condition, nobody else has the VoxiMutex, so no
\* signal given under the lock can fall into the gap.
NoLostWakeup ==
  \A t, u \in Thread : pc[t] \in {"waitPost", "waitCond"} => ~Holds(u)

\* The holder's recursion depth is what mutex->count says, also after a
\* condition wait during which other threads locked and unlocked; otherwise the
\* unlock that gives the lock away would come too early or never.
CountIsDepth == \A t \in Thread : Holds(t) => count = Depth(t) /\ thread = t

\* Every behaviour of the semaphore-and-mutex implementation is one of the
\* abstract monitor.
Mon == INSTANCE Monitor WITH
  holder  <- IF count > 0 THEN thread ELSE NoThread,
  depth   <- [t \in Thread |-> Depth(t)],
  waiting <- {t \in Thread : pc[t] \in {"waitPost", "waitCond", "waiting"}},
  ready   <- {t \in Thread : pc[t] \in {"waitMutex", "waitSem2", "waitRestore"}}

\* threading_mutex_lock, unlock and cond_wait together implement a recursive
\* monitor (module Monitor) although each takes several steps.
ImplementsMonitor == Mon!Spec

\* Lock and unlock use the semaphore and the pthread mutex in opposite orders,
\* and still never block each other for good: when some thread is inside
\* threading_mutex_lock, some thread gets the lock.
LockProgress == (\E t \in Thread : pc[t] \in PcLock) ~> (\E t \in Thread : Holds(t))

=============================================================================
