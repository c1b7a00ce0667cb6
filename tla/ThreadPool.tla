----------------------------- MODULE ThreadPool -----------------------------
(***************************************************************************)
(* threadpool.c: worker threads that sleep on a start condition, run one   *)
(* function at a time, hand its result to the caller that joins them, and  *)
(* go back to the list of available threads; an owner that creates and     *)
(* destroys the pool.                                                      *)
(*                                                                         *)
(* The VoxiMutexes are monitors (module VoxiMutex).  threadListMutex is    *)
(* explicit, because threadPool_destroy keeps it while it joins threads.   *)
(* startConditionMutex and joinStateMutex are only held over code that     *)
(* does not block except in a condition wait, which is therefore one step. *)
(* A caller's function is named by the caller, and so is its result.       *)
(***************************************************************************)
EXTENDS Integers, FiniteSets

CONSTANTS Worker,        \* bound: the threads pthread_create can make
          Caller,        \* client threads that use the pool
          NULL,
          InitialSize,   \* argument of threadPool_create
          Attributes,    \* are pools created detached?  The values tried.
          Spurious,      \* may a condition wait return without a signal?
          DestroyWhen    \* "never", "idle": callers are through, or "any": at any time

ASSUME ThreadPoolAssumption ==
  /\ IsFiniteSet(Worker) /\ Worker \cap Caller = {} /\ NULL \notin Worker \cup Caller
  /\ InitialSize \in Nat
  /\ Attributes \subseteq BOOLEAN /\ Spurious \in BOOLEAN
  /\ DestroyWhen \in {"never", "idle", "any"}

VARIABLES firstAvailableThread, firstThreadInUse, next, prev,   \* the two lists
          detached,            \* the pool's attribute
          isShuttingDown,
          threadListMutex,     \* NULL, or "owner" while threadPool_destroy has it
          threadFunc, threadFuncResult, state,                  \* per worker
          startWaiting,        \* workers that sleep on their startCondition
          joinWaiting,         \* per worker, who sleeps on its joinStateCondition
          wpc,                 \* where each worker is
          cpc, handle, runs, got,  \* per caller: place, *newThread, executions, result
          opc,                 \* where the owner is
          freed,               \* workers whose memory is freed
          crashed              \* the failed assert or NULL call that ended the process

lists   == <<firstAvailableThread, firstThreadInUse, next, prev>>
fields  == <<threadFunc, threadFuncResult, state>>
sleep   == <<startWaiting, joinWaiting>>
callers == <<cpc, handle, runs, got>>
vars    == <<firstAvailableThread, firstThreadInUse, next, prev, detached, isShuttingDown, threadListMutex,
             threadFunc, threadFuncResult, state, startWaiting, joinWaiting, wpc,
             cpc, handle, runs, got, opc, freed, crashed>>

\* threadPool_create up to its loop.
Init ==
  /\ firstAvailableThread = NULL /\ firstThreadInUse = NULL
  /\ next = [w \in Worker |-> NULL] /\ prev = [w \in Worker |-> NULL]
  /\ detached \in Attributes
  /\ isShuttingDown = FALSE
  /\ threadListMutex = NULL
  /\ threadFunc = [w \in Worker |-> NULL]
  /\ threadFuncResult = [w \in Worker |-> NULL]
  /\ state = [w \in Worker |-> "RUNNING_UNJOINED"]
  /\ startWaiting = {} /\ joinWaiting = [w \in Worker |-> {}]
  /\ wpc = [w \in Worker |-> "unborn"]
  /\ cpc = [c \in Caller |-> "idle"] /\ handle = [c \in Caller |-> NULL]
  /\ runs = [c \in Caller |-> 0] /\ got = [c \in Caller |-> NULL]
  /\ opc = "create"
  /\ freed = {}
  /\ crashed = "no"

Unborn == {w \in Worker : wpc[w] = "unborn"}

\* p->field = v, for a pointer that may be NULL and is then not followed.
SetField(f, p, v) == IF p = NULL THEN f ELSE [f EXCEPT ![p] = v]

WorkerGoto(w, from, to) == wpc[w] = from /\ wpc' = [wpc EXCEPT ![w] = to]
CallerGoto(c, from, to) == cpc[c] = from /\ cpc' = [cpc EXCEPT ![c] = to]
OwnerGoto(from, to) == opc = from /\ opc' = to

\* pthread_cond_signal wakes one of the waiting threads, if there are any: what
\* can be left of them.
Signalled(waiting) == IF waiting = {} THEN {{}} ELSE {waiting \ {t} : t \in waiting}

-----------------------------------------------------------------------------
(* threadPool_create, with threadPoolThread_create and threadPool_makeAvailable *)

CreateThread ==
  /\ opc = "create" /\ Cardinality(Worker \ Unborn) < InitialSize
  /\ \E w \in Unborn :
       /\ wpc' = [wpc EXCEPT ![w] = "loop"]
       /\ prev' = SetField(prev, firstAvailableThread, w)
       /\ next' = [next EXCEPT ![w] = firstAvailableThread]
       /\ firstAvailableThread' = w
  /\ UNCHANGED <<firstThreadInUse, isShuttingDown, threadListMutex, fields, sleep, callers, opc, freed, crashed>>

CreateReturn ==
  /\ Cardinality(Worker \ Unborn) >= InitialSize
  /\ OwnerGoto("create", "up")
  /\ UNCHANGED <<lists, isShuttingDown, threadListMutex, fields, sleep, wpc, callers, freed, crashed>>

-----------------------------------------------------------------------------
(* threadPool_runThread *)

\* Clients use the pool while it exists; with DestroyWhen = "idle" they stop
\* before it is destroyed.
MayCall == opc # "create" /\ opc # "done" /\ (DestroyWhen = "idle" => opc = "up")

\* Insertion at the head of the in-use list, after the thread has left the
\* available list (whose next and prev pointers are nx and pv by then).
PutInUse(w, nx, pv) ==
  /\ prev' = [SetField(pv, firstThreadInUse, w) EXCEPT ![w] = NULL]
  /\ next' = [nx EXCEPT ![w] = firstThreadInUse]
  /\ firstThreadInUse' = w

Mut_RunAvailableKeepsPrev(c) ==
  /\ MayCall /\ threadListMutex = NULL /\ ~isShuttingDown
  /\ firstAvailableThread # NULL
  /\ CallerGoto(c, "idle", "assign")
  /\ LET w == firstAvailableThread IN
       /\ firstAvailableThread' = next[w]
       /\ PutInUse(w, next, prev)
       /\ handle' = [handle EXCEPT ![c] = w]
  /\ UNCHANGED <<isShuttingDown, threadListMutex, fields, sleep, wpc, runs, got, opc, freed, crashed>>

\* The first available thread is taken.
RunAvailable(c) ==
  /\ MayCall /\ threadListMutex = NULL /\ ~isShuttingDown
  /\ firstAvailableThread # NULL
  /\ CallerGoto(c, "idle", "assign")
  /\ LET w == firstAvailableThread IN
       /\ firstAvailableThread' = next[w]
       /\ PutInUse(w, next, SetField(prev, next[w], NULL))
       /\ handle' = [handle EXCEPT ![c] = w]
  /\ UNCHANGED <<isShuttingDown, threadListMutex, fields, sleep, wpc, runs, got, opc, freed, crashed>>

Mut_RunNewUnchecked(c) ==
  /\ MayCall /\ threadListMutex = NULL
  /\ firstAvailableThread = NULL
  /\ CallerGoto(c, "idle", "assign")
  /\ \E w \in Unborn :
       /\ wpc' = [wpc EXCEPT ![w] = "loop"]
       /\ PutInUse(w, next, prev)
       /\ handle' = [handle EXCEPT ![c] = w]
  /\ UNCHANGED <<firstAvailableThread, isShuttingDown, threadListMutex, fields, sleep, runs, got, opc, freed, crashed>>

\* No thread is available: a new one is created.
RunNew(c) ==
  /\ MayCall /\ threadListMutex = NULL /\ ~isShuttingDown
  /\ firstAvailableThread = NULL
  /\ CallerGoto(c, "idle", "assign")
  /\ \E w \in Unborn :
       /\ wpc' = [wpc EXCEPT ![w] = "loop"]
       /\ PutInUse(w, next, prev)
       /\ handle' = [handle EXCEPT ![c] = w]
  /\ UNCHANGED <<firstAvailableThread, isShuttingDown, threadListMutex, fields, sleep, runs, got, opc, freed, crashed>>

\* An error is returned and nothing changed: shutting down, or no new thread.
RunFails(c) ==
  /\ MayCall /\ threadListMutex = NULL
  /\ isShuttingDown \/ (firstAvailableThread = NULL /\ Unborn = {})
  /\ CallerGoto(c, "idle", "failed")
  /\ UNCHANGED <<lists, isShuttingDown, threadListMutex, fields, sleep, wpc, handle, runs, got, opc, freed, crashed>>

Mut_RunAssignNoSignal(c) ==
  /\ CallerGoto(c, "assign", "ran")
  /\ threadFunc' = [threadFunc EXCEPT ![handle[c]] = c]
  /\ UNCHANGED <<lists, isShuttingDown, threadListMutex, threadFuncResult, state, sleep, wpc,
                 handle, runs, got, opc, freed, crashed>>

\* Under startConditionMutex: the function is set, the start condition signalled.
RunAssign(c) ==
  /\ CallerGoto(c, "assign", "ran")
  /\ threadFunc' = [threadFunc EXCEPT ![handle[c]] = c]
  /\ startWaiting' = startWaiting \ {handle[c]}
  /\ UNCHANGED <<lists, isShuttingDown, threadListMutex, threadFuncResult, state, joinWaiting, wpc,
                 handle, runs, got, opc, freed, crashed>>

-----------------------------------------------------------------------------
(* threadPoolThread_join *)

\* The thread's function is still running: sleep on joinStateCondition.
JoinWait(c) ==
  /\ CallerGoto(c, "ran", "joinSleep")
  /\ ~detached /\ handle[c] \notin freed
  /\ state[handle[c]] = "RUNNING_UNJOINED"
  /\ state' = [state EXCEPT ![handle[c]] = "RUNNING_JOINED"]
  /\ joinWaiting' = [joinWaiting EXCEPT ![handle[c]] = @ \cup {c}]
  /\ UNCHANGED <<lists, isShuttingDown, threadListMutex, threadFunc, threadFuncResult, startWaiting, wpc,
                 handle, runs, got, opc, freed, crashed>>

\* An error is returned: the pool is detached, or somebody else has joined.
JoinRefused(c) ==
  /\ CallerGoto(c, "ran", "refused")
  /\ handle[c] \notin freed
  /\ detached \/ state[handle[c]] \in {"RUNNING_JOINED", "FINISHED_JOINED"}
  /\ UNCHANGED <<lists, isShuttingDown, threadListMutex, fields, sleep, wpc,
                 handle, runs, got, opc, freed, crashed>>

Mut_CollectNoSignal(c, from) ==
  /\ CallerGoto(c, from, "joined")
  /\ got' = [got EXCEPT ![c] = threadFuncResult[handle[c]]]
  /\ state' = [state EXCEPT ![handle[c]] = "COMPLETE"]
  /\ UNCHANGED <<lists, isShuttingDown, threadListMutex, threadFunc, threadFuncResult, sleep, wpc,
                 handle, runs, opc, freed, crashed>>

\* The result is fetched and completion signalled.
Collect(c, from) ==
  /\ CallerGoto(c, from, "joined")
  /\ got' = [got EXCEPT ![c] = threadFuncResult[handle[c]]]
  /\ state' = [state EXCEPT ![handle[c]] = "COMPLETE"]
  /\ \E waiting \in Signalled(joinWaiting[handle[c]]) :
       joinWaiting' = [joinWaiting EXCEPT ![handle[c]] = waiting]
  /\ UNCHANGED <<lists, isShuttingDown, threadListMutex, threadFunc, threadFuncResult, startWaiting, wpc,
                 handle, runs, opc, freed, crashed>>

\* The function has returned before the call.
JoinFinished(c) ==
  /\ cpc[c] = "ran" /\ ~detached /\ handle[c] \notin freed
  /\ state[handle[c]] \in {"FINISHED_UNJOINED", "COMPLETE"}
  /\ Collect(c, "ran")

Crash(how) == crashed' = how

\* assert( thread->state == JOIN_STATE_FINISHED_JOINED ) after the wait.
JoinWoken(c) ==
  /\ cpc[c] = "joinSleep" /\ handle[c] \notin freed
  /\ c \notin joinWaiting[handle[c]]
  /\ \/ state[handle[c]] = "FINISHED_JOINED" /\ Collect(c, "joinSleep")
     \/ /\ state[handle[c]] # "FINISHED_JOINED"
        /\ Crash("join assert")
        /\ UNCHANGED <<lists, isShuttingDown, threadListMutex, fields, sleep, wpc, callers, opc, freed>>

\* The client goes on: after the join, or once its detached function has run.
CallerNext(c) ==
  /\ \/ cpc[c] = "joined"
     \/ cpc[c] \in {"ran", "refused"} /\ detached /\ got[c] = c
     \/ cpc[c] = "refused" /\ ~detached
     \/ cpc[c] = "failed" /\ ~isShuttingDown
  /\ cpc' = [cpc EXCEPT ![c] = "idle"]
  /\ handle' = [handle EXCEPT ![c] = NULL]
  /\ runs' = [runs EXCEPT ![c] = 0]
  /\ got' = [got EXCEPT ![c] = NULL]
  /\ UNCHANGED <<lists, isShuttingDown, threadListMutex, fields, sleep, wpc, opc, freed, crashed>>

-----------------------------------------------------------------------------
(* threadPoolThread_mainLoop *)

\* Under startConditionMutex: sleep if there is no function yet.
LoopStart(w) ==
  /\ \/ /\ WorkerGoto(w, "loop", "sleep")
        /\ threadFunc[w] = NULL
        /\ startWaiting' = startWaiting \cup {w}
     \/ /\ threadFunc[w] # NULL
        /\ WorkerGoto(w, "loop", "awake")
        /\ UNCHANGED startWaiting
  /\ UNCHANGED <<lists, isShuttingDown, threadListMutex, fields, joinWaiting, callers, opc, freed, crashed>>

LoopWoken(w) ==
  /\ w \notin startWaiting
  /\ WorkerGoto(w, "sleep", "awake")
  /\ UNCHANGED <<lists, isShuttingDown, threadListMutex, fields, sleep, callers, opc, freed, crashed>>

\* if (self->myPool->isShuttingDown) break;
LoopTestShutdown(w) ==
  /\ WorkerGoto(w, "awake", IF isShuttingDown THEN "exit" ELSE "call")
  /\ UNCHANGED <<lists, isShuttingDown, threadListMutex, fields, sleep, callers, opc, freed, crashed>>

\* The thread function is called; without one, the process dies.
LoopCall(w) ==
  \/ /\ threadFunc[w] # NULL
     /\ WorkerGoto(w, "call", "run")
     /\ runs' = [runs EXCEPT ![threadFunc[w]] = @ + 1]
     /\ UNCHANGED <<lists, isShuttingDown, threadListMutex, fields, sleep, cpc, handle, got, opc, freed, crashed>>
  \/ /\ threadFunc[w] = NULL
     /\ wpc[w] = "call"
     /\ Crash("NULL function")
     /\ UNCHANGED <<lists, isShuttingDown, threadListMutex, fields, sleep, wpc, callers, opc, freed>>

\* The thread function returns.  A detached one has told its caller on the way.
LoopFunctionReturns(w) ==
  /\ WorkerGoto(w, "run", IF detached THEN "cleanup" ELSE "finish")
  /\ threadFuncResult' = [threadFuncResult EXCEPT ![w] = threadFunc[w]]
  /\ got' = IF detached THEN [got EXCEPT ![threadFunc[w]] = threadFunc[w]] ELSE got
  /\ UNCHANGED <<lists, isShuttingDown, threadListMutex, threadFunc, state, sleep,
                 cpc, handle, runs, opc, freed, crashed>>

\* Under joinStateMutex: the state is set to finished, a joiner woken, and the
\* thread sleeps until the join is complete.
LoopFinish(w) ==
  /\ WorkerGoto(w, "finish", "joinSleep")
  /\ state' = [state EXCEPT ![w] = IF @ = "RUNNING_JOINED" THEN "FINISHED_JOINED" ELSE "FINISHED_UNJOINED"]
  /\ \E waiting \in Signalled(joinWaiting[w]) : joinWaiting' = [joinWaiting EXCEPT ![w] = waiting \cup {w}]
  /\ UNCHANGED <<lists, isShuttingDown, threadListMutex, threadFunc, threadFuncResult, startWaiting,
                 callers, opc, freed, crashed>>

Mut_LoopJoinedKeepsState(w) ==
  /\ w \notin joinWaiting[w]
  /\ WorkerGoto(w, "joinSleep", "cleanup")
  /\ state' = [state EXCEPT ![w] = IF @ = "COMPLETE" THEN "FINISHED_UNJOINED" ELSE @]
  /\ UNCHANGED <<lists, isShuttingDown, threadListMutex, threadFunc, threadFuncResult, sleep,
                 callers, opc, freed, crashed>>

LoopJoined(w) ==
  /\ w \notin joinWaiting[w]
  /\ WorkerGoto(w, "joinSleep", "cleanup")
  /\ state' = [state EXCEPT ![w] = "RUNNING_UNJOINED"]
  /\ UNCHANGED <<lists, isShuttingDown, threadListMutex, threadFunc, threadFuncResult, sleep,
                 callers, opc, freed, crashed>>

Mut_LoopCleanupKeepsFunc(w) ==
  /\ WorkerGoto(w, "cleanup", "relist")
  /\ UNCHANGED <<lists, isShuttingDown, threadListMutex, fields, sleep, callers, opc, freed, crashed>>

LoopCleanup(w) ==
  /\ WorkerGoto(w, "cleanup", "relist")
  /\ threadFunc' = [threadFunc EXCEPT ![w] = NULL]
  /\ UNCHANGED <<lists, isShuttingDown, threadListMutex, threadFuncResult, state, sleep, callers, opc, freed, crashed>>

\* Under threadListMutex: from the in-use list to the head of the available one.
LoopRelist(w) ==
  /\ threadListMutex = NULL
  /\ WorkerGoto(w, "relist", "test")
  /\ \/ /\ ~isShuttingDown
        /\ firstThreadInUse' = IF firstThreadInUse = w THEN next[w] ELSE firstThreadInUse
        /\ next' = [SetField(next, prev[w], next[w]) EXCEPT ![w] = firstAvailableThread]
        /\ prev' = [SetField(SetField(prev, next[w], prev[w]), firstAvailableThread, w) EXCEPT ![w] = NULL]
        /\ firstAvailableThread' = w
     \/ isShuttingDown /\ UNCHANGED lists
  /\ UNCHANGED <<isShuttingDown, threadListMutex, fields, sleep, callers, opc, freed, crashed>>

\* while (!(self->myPool->isShuttingDown))
LoopTest(w) ==
  /\ WorkerGoto(w, "test", IF isShuttingDown THEN "exit" ELSE "loop")
  /\ UNCHANGED <<lists, isShuttingDown, threadListMutex, fields, sleep, callers, opc, freed, crashed>>

-----------------------------------------------------------------------------
(* threadPool_destroy, with threadPoolThread_destroy *)

DestroyLock ==
  /\ DestroyWhen # "never"
  /\ DestroyWhen = "idle" => \A c \in Caller : cpc[c] = "idle"
  /\ threadListMutex = NULL
  /\ OwnerGoto("up", "available")
  /\ threadListMutex' = "owner"
  /\ isShuttingDown' = TRUE
  /\ UNCHANGED <<lists, fields, sleep, wpc, callers, freed, crashed>>

\* pthread_cond_signal, without startConditionMutex.
DestroySignal ==
  /\ firstAvailableThread # NULL
  /\ OwnerGoto("available", "join")
  /\ startWaiting' = startWaiting \ {firstAvailableThread}
  /\ UNCHANGED <<lists, isShuttingDown, threadListMutex, fields, joinWaiting, wpc, callers, freed, crashed>>

\* pthread_join returns once the worker has left its main loop; then it is freed.
DestroyJoinAvailable ==
  /\ OwnerGoto("join", "available")
  /\ wpc[firstAvailableThread] = "exit"
  /\ freed' = freed \cup {firstAvailableThread}
  /\ firstAvailableThread' = next[firstAvailableThread]
  /\ UNCHANGED <<firstThreadInUse, next, prev, isShuttingDown, threadListMutex, fields, sleep, wpc, callers, crashed>>

DestroyJoinInUse ==
  /\ opc = "available" /\ firstAvailableThread = NULL
  /\ firstThreadInUse # NULL /\ wpc[firstThreadInUse] = "exit"
  /\ freed' = freed \cup {firstThreadInUse}
  /\ firstThreadInUse' = next[firstThreadInUse]
  /\ UNCHANGED <<firstAvailableThread, next, prev, isShuttingDown, threadListMutex, fields, sleep, wpc, callers, opc, crashed>>

DestroyUnlock ==
  /\ firstAvailableThread = NULL /\ firstThreadInUse = NULL
  /\ OwnerGoto("available", "unlocked")
  /\ threadListMutex' = NULL
  /\ UNCHANGED <<lists, isShuttingDown, fields, sleep, wpc, callers, freed, crashed>>

\* The mutex is destroyed and the pool freed.
DestroyFree ==
  /\ OwnerGoto("unlocked", "done")
  /\ UNCHANGED <<lists, isShuttingDown, threadListMutex, fields, sleep, wpc, callers, freed, crashed>>

-----------------------------------------------------------------------------
\* POSIX lets a condition wait return without having been signalled.
SpuriousWakeup ==
  /\ Spurious
  /\ \/ \E w \in startWaiting : startWaiting' = startWaiting \ {w} /\ UNCHANGED joinWaiting
     \/ \E w \in Worker : \E t \in joinWaiting[w] :
          joinWaiting' = [joinWaiting EXCEPT ![w] = @ \ {t}] /\ UNCHANGED startWaiting
  /\ UNCHANGED <<lists, isShuttingDown, threadListMutex, fields, wpc, callers, opc, freed, crashed>>

MainLoop(w) ==
  \/ LoopStart(w) \/ LoopWoken(w) \/ LoopTestShutdown(w) \/ LoopCall(w) \/ LoopFunctionReturns(w)
  \/ LoopFinish(w) \/ LoopJoined(w) \/ LoopCleanup(w) \/ LoopRelist(w) \/ LoopTest(w)

Join(c) == JoinWait(c) \/ JoinRefused(c) \/ JoinFinished(c) \/ JoinWoken(c)

Run(c) == RunAvailable(c) \/ RunNew(c) \/ RunFails(c)

Destroying == DestroySignal \/ DestroyJoinAvailable \/ DestroyJoinInUse \/ DestroyUnlock \/ DestroyFree

\* While the process lives; the attribute never changes.
Alive == crashed = "no" /\ UNCHANGED detached

Next ==
  /\ Alive
  /\ \/ CreateThread \/ CreateReturn \/ DestroyLock \/ Destroying
     \/ \E c \in Caller : Run(c) \/ RunAssign(c) \/ Join(c) \/ CallerNext(c)
     \/ \E w \in Worker : MainLoop(w)
     \/ SpuriousWakeup

Spec == Init /\ [][Next]_vars

\* Threads keep running while they are not blocked; thread functions return; a
\* caller that was given a thread joins it.  Nobody has to call runThread or
\* destroy.
FairSpec ==
  /\ Spec
  /\ \A w \in Worker : WF_vars(Alive /\ MainLoop(w))
  /\ \A c \in Caller : WF_vars(Alive /\ (RunAssign(c) \/ Join(c)))
  /\ WF_vars(Alive /\ Destroying)

-----------------------------------------------------------------------------
(* Properties *)

JoinState == {"RUNNING_UNJOINED", "RUNNING_JOINED", "FINISHED_UNJOINED", "FINISHED_JOINED", "COMPLETE"}

\* Types; in particular a caller that was told it has a thread has one.
TypeOK ==
  /\ {firstAvailableThread, firstThreadInUse} \subseteq Worker \cup {NULL}
  /\ next \in [Worker -> Worker \cup {NULL}] /\ prev \in [Worker -> Worker \cup {NULL}]
  /\ detached \in BOOLEAN /\ isShuttingDown \in BOOLEAN
  /\ threadListMutex \in {NULL, "owner"}
  /\ threadFunc \in [Worker -> Caller \cup {NULL}]
  /\ threadFuncResult \in [Worker -> Caller \cup {NULL}]
  /\ state \in [Worker -> JoinState]
  /\ startWaiting \subseteq Worker
  /\ joinWaiting \in [Worker -> SUBSET (Worker \cup Caller)]
  /\ \A c \in Caller : cpc[c] \in {"assign", "ran", "joinSleep"} => handle[c] \in Worker
  /\ runs \in [Caller -> Nat] /\ got \in [Caller -> Caller \cup {NULL}]
  /\ freed \subseteq Worker

\* The n-th thread of the list that starts at first, or NULL.
ThreadAt(first, n) ==
  LET at[k \in 1..n] == IF k = 1 THEN first ELSE IF at[k - 1] = NULL THEN NULL ELSE next[at[k - 1]]
  IN at[n]

Members(first) == {ThreadAt(first, n) : n \in 1..(Cardinality(Worker) + 1)} \ {NULL}

\* A list is linked both ways and ends.
WellLinked(first) ==
  /\ first # NULL => prev[first] = NULL
  /\ \A w \in Members(first) : next[w] # NULL => prev[next[w]] = w
  /\ ThreadAt(first, Cardinality(Worker) + 1) = NULL

\* Everything has its type, and until the pool shuts down every thread is in
\* exactly one of the two doubly linked lists, whatever order callers and
\* workers insert and remove in.
ListsConsistent ==
  LET available == Members(firstAvailableThread)
      inUse == Members(firstThreadInUse)
  IN /\ TypeOK
     /\ ~isShuttingDown =>
          /\ WellLinked(firstAvailableThread) /\ WellLinked(firstThreadInUse)
          /\ available \cap inUse = {}
          /\ available \cup inUse = Worker \ Unborn

\* A thread that runThread may hand out has no function left and belongs to no
\* caller: the main loop clears the function before it lists the thread again,
\* and it lists the thread only after the join.
AvailableIsUnused ==
  ~isShuttingDown =>
    \A w \in Members(firstAvailableThread) :
      /\ threadFunc[w] = NULL
      /\ \A c \in Caller :
           cpc[c] \in {"assign", "joinSleep"} \/ (cpc[c] = "ran" /\ ~detached) => handle[c] # w

\* A function handed to threadPool_runThread is executed at most once, and
\* threadPoolThread_join returns the result of the caller's own function, after it
\* has been executed: threads are reused, so a late wakeup or a stale join state
\* could confuse two of them.
JoinReturnsOwnResult ==
  \A c \in Caller :
    /\ runs[c] <= 1
    /\ cpc[c] = "joined" => runs[c] = 1 /\ got[c] = c

\* The asserts of the main loop: a thread function is called in a RUNNING state,
\* although the state of the previous use is reset in another critical section;
\* and a thread that goes back to the available list finds a thread in use.
MainLoopAssertsHold ==
  \A w \in Worker :
    /\ wpc[w] = "call" => state[w] \in {"RUNNING_UNJOINED", "RUNNING_JOINED"}
    /\ wpc[w] = "relist" /\ ~isShuttingDown => firstThreadInUse # NULL

\* Every function that runThread accepted is executed, and the caller gets back
\* from the join, in any order of start signal, wait, finish and join.
TasksComplete ==
  \A c \in Caller : (cpc[c] = "ran") ~> (cpc[c] = "joined" \/ (detached /\ got[c] = c))

\* A thread whose function has returned becomes available again: the join wakes it.
WorkersReturn ==
  \A w \in Worker : (wpc[w] = "joinSleep") ~> (wpc[w] = "test")

\* threadPool_destroy unlocks and frees the pool when every thread has ended and
\* is freed; no caller that waited for threadListMutex starts another one.
PoolFreedAfterThreads ==
  opc \in {"unlocked", "done"} => \A w \in Worker \ Unborn : w \in freed /\ wpc[w] = "exit"

\* threadpool.h, of threadPool_destroy: "Destroys and frees a thread pool object."
\* The call returns, here when the callers are through with the pool.
DestroyReturns == (opc = "available") ~> (opc = "done")

\* The comment in the main loop, "If shutting down, no need for this since thread
\* will be destroyed": a thread that runs its function when the pool is shut down
\* gets past this point to its end.
ShutdownEndsRunningThreads ==
  \A w \in Worker : (wpc[w] = "relist" /\ isShuttingDown) ~> (wpc[w] = "exit")

\* threadpool.h, of threadPool_runThread: "Calls the specified function in the
\* first available thread."  A function for which no error was returned is called.
AcceptedFunctionIsCalled ==
  \A c \in Caller : (cpc[c] = "ran") ~> (runs[c] = 1)

\* "Wait until either shutting down or thread in use", says the main loop: after
\* the wait, a thread that is not shut down has a function to call.
WokenWithFunction == crashed # "NULL function"

\* assert( thread->state == JOIN_STATE_FINISHED_JOINED ) in threadPoolThread_join.
JoinAssertHolds == crashed # "join assert"

\* threadpool.h: "Any attempt to call destroy, join or runThread on a thread pool
\* for which destroy has been called will result in an error."  So a thread that
\* a caller still has to join is not freed.
UnjoinedThreadNotFreed ==
  \A c \in Caller : cpc[c] \in {"assign", "ran", "joinSleep"} => handle[c] \notin freed

(* The lists of threadpool.c stay consistent and the asserts of the main   *)
(* loop hold, also while the pool is being destroyed.                      *)
PoolSound == ListsConsistent /\ MainLoopAssertsHold

(* A thread of threadpool.c carries nothing over from one function to the  *)
(* next: it is unused when it is available, and a join returns the result  *)
(* of the caller's own function.                                           *)
NothingCarriedOver == AvailableIsUnused /\ JoinReturnsOwnResult

(* Every accepted function is run, and its thread is available again.      *)
TasksServed == TasksComplete /\ WorkersReturn
=============================================================================
