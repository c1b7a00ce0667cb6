---------------------------- MODULE EventManager ----------------------------
(***************************************************************************)
(* The event manager of event.c: posting threads put events into a ring,   *)
(* the main loop takes them out and starts a thread for each (called here  *)
(* by the event it dispatches), which calls the listeners of the event's   *)
(* source and type: in its own thread, with the listener list locked, or   *)
(* in a new thread (called by the event and the listener's slot).          *)
(*                                                                         *)
(* VoxiMutexes are monitors (module VoxiMutex).  Nothing blocks while      *)
(* eventQueueModificationLock or listenersHashTableLock is held, so what   *)
(* they protect is one step.  listenerListLock is explicit, because        *)
(* handlers are called while it is held.                                   *)
(***************************************************************************)
EXTENDS Integers, FiniteSets, FiniteSetsExt

CONSTANTS Client,         \* application threads
          Event,          \* bound: memory for events
          Key,            \* pairs of source and eventType
          Listener,       \* handlerFunc with handlerData
          NewThread,      \* listeners added with makeNewThread
          Reposts,        \* listeners that post an event like the one they handle, and wait
          OneShot,        \* listeners that remove themselves when called
          NULL,
          MaxEvents,      \* EVENT_MAX_EVENTS
          MaxListeners,   \* LLIST_NO_ELEMS
          Blocking,       \* values of the argument blocking that clients use
          ThreadsMayFail, \* may pthread_create fail?
          MayShutdown     \* may em_shutdown be called?

Slot   == 0..(MaxListeners - 1)
Worker == Event \X Slot
Thread == Client \cup Event \cup Worker

\* Threads are called by different names, and NULL is no event and no listener.
ASSUME EventManagerAssumption ==
  /\ NewThread \cup Reposts \cup OneShot \subseteq Listener
  /\ MaxEvents \in Nat \ {0} /\ MaxListeners \in Nat \ {0}
  /\ Blocking \subseteq BOOLEAN
  /\ ThreadsMayFail \in BOOLEAN /\ MayShutdown \in BOOLEAN
  /\ Client \cap (Event \cup Worker) = {} /\ Event \cap Worker = {}
  /\ NULL \notin Event \cup Listener

VARIABLES frontEvent, backEvent, eventQueue,   \* the ring
          eventsInQueue,        \* the semaphore
          eventManagerThread,   \* has the variable been set?
          mainLoop, taken,      \* where the main loop is, and its local event
          created,              \* keys that have a listener list
          listenerEntryList,    \* per key, the listener in each slot
          listenerListLock,     \* per key, the thread that has it
          allocated, key, isBlocking, nested, semaphore,   \* events
          pc, posting,          \* per thread: its place, and aEvent if its post is blocking
          listnCntr,            \* per dispatching thread
          handler,              \* per thread, the listener whose handlerFunc it executes
          crashed               \* the assert that ended the process

ring      == <<frontEvent, backEvent, eventQueue, eventsInQueue>>
manager   == <<eventManagerThread, mainLoop, taken>>
listeners == <<created, listenerEntryList, listenerListLock>>
events    == <<allocated, key, isBlocking, nested, semaphore>>
threads   == <<pc, posting, listnCntr, handler>>
vars      == <<frontEvent, backEvent, eventQueue, eventsInQueue, eventManagerThread, mainLoop, taken,
               created, listenerEntryList, listenerListLock, allocated, key, isBlocking, nested,
               semaphore, pc, posting, listnCntr, handler, crashed>>

Init ==
  /\ frontEvent = 0 /\ backEvent = 0
  /\ eventQueue = [i \in 0..(MaxEvents - 1) |-> NULL]
  /\ eventsInQueue = 0
  /\ eventManagerThread = FALSE /\ mainLoop = "down" /\ taken = NULL
  /\ created = {}
  /\ listenerEntryList = [k \in Key |-> [i \in Slot |-> NULL]]
  /\ listenerListLock = [k \in Key |-> NULL]
  /\ allocated = {}
  /\ key = [e \in Event |-> NULL]
  /\ isBlocking = [e \in Event |-> FALSE] /\ nested = [e \in Event |-> FALSE]
  /\ semaphore = [e \in Event |-> 0]
  /\ pc = [t \in Thread |-> IF t \in Client THEN "client" ELSE "none"]
  /\ posting = [t \in Thread |-> NULL]
  /\ listnCntr = [e \in Event |-> 0]
  /\ handler = [t \in Thread |-> NULL]
  /\ crashed = "no"

Crash(how) ==
  /\ crashed' = how
  /\ UNCHANGED <<ring, manager, listeners, events, threads>>

-----------------------------------------------------------------------------
(* em_startup, em_shutdown *)

Startup ==
  /\ mainLoop = "down"
  /\ \/ /\ eventManagerThread          \* assert( eventManagerThread == NULL )
        /\ Crash("startup")
     \/ /\ ~eventManagerThread
        /\ eventManagerThread' = TRUE
        /\ mainLoop' = "wait"
        /\ UNCHANGED <<ring, taken, listeners, events, threads, crashed>>

\* pthread_cancel takes effect in a sem_wait: the main loop's own, or the one of
\* threading_mutex_lock.  Applications have stopped posting; an event in the
\* queue, or just taken, is not dispatched any more.
Shutdown ==
  /\ MayShutdown /\ mainLoop \in {"wait", "took"}
  /\ \A t \in Thread : pc[t] \notin {"insert", "semPost"}
  /\ mainLoop' = "down" /\ taken' = NULL
  /\ UNCHANGED <<ring, eventManagerThread, listeners, events, threads, crashed>>

-----------------------------------------------------------------------------
(* em_postEvent, by a client or by a handler *)

\* The event that a thread that is not a client works for.
EventOf(t) == IF t \in Event THEN t ELSE t[1]

\* A handler that posts does so for an event that was not posted by a handler.
WillRepost(t) == handler[t] \in Reposts /\ ~nested[EventOf(t)]

PostCheck(t) ==
  /\ mainLoop # "down"
  /\ IF t \in Client THEN pc[t] = "client" ELSE pc[t] = "handler" /\ WillRepost(t)
  /\ \/ /\ (backEvent + 1) % MaxEvents = frontEvent    \* assert, without the lock
        /\ Crash("queue full")
     \/ /\ (backEvent + 1) % MaxEvents # frontEvent
        /\ pc' = [pc EXCEPT ![t] = "insert"]
        /\ UNCHANGED <<ring, manager, listeners, events, posting, listnCntr, handler, crashed>>

Mut_AfterSticks(i) == IF i + 1 = MaxEvents THEN i ELSE i + 1

After(i) == (i + 1) % MaxEvents

Mut_PostInsertAtFront(t) ==
  /\ pc[t] = "insert"
  /\ \E e \in Event \ allocated, k \in Key, b \in BOOLEAN :
       /\ IF t \in Client THEN b \in Blocking ELSE b /\ k = key[EventOf(t)]
       /\ allocated' = allocated \cup {e}
       /\ key' = [key EXCEPT ![e] = k]
       /\ isBlocking' = [isBlocking EXCEPT ![e] = b]
       /\ nested' = [nested EXCEPT ![e] = t \notin Client]
       /\ eventQueue' = [eventQueue EXCEPT ![frontEvent] = e]
       /\ posting' = [posting EXCEPT ![t] = IF b THEN e ELSE NULL]
  /\ backEvent' = After(backEvent)
  /\ pc' = [pc EXCEPT ![t] = "semPost"]
  /\ UNCHANGED <<frontEvent, eventsInQueue, manager, listeners, semaphore, listnCntr, handler, crashed>>

\* Under eventQueueModificationLock: a new event is filled in and queued.
PostInsert(t) ==
  /\ pc[t] = "insert"
  /\ \E e \in Event \ allocated, k \in Key, b \in BOOLEAN :
       /\ IF t \in Client THEN b \in Blocking ELSE b /\ k = key[EventOf(t)]
       /\ allocated' = allocated \cup {e}
       /\ key' = [key EXCEPT ![e] = k]
       /\ isBlocking' = [isBlocking EXCEPT ![e] = b]
       /\ nested' = [nested EXCEPT ![e] = t \notin Client]
       /\ eventQueue' = [eventQueue EXCEPT ![backEvent] = e]
       /\ posting' = [posting EXCEPT ![t] = IF b THEN e ELSE NULL]
  /\ backEvent' = After(backEvent)
  /\ pc' = [pc EXCEPT ![t] = "semPost"]
  /\ UNCHANGED <<frontEvent, eventsInQueue, manager, listeners, semaphore, listnCntr, handler, crashed>>

\* Where a thread goes on when its em_postEvent returns.
Return(t) == IF t \in Client THEN "client" ELSE "return"

PostSemPost(t) ==
  /\ pc[t] = "semPost"
  /\ eventsInQueue' = eventsInQueue + 1
  /\ pc' = [pc EXCEPT ![t] = IF posting[t] # NULL THEN "semWait" ELSE Return(t)]
  /\ UNCHANGED <<frontEvent, backEvent, eventQueue, manager, listeners, events, posting, listnCntr, handler, crashed>>

freeEvent(e) ==
  /\ allocated' = allocated \ {e}
  /\ key' = [key EXCEPT ![e] = NULL]
  /\ isBlocking' = [isBlocking EXCEPT ![e] = FALSE]
  /\ nested' = [nested EXCEPT ![e] = FALSE]
  /\ semaphore' = [semaphore EXCEPT ![e] = 0]

\* The poster of a blocking event waits until it is handled, and frees it.
PostSemWait(t) ==
  /\ pc[t] = "semWait" /\ semaphore[posting[t]] > 0
  /\ freeEvent(posting[t])
  /\ pc' = [pc EXCEPT ![t] = Return(t)]
  /\ posting' = [posting EXCEPT ![t] = NULL]
  /\ UNCHANGED <<ring, manager, listeners, listnCntr, handler, crashed>>

-----------------------------------------------------------------------------
(* em_mainLoop *)

\* After sem_wait, the front event is read without the lock.
MainTake ==
  /\ mainLoop = "wait" /\ eventsInQueue > 0
  /\ eventsInQueue' = eventsInQueue - 1
  /\ mainLoop' = "took"
  /\ taken' = eventQueue[frontEvent]
  /\ UNCHANGED <<frontEvent, backEvent, eventQueue, eventManagerThread, listeners, events, threads, crashed>>

MainAdvance ==
  /\ mainLoop = "took"
  /\ frontEvent' = After(frontEvent)
  /\ mainLoop' = "fork"
  /\ UNCHANGED <<backEvent, eventQueue, eventsInQueue, eventManagerThread, taken, listeners, events, threads, crashed>>

\* The thread that dispatches the event is created.
MainFork ==
  /\ mainLoop = "fork"
  /\ \/ /\ mainLoop' = "wait" /\ taken' = NULL
        /\ pc' = [pc EXCEPT ![taken] = "find"]
        /\ UNCHANGED <<ring, eventManagerThread, listeners, events, posting, listnCntr, handler, crashed>>
     \/ ThreadsMayFail /\ Crash("no thread")         \* assert( error == 0 )

-----------------------------------------------------------------------------
(* em_addListener, em_removeListener *)

\* The lock is free or, since it is recursive, the thread's own.
CanLock(t, k) == listenerListLock[k] \in {NULL, t}

FreeSlots(k) == {i \in Slot : listenerEntryList[k][i] = NULL}

AddListener(c, k, l) ==
  /\ pc[c] = "client" /\ mainLoop # "down"
  /\ CanLock(c, k)
  /\ \/ /\ FreeSlots(k) # {}
        /\ created' = created \cup {k}
        /\ listenerEntryList' = [listenerEntryList EXCEPT ![k][Min(FreeSlots(k))] = l]
        /\ UNCHANGED <<ring, manager, listenerListLock, events, threads, crashed>>
     \/ FreeSlots(k) = {} /\ Crash("list full")      \* assert( i < LLIST_NO_ELEMS )

Mut_removeListener(t, k, l) ==
  LET found == {i \in Slot : listenerEntryList[k][i] = l} IN
  /\ k \in created
  /\ listenerEntryList' = IF found = {} THEN listenerEntryList
                          ELSE [listenerEntryList EXCEPT ![k][Min(found)] = NULL]

\* The first entry with this listener, if any, is removed.
removeListener(t, k, l) ==
  LET found == {i \in Slot : listenerEntryList[k][i] = l} IN
  /\ k \in created                                   \* assert( listenerList != NULL )
  /\ CanLock(t, k)
  /\ listenerEntryList' = IF found = {} THEN listenerEntryList
                          ELSE [listenerEntryList EXCEPT ![k][Min(found)] = NULL]

RemoveListener(c, k, l) ==
  /\ pc[c] = "client" /\ mainLoop # "down"
  /\ removeListener(c, k, l)
  /\ UNCHANGED <<ring, manager, created, listenerListLock, events, threads, crashed>>

-----------------------------------------------------------------------------
(* em_handleOneEvent, in the thread of event e *)

Find(e) ==
  /\ pc[e] = "find"
  /\ pc' = [pc EXCEPT ![e] = IF key[e] \in created THEN "lock" ELSE "finish"]
  /\ UNCHANGED <<ring, manager, listeners, events, posting, listnCntr, handler, crashed>>

LockList(e) ==
  /\ pc[e] = "lock" /\ listenerListLock[key[e]] = NULL
  /\ listenerListLock' = [listenerListLock EXCEPT ![key[e]] = e]
  /\ pc' = [pc EXCEPT ![e] = "loop"]
  /\ listnCntr' = [listnCntr EXCEPT ![e] = 0]
  /\ UNCHANGED <<ring, manager, created, listenerEntryList, events, posting, handler, crashed>>

\* The slots with a listener that the loop has not come to yet.
Ahead(e) == {i \in Slot : i >= listnCntr[e] /\ listenerEntryList[key[e]][i] # NULL}

\* Where a handlerFunc starts.
Entry(l) == IF l \in OneShot THEN "remove" ELSE "handler"

\* The next listener's function is called in this thread.
LoopCall(e) ==
  /\ pc[e] = "loop" /\ Ahead(e) # {}
  /\ LET i == Min(Ahead(e))
         l == listenerEntryList[key[e]][i]
     IN /\ l \notin NewThread
        /\ pc' = [pc EXCEPT ![e] = Entry(l)]
        /\ handler' = [handler EXCEPT ![e] = l]
        /\ listnCntr' = [listnCntr EXCEPT ![e] = i]
  /\ UNCHANGED <<ring, manager, listeners, events, posting, crashed>>

\* The next listener's function is called in a new thread; if there is none, an
\* error is printed and the listener left out.
LoopFork(e) ==
  /\ pc[e] = "loop" /\ Ahead(e) # {}
  /\ LET i == Min(Ahead(e))
         l == listenerEntryList[key[e]][i]
     IN /\ l \in NewThread
        /\ listnCntr' = [listnCntr EXCEPT ![e] = i + 1]
        /\ \/ /\ pc' = [pc EXCEPT ![<<e, i>>] = Entry(l)]
              /\ handler' = [handler EXCEPT ![<<e, i>>] = l]
           \/ ThreadsMayFail /\ UNCHANGED <<pc, handler>>
  /\ UNCHANGED <<ring, manager, listeners, events, posting, crashed>>

Mut_LoopEndKeepsLock(e) ==
  /\ pc[e] = "loop" /\ Ahead(e) = {}
  /\ \A i \in Slot : pc[<<e, i>>] = "none"
  /\ listenerListLock' = [listenerListLock EXCEPT ![key[e]] = NULL]
  /\ pc' = [pc EXCEPT ![e] = "join"]
  /\ UNCHANGED <<ring, manager, created, listenerEntryList, events, posting, listnCntr, handler, crashed>>

LoopEnd(e) ==
  /\ pc[e] = "loop" /\ Ahead(e) = {}
  /\ listenerListLock' = [listenerListLock EXCEPT ![key[e]] = NULL]
  /\ pc' = [pc EXCEPT ![e] = "join"]
  /\ UNCHANGED <<ring, manager, created, listenerEntryList, events, posting, listnCntr, handler, crashed>>

Mut_JoinFirst(e) ==
  /\ pc[e] = "join" /\ pc[<<e, 0>>] = "none"
  /\ pc' = [pc EXCEPT ![e] = "finish"]
  /\ UNCHANGED <<ring, manager, listeners, events, posting, listnCntr, handler, crashed>>

\* pthread_join on all the threads in threadWaitList.
JoinAll(e) ==
  /\ pc[e] = "join" /\ \A i \in Slot : pc[<<e, i>>] = "none"
  /\ pc' = [pc EXCEPT ![e] = "finish"]
  /\ UNCHANGED <<ring, manager, listeners, events, posting, listnCntr, handler, crashed>>

Mut_finishedWithEvent(e) ==
  /\ pc[e] = "finish"
  /\ pc' = [pc EXCEPT ![e] = "none"]
  /\ freeEvent(e)
  /\ UNCHANGED <<ring, manager, listeners, posting, listnCntr, handler, crashed>>

\* The poster is told, or the event freed.
finishedWithEvent(e) ==
  /\ pc[e] = "finish"
  /\ pc' = [pc EXCEPT ![e] = "none"]
  /\ \/ /\ isBlocking[e]
        /\ semaphore' = [semaphore EXCEPT ![e] = @ + 1]
        /\ UNCHANGED <<allocated, key, isBlocking, nested>>
     \/ ~isBlocking[e] /\ freeEvent(e)
  /\ UNCHANGED <<ring, manager, listeners, posting, listnCntr, handler, crashed>>

-----------------------------------------------------------------------------
(* handler functions, in thread t *)

\* em_removeListener, called by the handler for itself.
HandlerRemoves(t) ==
  /\ pc[t] = "remove"
  /\ removeListener(t, key[EventOf(t)], handler[t])
  /\ pc' = [pc EXCEPT ![t] = "handler"]
  /\ UNCHANGED <<ring, manager, created, listenerListLock, events, posting, listnCntr, handler, crashed>>

\* Back to the loop of em_handleOneEvent, or to the end of
\* em_handleOneListenerHandlerFunc.
HandlerReturns(t) ==
  /\ pc[t] = "return" \/ (pc[t] = "handler" /\ ~WillRepost(t))
  /\ handler' = [handler EXCEPT ![t] = NULL]
  /\ \/ /\ t \in Event
        /\ pc' = [pc EXCEPT ![t] = "loop"]
        /\ listnCntr' = [listnCntr EXCEPT ![t] = @ + 1]
     \/ /\ t \in Worker
        /\ pc' = [pc EXCEPT ![t] = "none"]
        /\ UNCHANGED listnCntr
  /\ UNCHANGED <<ring, manager, listeners, events, posting, crashed>>

-----------------------------------------------------------------------------
MainLoop == MainTake \/ MainAdvance \/ MainFork

InPost(t) == PostInsert(t) \/ PostSemPost(t) \/ PostSemWait(t)

Dispatch(e) ==
  \/ Find(e) \/ LockList(e) \/ LoopCall(e) \/ LoopFork(e) \/ LoopEnd(e) \/ JoinAll(e)
  \/ finishedWithEvent(e)

Handler(t) == HandlerRemoves(t) \/ PostCheck(t) \/ HandlerReturns(t)

Next ==
  /\ crashed = "no"
  /\ \/ Startup \/ Shutdown \/ MainLoop
     \/ \E t \in Thread : InPost(t)
     \/ \E c \in Client : PostCheck(c)
     \/ \E c \in Client, k \in Key, l \in Listener : AddListener(c, k, l) \/ RemoveListener(c, k, l)
     \/ \E e \in Event : Dispatch(e)
     \/ \E t \in Event \cup Worker : Handler(t)

Spec == Init /\ [][Next]_vars

\* Threads run while they are not blocked, and handlers return if what they call
\* does.  Nobody has to post, add or remove.
FairSpec ==
  /\ Spec
  /\ WF_vars(crashed = "no" /\ MainLoop)
  /\ \A t \in Thread : WF_vars(crashed = "no" /\ InPost(t))
  /\ \A e \in Event : WF_vars(crashed = "no" /\ Dispatch(e))
  /\ \A t \in Event \cup Worker : WF_vars(crashed = "no" /\ Handler(t))

-----------------------------------------------------------------------------
(* Properties *)

Place == {"client", "none", "insert", "semPost", "semWait", "find", "lock", "loop", "join", "finish",
          "remove", "handler", "return"}

\* Types; a semaphore of an event is posted at most once.
TypeOK ==
  /\ {frontEvent, backEvent} \subseteq 0..(MaxEvents - 1)
  /\ eventQueue \in [0..(MaxEvents - 1) -> Event \cup {NULL}]
  /\ eventsInQueue \in Nat
  /\ eventManagerThread \in BOOLEAN
  /\ mainLoop \in {"down", "wait", "took", "fork"} /\ taken \in Event \cup {NULL}
  /\ created \subseteq Key
  /\ listenerEntryList \in [Key -> [Slot -> Listener \cup {NULL}]]
  /\ listenerListLock \in [Key -> Event \cup {NULL}]
  /\ allocated \subseteq Event /\ key \in [Event -> Key \cup {NULL}]
  /\ isBlocking \in [Event -> BOOLEAN] /\ nested \in [Event -> BOOLEAN]
  /\ semaphore \in [Event -> {0, 1}]
  /\ pc \in [Thread -> Place] /\ posting \in [Thread -> Event \cup {NULL}]
  /\ listnCntr \in [Event -> 0..MaxListeners]
  /\ handler \in [Thread -> Listener \cup {NULL}]

Pending == (backEvent - frontEvent) % MaxEvents

\* Everything has its type, and the semaphore and the two indices, changed at
\* different moments by the posters and the main loop, agree on the number of
\* events; so the assert that the queue is not empty after the wait holds, and
\* the event that the main loop has read without the lock is the one it
\* removes.
RingSound ==
  /\ TypeOK
  /\ mainLoop # "down" =>
       Pending = eventsInQueue + Cardinality({t \in Thread : pc[t] = "semPost"})
                   + (IF mainLoop = "took" THEN 1 ELSE 0)
  /\ mainLoop = "took" => frontEvent # backEvent /\ taken = eventQueue[frontEvent]

Ring == INSTANCE ElementFifo WITH
  Element   <- Event,
  elements  <- [n \in 1..Pending |-> eventQueue[(frontEvent + n - 1) % MaxEvents]],
  destroyed <- FALSE

\* The ring is a FIFO queue of events: none is lost, overwritten or taken twice.
ImplementsFifo == Ring!Spec

\* event.c: "if frontEvent == backEvent then the queue is empty".
EqualMeansEmpty ==
  frontEvent = backEvent => eventsInQueue = 0 /\ \A t \in Thread : pc[t] # "semPost"

\* No thread works for an event that has been freed: its dispatching thread, the
\* listener threads it started, the main loop or its poster.
NoUseAfterFree ==
  /\ \A t \in Event \cup Worker : pc[t] # "none" => EventOf(t) \in allocated
  /\ taken # NULL => taken \in allocated
  /\ \A t \in Thread : pc[t] = "semWait" => posting[t] \in allocated

\* event.h: a blocking em_postEvent "will not return until all listeners have been
\* called and have returned": when the poster is told (and when an event is
\* freed), no thread of the event is left.
PostedWhenAllReturned ==
  \A e \in Event :
    (pc[e] = "finish" \/ semaphore[e] > 0) => \A i \in Slot : pc[<<e, i>>] = "none"

\* A listener without a thread of its own is not being called after another
\* thread's em_removeListener for it has returned.
NotCalledAfterRemove ==
  \A e \in Event :
    handler[e] # NULL /\ (handler[e] \in OneShot => pc[e] = "remove")
      => listenerEntryList[key[e]][listnCntr[e]] = handler[e]

\* A blocking em_postEvent returns, also one made by a handler for an event of the
\* same kind, if handlers that block have threads of their own, as the comment
\* in em_handleOneEvent asks, and unless the manager is shut down or a failed
\* assert ends the program.
BlockingPostReturns ==
  \A t \in Thread :
    (pc[t] = "semWait") ~> (pc[t] # "semWait" \/ mainLoop = "down" \/ crashed # "no")

\* assert( eventManagerThread == NULL ) in em_startup.
StartupAssertHolds == crashed # "startup"

(* The life of an event of event.c: it is not used after it is freed, and  *)
(* it is finished, for a blocking post too, when all its listeners are.    *)
EventsFreedInTime == NoUseAfterFree /\ PostedWhenAllReturned
=============================================================================
