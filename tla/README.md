# A TLA+ model of VoxiUtil

VoxiUtil is a C library of building blocks for multi-threaded programs: a
recursive mutex with condition waits, queues, a thread pool, an event manager and
a remote procedure call protocol over sockets, beside containers and wrappers of
the C library. This directory holds TLA+ modules that model the parts where
threads meet and the containers below them, TLC configurations that check them on small instances, and proofs,
checked by TLAPS, that they are correct for any number of threads and any size of their
buffers, but for what section 4 lists as model-checked only. `PROJECT.json` lists the
components, the runs, the source lines each definition stands for, the hazards
that the properties are meant for, the mutants that show that each property can
be broken, and the findings.

Paths below are relative to the repository (`src/threading.c` is listed as
`src/src/threading.c` in `PROJECT.json`). The library has no unit tests; what it
promises stands in its headers, comments and asserts.

## 1. The system

### Components with behaviour of their own

| Component | State | Operations | Hard because |
|---|---|---|---|
| VoxiMutex, `src/threading.c` | a binary semaphore, a pthread mutex, `count`, `thread`, `lastLockFrom` | lock, unlock (plain and `_debug`), condition wait, timed wait | two locks taken in two orders; a wait gives both up and restores the depth |
| Queue, `src/queue.c` | doubly linked list, mutex, semaphore that counts elements | push, poll, pop, waitFor (timeout), destroy | mutex and semaphore change at different times; destroy against late callers |
| ByteQueue, `src/byteQueueC.c` | ring buffer, `isFull`, end-of-stream flags, mutex, condition | write, writeEndOfStream, writeStartOfStream, read | ring at its limits, one condition for three kinds of waiting |
| ThreadPool, `src/threadpool.c` | list of available threads, list of threads in use, per thread a function, a result, a join state | runThread, join, the threads' main loop, destroy | handing over of a function, of a result, of the thread itself, and the end of all that |
| Event manager, `src/event.c` | ring of events, semaphore, listener lists in a hash table | startup, shutdown, post (blocking or not), add and remove listener, main loop, dispatch | posters, main loop, dispatch threads and handlers share events; handlers post and remove |
| Text RPC, `src/textRPC.c` | per connection: protocol state and version, table of outstanding calls, thread pool | create on both sides, negotiation, call, handling of messages, loss of the connection | calls in both directions over one socket, answers out of order, connections that break |
| Sockets, `src/sock.c` | per end of a connection: socket, handler, the application's data, a reading thread; a server thread | connect, create server, accept, send, read lines, disconnect | input before the application knows the connection; short writes; the end of file |
| Timer, `src/timer.c` | doubly linked list of events by time, `listLock`, the time | startup, shutdown, add (one-shot, repetitive, random), cancel, sleep, tick | handlers run in the tick with the lock held or in threads of their own, and put their event back (not in the library build) |
| Memory manager, `src/memory.c` | blocks with headers, free list, mutex | create, allocate, free | a header is written outside the mutex that protects the list it is in |
| Vector, `src/vector.c` | growing array, recursive lock, reference count with a lock of its own | append, get, set, remove, lock, references | some functions take the lock and some trust their caller |
| Logging, `src/logging.c` | per destination one or two open files, the date, a mutex | create, log, rotate | the mutex is given up while a line is formatted |
| Hash table, `src/hash.c`; word map, `src/wordMap.c` | chains, per cell a list of cursors; two tables, each of which takes an entry or drops it | add, find, delete, cursors; save and load | two indices, searched each with its own key; cursors over a table that changes |
| Circular buffer, `src/circularBuffer.c` | ring over a Vector | push, popTail, clear, destroy | the full ring drops, and may own, the oldest |
| ID table, `src/idTable.c` | array with the list of its free slots in it | add, put at an index, remove, grow, save, load | relinking in the middle of the list; two ways to address a slot |
| Bag, `src/bag.c`; string buffer, `src/strbuf.c`; binary tree, `src/bt.c` | array; characters with room left; nodes and a cursor | add, remove, filter, iterate; append, quote, grow; add, find, remove, traverse | removal during a traversal; numbers that must agree with an allocation; links that a removal leaves |
| State machine, `src/stateMachine.c` | definition with classes and states, counts, machines | create and destroy each, run, set next state, immediate exit | functions and other threads change the machine that runs |

The rest is formatting, file and socket input and output, or arithmetic without
state that changes: errors, shared libraries, drivers, TCP and TAN clients,
licences, paths, time, geometry, checksums, portability.

### How they interact

* The VoxiMutex protects the lists and join states of the thread pool, and the
  ring and the listener lists of the event manager. Queue, ByteQueue and Text RPC use
  plain pthread mutexes.
* The reading thread of a socket calls `connection_sock_handler` of Text RPC, which
  starts a thread of the connection's ThreadPool for each call that comes in and
  for the callbacks that tell the application of a new or a lost connection.
* Text RPC keeps its outstanding calls in a hash table that it does not lock.
* A word map is two hash tables that are given the same entries, a circular buffer sits on a vector, a
  state machine definition keeps its parts in bags, a logger its files in a hash table.
* The event manager starts a thread per event, and one more for each listener
  that asks for it; handlers may post events and add or remove listeners.

### What makes them correct

* VoxiMutex: exclusion, also around condition waits; recursion depth kept; the asserts
  of the code; no lost wakeup; a lock that can be had is got.
* Queue: first in, first out, nothing lost or delivered twice, the list valid; pop after a
  successful poll returns; nobody uses a freed queue.
* ByteQueue: the reader gets a subsequence of what was written (a full ring drops bytes),
  streams are not mixed, nobody sleeps in vain.
* ThreadPool: every accepted function is executed once, its joiner gets its result,
  the lists are consistent, the pool is freed last.
* Event manager: events come out in the order they went in; an event is freed once, when the last
  thread has finished with it; a blocking post returns after all listeners; a removed
  listener is not called.
* Text RPC: an answer goes to the call it answers; calls are executed at most once, and while the
  connection lasts they return; both sides agree on a version.
* Sockets: the handler gets every line, in order, and none before the application knows the connection (but see `MessageIsNew` in section 3).
* Timer: the list is ordered and complete; whoever sleeps wakes up.
* Memory manager, vector: no block is given to two threads, no element lost, nothing used after it is freed.
* Logging: no line is lost while files are rotated and removed.
* Containers: each behaves as the set, map or sequence it stands for (`Dictionary`, `IdMap`,
  `RecentItems`), and its links and counts agree. Where the code falls short of that (leaks, writes past an allocation, asserts that fail,
  section 3) the properties say how far it does, and what still holds.
* State machine: counts guard destruction; an immediate exit is immediate.

## 2. Modules

`Monitor`, `ElementFifo`, `ByteStream`, `Dictionary`, `IdMap` and `RecentItems` are abstract specifications; each
`...MC` module only adds symmetry or model values for TLC.

| Module | Models | Built on |
|---|---|---|
| `Monitor` | what a VoxiMutex with a condition variable promises | |
| `VoxiMutex` | `threading_mutex_*`, `threading_cond_*` | implements `Monitor` |
| `VoxiMutexProofs`, `QueueProofs`, `ByteQueueProofs`, `ThreadPoolProofs`, `EventManagerProofs`, `TextRPCProofs`, `ContainerProofs`, `LibraryProofs` | theorems about the module they are named after; `EventManagerProofs` about both event managers, `EventManager` and `Timer`; `ContainerProofs` and `LibraryProofs` about `LibraryMC` (section 4) | |
| `ElementFifo` | a queue of elements in the order they were put in | |
| `Queue` | `queue.c` | implements `ElementFifo` |
| `ByteStream` | bytes, in order, with losses only at the full queue, in separate streams | |
| `ByteQueue` | `byteQueueC.c` | implements `ByteStream` |
| `ThreadPool` | `threadpool.c` | takes VoxiMutexes as monitors |
| `EventManager` | `event.c` | implements `ElementFifo` while the ring does not overflow; VoxiMutexes as monitors |
| `TextRPC` | `textRPC.c` and the parts of `sock.c` it uses | dispatch threads as `ThreadPool` gives them |
| `Sock` | `sock.c`, `file_readLine` | threads as `ThreadPool` gives them |
| `Timer` | `timer.c` | |
| `Hash` | `hash.c`: tables and cursors as values | |
| `WordMap` | `wordMap.c` | two tables of `Hash`; implements `Dictionary` |
| `Vector` | `vector.c` | VoxiMutex as a monitor |
| `CircularBuffer` | `circularBuffer.c` | extends `Vector`; implements `RecentItems` |
| `Bag`, `StrBuf`, `BinaryTree` | `bag.c`, `strbuf.c`, `bt.c` | |
| `IDTable` | `idTable.c` | implements `IdMap` |
| `MemoryManager` | `memory.c` | |
| `Logging` | `logging.c` | |
| `StateMachine` | `stateMachine.c` | |
| `LibraryMC` | one behaviour for each of the parts that stand by themselves | extends `WordMap` ... `Sock` |

**VoxiMutex.** Variables are the fields of `sVoxiMutex` and, per thread, a program
counter and the locals of the function it is in. Each action is one
blocking call (`sem_wait`, `pthread_mutex_lock`, `pthread_cond_wait`) or the
code between two of them. `returned` records, per thread, what its open lock calls
returned, because the caller has to pass it to `threading_mutex_unlock_debug`. A wait ends by
a signal, a broadcast, a timeout or spuriously. `mutex->thread` starts with any
value, because `threading_mutex_init` does not set it.

**Queue.** The list is modelled with its links (`oldest`, `newest`,
`newer`), entry by entry, so that a wrong link is visible. An action is
a semaphore operation, a lock operation or the code under the lock. Failure of
`malloc` is the case that no `Entry` is left. Clients keep to what the header asks
of them: nobody starts a call on a freed queue, no reader starts one while a destroy is under
way, and destroy is called when no reader is inside and either all elements have been
popped (a producer may still be inside its last push) or, with `EarlyDestroy`, the queue
is not empty, which the code refuses.

**ByteQueue.** One writer, one reader, one turn of a copy loop per step. Bytes
carry the parity of their stream and a number, so that a lost, repeated or misplaced byte
shows; `Period` bounds the numbers and `MaxSpurious` the spurious wakeups.

**ThreadPool.** Both linked lists with their links; `Attributes`, the kinds of pool (detached or
not) that a run starts from; per worker the main loop; callers
that run one function and join it; an owner that may destroy the pool, according
to `DestroyWhen` never, when the callers are through, or at any moment. The asserts
and the call of a NULL function end the process (`crashed`).

**EventManager.** The ring, its semaphore, the main loop (which may be cancelled by
`em_shutdown` where it waits), a dispatching thread per event, a listener thread per
event and slot. Handlers may post a blocking event (`Reposts`) or remove themselves
(`OneShot`) while `listenerListLock` is held by their dispatcher.

**TextRPC.** One connection and both ends. Messages are records in a channel for each
direction; per side a reading thread; per incoming call a worker. `Crash` is a failed
assert, which ends the process of one side and with it the connection.

**Timer.** The list with its pointers; times relative to the present one, so that time runs
without bound; a client that adds and cancels and one that sleeps; handlers in the tick or in a thread of
the event, which may ask to be called again. Where the code has undefined behaviour
(`TimerUndefined`: an unlocked insertion that meets somebody in the list, a cancelled event that was
triggered meanwhile) a behaviour ends; `InsertIsLocked` states what the comment at timer.c:623 asks for.

**Sock.** A connection has two ends; each write is a piece, a line or, after a short write, the beginning of
one; the reading thread puts pieces together to lines as `fgets` does (`FirstLine`). Reads and the handler's calls are one
step. `got` has every call of the handler, also the one at the end of the file for which `file_readLine` has read nothing and `buffer` still
holds what was read before. The kernel's queue of connections not accepted yet is `sockPending`.

**Hash, WordMap.** A table is a value with its chains; cursors hang in lists at the cells. Any entry may be added: each table drops
it if it has the key already, so two tables may come to differ (`clashed`), and `Dictionary` has an index of its own for each. Callers delete what
they find by a key, and no entry that a cursor of theirs is at; of the other table that may free the cell of another entry. The model ends
where an assert fails (`wordMapState`), where a cell or a cursor that was freed is written to (`dangling`), and where a cursor that others have joined in front of
leaves a list as its first and so cuts it short (`bypassed`).

**Vector, MemoryManager, Logging.** Threads, with a step for each section between lock operations.

**StrBuf.** The numbers of a buffer, and for each write where it ends: `beyond` is by how much one has ended past the allocation of its
time, `uncounted` how many bytes of one `bufferRemaining` does not count. A behaviour goes on after an overrun, as a program does whose next
bytes belong to nobody.

**IDTable.** `idtPointer` is the size of a pointer in the build. With eight bytes `table[i]` and `ELEMENT(table, i)` are different bytes for `i > 0`
(`SameSlot`); an assertion that looks at the wrong ones holds or fails, and a value taken from there, or from slot -1 of a full or an empty table, is undefined. The model stops in
these cases and says in `idtState` why. Files have the first line that `idt_save` writes or the one that `idt_load2` asks for (`SavedCookie`, `Cookie`).

**BinaryTree.** A removed node stays in the links, which after two removals can form a circle; a call that goes round in one ends the model (`NeverReturns`).

**CircularBuffer, Bag, IDTable, StrBuf, BinaryTree, StateMachine.** No locks, so a function is one step;
a state machine's functions are steps of their own, because they and other threads act in between. History variables
record what was freed, what iterators have met and how many copies of each element a bag was given and not taken.

### Abstractions

* A VoxiMutex is explicit only where something blocks while it is held
  (`threadListMutex`, `listenerListLock`); elsewhere the section it protects is one step.
  `ImplementsMonitor`, proved for VoxiMutex, justifies that.
* Failures of pthread calls that can only fail for wrong arguments are left out.
* `malloc` and `realloc` succeed in the string buffer and in the containers without locks.
* The texts of calls and results, log output and debugging output are left out.
* TextRPC takes the operations on its hash table as atomic. Call ids in progress differ
  by less than the table's size, so they meet only in the counters of the table.

## 3. Runs

`cd` to this directory, then `tlc -config <cfg> <module>`.

### Runs that pass

| Run | Instance | Properties |
|---|---|---|
| `voximutex` | 2 threads, depth 3, fair | `MutualExclusion`, `AssertionsHold`, `NoLostWakeup`, `CountIsDepth`, `ImplementsMonitor`, `LockProgress` |
| `queue` | 2 producers, 2 pushes each, 2 entries, 2 readers, destroy also of a non-empty queue, fair | `QueueSound`, `NobodyInsideWhenFreed`, `ImplementsFifo`, `PolledPopReturns` |
| `bytequeue` | ring of 3, requests up to 4, bytes modulo 3, one spurious wakeup, fair | `ByteQueueSound`, `OneStreamPerRead`, `ImplementsByteStream`, `StreamsProgress` |
| `threadpool_safety` | 2 callers, 2 threads, 1 of them made at the start, joinable or detached, spurious wakeups, destroy at any time | `PoolSound`, `PoolFreedAfterThreads` |
| `threadpool_live` | the same without spurious wakeups and destroy, fair | `NothingCarriedOver`, `TasksServed` |
| `events_safety` | 2 clients, 2 events, ring of 3, 2 listeners (one with a thread of its own, one that posts and removes itself), thread creation may fail, shutdown | `EventsFreedInTime`, `NotCalledAfterRemove`, `RingSound`, `ImplementsFifo` |
| `events_live` | 1 client, 2 events, a listener with a thread of its own that posts, one that removes itself, thread creation may fail, fair | `BlockingPostReturns` |
| `textrpc` | 1 caller a side, 2 calls a side, callbacks, different versions, fair | `NoCallDropped`, `AnswerIsOwn`, `CallsTracked`, `CallReturns` |
| `textrpc_break` | 1 caller a side, lost connections, spurious wakeups | `VersionsAgree`, `ExecutedOnce` |
| `timer` | 3 events, a client that adds and cancels, one that sleeps; one-shot, repetitive and random events, with and without threads; shutdown; fair | `TimerListSound`, `SleepersWake` |
| `library` | one part of the library in each behaviour, with the bounds of `Library.cfg` | `SearchedSound`, `ImplementsDictionary`, `SharedSound`, `SockSound`, `LogKept`, `CircImplementsRecentItems`, `IdtImplementsIdMap`, `StateMachineSound`, `ContainersSound` |

Each property is stated in words above its definition. Several are conjunctions of parts that are
stated separately in their module: `QueueSound` (types, list, what pop finds), `ByteQueueSound` (ring, nobody sleeps in
vain), `StreamsProgress` (the end of a stream is reported, a new one can start), `PoolSound` (both lists, asserts of the main loop),
`NothingCarriedOver` (available threads, results of joins), `TasksServed` (functions are run, threads come back),
`EventsFreedInTime`, `CallsTracked`, `SearchedSound` (`CursorsSound`, `TraversalComplete`, `BtSound`), `SharedSound`
(`VectorShared`, `MemBlocksDisjoint`), `SockSound` (data before input; all lines, and at the end of the file at most once more the last), `StateMachineSound`, `ContainersSound`
(`TablesAgree`, `BagSound`, `CircOwnership`, `IdtFreeListSound`, `StrBufSound`). `PROJECT.json` gives for each property a mutant: a definition with a
plausible mistake in it, under which TLC finds the property violated. The modules hold further mutants
(`Mut_...`), for other parts of a conjunction.

### Bounds, and why they are enough

* *Threads.* Two threads of a mutex are an owner or a waiter and one that contends;
  three locks deep distinguishes the first and the last unlock from the others. The
  invariants and the refinement of that run are proved for any number of threads (section 4).
  Two producers and two readers give every pair of operations of a queue. Two
  callers and two pool threads give lists with a first and a last element, with
  removals from either end.
* *Rings.* Requests longer than the ring (4 for 3) fill it, wrap it, drop
  bytes and split a read. With two events and a ring of three slots the event manager wraps
  its indices and fails its assert on a full ring (`crashed`), without the overflow of `events_full`.
* *Calls.* Two calls a side, with callbacks, give answers in the wrong order, a
  call made while another is being handled, and nested calls in both directions.
* *Timer.* Three events give a first, a middle and a last one of the list; intervals of one and two ticks
  give events that are due at once, late, or put back before or behind others.
* *Library.* Capacities and increments are as small as the code allows, so that every container grows, wraps or
  fills: hash tables of two chains, two names and two numbers, which make four entries with every way of sharing a key, rings of three, a bag that starts at no
  capacity, an ID table of two slots that doubles, in builds of both sizes of pointers, a memory manager of three blocks, string buffers of 1, 2 and 4 that
  append 1 and 5 with every mixture of plain, quoted and negative characters, four values in a tree and two removals (`BtMaxRemovals`), which is what a circle takes, two days of retention over five days. Two connections and two writes show gluing after a
  short write, input that precedes the acceptance, and the second hand-over at the end of the file. Three cursors on a map with one table (`MCCursors`), so that a list has a middle, and two on one with both: on one table each.
  Connections are interchangeable (`MCSymmetry`).
* A deadlock is an error unless the configuration says otherwise, which it does where
  the bounded clients run out of work, or where the system is built to stop (shutdown, an
  assert that ends the process, a lost connection).

### Fairness

Weak fairness, per thread, of the steps inside the library's functions: a thread that can
run does so in the end (POSIX threads on a preemptive scheduler), and called functions and handlers
return. Nothing is assumed of clients (they need not call anything), of timeouts, signals or
spurious wakeups, nor of the order in which semaphores and mutexes serve
their waiters; `LockProgress` therefore says that *some* thread gets the lock.

The timer's tick needs more: strong fairness of the tick while it is outside or waits for `listLock` (the sound device
calls it again and again, and a lock that is free again and again is got in the end; clients hold it for a few instructions), and
weak fairness for whoever holds the lock or runs a handler. `SleepersWake` speaks of a manager that is neither shut down nor in an undefined
state. The run `library` checks safety only.

### The run that ends in a violation

`events_full` checks what event.c:191 says, that equal indices mean an empty ring: the check for a free slot is made
outside the lock, and two posters overflow the ring. The exact lines and quotations are in `PROJECT.json`, "findings".

### Further disagreements met while modelling

The modules also state the following, which does not hold either: added to a
configuration of the module, with the constant in the last column, each is
refuted by TLC in a few seconds. They have no run of their own.

| Definition | What it says, and what the code does | Needs |
|---|---|---|
| `Queue!PopReturns` | queue.h: pop returns an error if there is no element; it sleeps on the semaphore | fairness |
| `Queue!AvailableElementCanBePopped` | queue.h: a queue that is not empty is not destroyed; the refusal keeps the mutex locked, and the queue is unusable | `EarlyDestroy`, fairness |
| `ThreadPool!ShutdownEndsRunningThreads` | threadpool.c:403: a thread in use ends after its function; destroy joins it (:210) while it holds the list mutex that the thread needs | `DestroyWhen = "any"`, fairness |
| `ThreadPool!DestroyReturns` | destroy signals the threads and joins them; the signal can come before the wait, which has no test for the shutdown | `DestroyWhen = "idle"`, fairness |
| `ThreadPool!AcceptedFunctionIsCalled` | runThread has reported success; the thread sees the shutdown first and never calls the function | `DestroyWhen = "any"`, fairness |
| `ThreadPool!UnjoinedThreadNotFreed` | threadpool.h on join after destroy; destroy frees threads that are still to be joined | `DestroyWhen = "any"` |
| `ThreadPool!WokenWithFunction`, `ThreadPool!JoinAssertHolds` | the comment and the assert at the two waits, which are not loops | `Spurious` |
| `EventManager!StartupAssertHolds` | the manager may be shut down, and started; startup asserts on a variable that shutdown leaves set | `MayShutdown` |
| `TextRPC!ClientCreateReturns` | textRPC.c:504: create waits until the negotiation is over; the broadcast can precede the wait (:955) | fairness |
| `TextRPC!LostCallReturns` | a call returns an error if it fails; a lost connection wakes no caller | `MayBreak`, a caller on the server's side, fairness |
| `TextRPC!WokenAfterReturn` | the wait ends with the answer; the wait is not a loop | `SpuriousWakeups` |
| `TextRPC!NegotiateAssertHolds` | the assert on the send; a client that goes away ends the server | `MayBreak` |
| `TextRPC!ClosedByServerOnly` | the closed callback is the server's; it is called on the client's side too, which has no server | `MayBreak` |
| `TextRPC!SocketInitialised` | the handler uses the stored socket; the reading thread runs before it is stored | |
| `Timer!InsertIsLocked` | timer.c:623: the list is locked during an insertion; an event with a thread of its own is put back without the lock (:305) | |
| `Sock!DisconnectIsLast` | sock.c:388: the reading thread should be ended; sock_disconnect frees the connection under it | |
| `Sock!MessageIsNew` | sock.h:42: a line has been received; at the end of file errno may be zero, and the handler gets the last line, or a comment, again | |
| `WordMap!CursorsListed` | hash.c:76: each cell has the list of its cursors; removing one from the middle clears `prevCursor` before it hands it on (:564, :571), and when the cursor behind it leaves, the list loses the one in front | three `HashCursor`s on a map |
| `WordMap!NothingDangles` | callers delete no entry that a cursor of theirs is at; after entries with one key in common a deletion frees the cell of another entry, with its cursors | |
| `WordMap!DeleteAssertHolds` | wordMap.c:469 tells of several entries with one name; after two of them the second deletion fails the assert at :424 (by name, :452) | |
| `BinaryTree!RemovedIsGone` | bt.h: TRUE if the value was deleted; the node stays where it was, its value is found as before, may be removed again and cannot be added | |
| `IDTable!SavedTableLoads` | idTable.h:65 offers save and load for restoring; the cookie is written without a newline (:263), so that the first line that is read is not the cookie, and the assert at :316 fails | |
| `IDTable!PutIsDefined` | a put to an index that is occupied is reported (idTable.c:230); in a full table the search starts at slot -1 (:221), and with pointers of eight bytes a put to the first free slot reads the next one from other bytes (:212) | |
| `IDTable!RemoveFindsSlot` | the assert that the slot is in use (idTable.c:161) looks at other bytes with pointers of eight bytes | `IdtPointerSizes` with 8 |
| `CircularBuffer!DestroyFreesAll` | circularBuffer.c:105: destroy all elements; the walk goes up from the head, the newest (:114), so that a buffer that holds more than one and is not full meets empty slots first, calls `destroyFunc(NULL)` for them, and loses some or all of the older elements | |
| `StrBuf!WritesInBounds` | strbuf.c:12: safe buffers, :51: a byte reserved for the final zero; after growth the allocation is `bufferSize` (:299), and the zero (:159, :177, :248) and the fourth byte of a quoted character (:202), nine for a negative `char`, are written past it | |

The following was met as well. Where a module describes the code by its normal use only, it says so in a guard or an
assumption with a comment.

* *hash.c.* HashAdd takes the change of a cell for atomic (:384), and is used without a lock.
* *wordMap.c.* An entry that both tables drop is leaked. An empty map that was saved cannot be loaded: tables of size 0 fail an assert (`"loadAsserts"` of the module). `wordMap_saveToStringBuffer`
  writes number and name as two strings, `wordMap_createFromString` expects one. A destroyed cursor of a map leaks its hash cursor.
* *circularBuffer.c.* A buffer of size 1 starts with `tailIndex` outside; clear calls a NULL `destroyFunc`.
* *bag.c.* `bagLock` is compiled only with `_POSIX_MUTEX_THREADS`, which nothing defines; `bagAppend(b, b)` does not end; removing an element during an iteration
  hides the one that is moved into its place; a duplicate has no lock and no destroy function.
* *idTable.c.* With pointers of eight bytes `slotSize` (20) is not the size of `sTableSlot` (16), so the functions that use `table[i]` (remove, put, save, getElementAt2) and
  those that use `ELEMENT(table, i)` differ. `idt_save` writes an empty line before the version besides. `idt_load` of a file with no elements makes a table of no slots and writes slot -1.
  `idt_getElementAt2` takes the stored element for a pointer to it (:155).
* *memory.c.* A full manager returns NULL with its mutex locked (:174); it is recursive, so the same thread goes on and others block.
* *vector.c.* vectorClone copies pointers that the original still owns.
* *timer.c.* A repetitive event whose next time has passed is dropped; random events with equal bounds divide by zero; an event triggered while its
  cancellation waits for the lock is freed twice; shutdown frees the events of sleepers, who then sleep for ever.
* *logging.c.* The default logger writes a buffer that is not initialised; the file driver opens `name_Common.ext` and rotates `name.ext`; the date is one
  per logger, so only the destination that is used first on a day is rotated; destroying a logger while a line is formatted frees it under its user.
* *strbuf.c.* popString advances its own pointer, not the caller's.
* *bt.c.* After two removals the links may form a circle, and a search, an addition, a removal or a traversal does not return (`NeverReturns`).
* *stateMachine.c.* An exit asked for before the run starts is forgotten; a state can be destroyed while a machine is in it.
* *sock.c, file.c.* sock_disconnect on a connection of a server would free the server (the field at that place); the port that sock_create_server returns is in network
  order; a line that is empty makes file_readLine look before its buffer; a failed sock_connect leaks the name.

## 4. Proofs

The `...Proofs` modules prove what the runs check on small instances for every value of the constants.
`tlapm <module>.tla` checks one of them.

| Module | Theorem | States |
|---|---|---|
| `VoxiMutexProofs` | `TypeCorrect` | `[]TypeOK`: in particular the semaphore stays binary |
| | `Exclusive`, `NoAssertFails`, `WakeupsKept`, `CountCorrect` | `[]MutualExclusion`, `[]AssertionsHold`, `[]NoLostWakeup`, `[]CountIsDepth` |
| | `Refinement` | `ImplementsMonitor` |
| `QueueProofs` | `Invariance`, `Sound`, `FreedUnused` | `[]Inv`, `[]QueueSound`, `[]NobodyInsideWhenFreed` |
| | `Refinement` | `ImplementsFifo` |
| `ByteQueueProofs` | `Invariance`, `Sound`, `OneStream` | `[]Inv`, `[]ByteQueueSound`, `[]OneStreamPerRead` |
| | `Refinement` | `ImplementsByteStream` |
| `ThreadPoolProofs` | `Invariance`, `Sound`, `FreedAfterThreads` | `[]Inv`, `[]PoolSound`, `[]PoolFreedAfterThreads` |
| | `TaskInvariance`, `NothingCarried`, `NoCrash` | if `Orderly`: `[]TaskInv`, `[]NothingCarriedOver`, `[](WokenWithFunction /\ JoinAssertHolds)` |
| `EventManagerProofs` | `Invariance`, `FreedInTime`, `NotCalledOnceRemoved`, `RingIsSound` | if `EventsFit`: `[]Inv`, `[]EventsFreedInTime`, `[]NotCalledAfterRemove`, `[]RingSound` |
| | `Refinement` | if `EventsFit`: `ImplementsFifo` |
| | `TimerInvariance`, `ListSound` | `[]TimerInv`, `[]TimerListSound` |
| `TextRPCProofs` | `BaseInvariance`, `Versions`, `CallInvariance`, `Once` | `[]BaseInv`, `[]VersionsAgree`, `[]CallInv`, `ExecutedOnce` |
| | `OrderInvariance`, `NoneDropped`, `LifeInvariance`, `OwnAnswer`, `Tracked` | if `~SpuriousWakeups`: `[]OrderInv`, `[]NoCallDropped`, `[]LifeInv`, `[]AnswerIsOwn`, `[]CallsTracked` |
| `ContainerProofs` | `StringBufferStaysSound`, `BagStaysSound` | `[]StrBufSound`, `[]BagSound` |
| | `CircElementsOwned`, `IdtFreeListStaysSound`, `WordTablesAgree` | `[]CircOwnership`, `[]IdtFreeListSound`, `[]TablesAgree` |
| | `ContainersStaySound` | `[]ContainersSound`, the five together |
| | `CircImplements`, `IdtImplements`, `WordMapImplements` | `CircImplementsRecentItems`, `IdtImplementsIdMap`, `ImplementsDictionary` |
| `LibraryProofs` | `LogInvariance`, `LinesKept` | `[]LogInv`, `[]LogKept` |
| | `SharedInvariance`, `SharedStaysSound` | `[]SharedInv`, `[]SharedSound` |
| | `HandlersHaveData`, `SockStaysSound` | `[]DataBeforeInput`, `[]SockSound` |
| | `StateMachinesStaySound` | `StateMachineSound` |

### Assumptions

Every module assumes of its constants what its `...Assumption` says; TLC evaluates them in each run. Beside bounds that are numbers
they say that names are apart: `NULL`, `NoThread` and the like are not among the things they are told from, callers are not
call numbers of `TextRPC`, events not threads; and that memory is finite (`Entry` of `Queue`, `Worker` of `ThreadPool`). The hash values of words are natural numbers
(hash.c takes them, unsigned, modulo the size of the table), a circular buffer has at least two slots, and the largest index of `IDTable` leaves
room for the table it starts with and for one that is loaded.

Three hypotheses appear in theorems, because without them the code does not do what the theorem says (section 3 has the counterexamples):

* `EventsFit`: the events that can be posted at a time are fewer than the slots of the ring. `em_postEvent` looks for a free slot
  without the lock; the run `events_full` overflows the ring.
* `~SpuriousWakeups` (TextRPC): a condition wait ends by a broadcast only. The waits of textRPC.c are not in loops.
* `Orderly` (ThreadPool), `~Spurious /\ DestroyWhen # "any"`: the same for threadpool.c, and the pool is not destroyed while callers
  use it. The lists and the order of freeing do not need it.

### The arguments

None of the invariants that the runs check is inductive: each speaks of what a client sees, and depends on the locks, links and program counters
inside. Each module defines the strengthening `Inv` as a conjunction of named parts, has lemmas about the operators of its model, one lemma per action that says that it keeps
`Inv`, and derives the theorems from `Inv`.

The parts of the library compute with recursive functions over numbers and over the positions of sequences. Two lemmas at the head of `ContainerProofs` stand for induction: `Climb`, that a set of
numbers up to n which holds 0 and with each number the next holds all of them, and `Recursion`, that a recursion over 0..n has a solution. With `Recursion` each recursive function of the model is shown
to satisfy its own definition, and with `Climb` what it computes is shown position by position.

*VoxiMutex.* `SemInv`: at most one thread is between a `sem_wait` and its `sem_post`, and then the
semaphore is 0. `MutexInv`: a thread that is in, entering after it has won the pthread mutex, or leaving
before it gives it back, owns the pthread mutex, which makes all of them the same thread. `DepthInv`: what the program counter says about the number
of open lock calls, and that a waiting thread's `oldCount` is that number. `CountInv`: `count` is positive exactly while somebody
holds the lock, and then is the depth of the thread in `thread`. `WhereInv`: `lastLockFrom` is NULL while `count` is 0, so the first open
lock call of each thread was told NULL; that is the assert at the last unlock. `Refinement` maps the holder to `thread` while `count` is positive, and a waiter that has given up
the semaphore to a thread that waits already: `NoLostWakeup` is why that is right.

*Queue.* There is a sequence `s` such that `oldest`, `newest` and the links are those of its entries (`ListIs`), no thread holds one of them
privately (`EntryInv`), and (`CountInv`) its length is the semaphore plus the readers that have passed it plus the pushes that have not posted
yet; a second equation counts what was accepted and popped. The recursive function of the refinement mapping is characterised by the function
`s` itself, with the least index where they could differ.

*ByteQueue.* `FullInv` ties indices and `isFull` to what was written and read, `WriterInv` and `ReaderInv` say what
holds at each place of the two loops, `SleepInv` what a sleeper waits for, `StreamInv` which bytes belong to which stream.

*ThreadPool.* There are two sequences, of the available threads and of those in use (`ListInv`); every thread that was made and not freed
is in exactly one of them, links and place agree until the shutdown, and a thread that works or was handed out is in use, by one caller (`UseInv`).
Insertion and removal are shown once, for any list. `TaskInv` adds for each thread whether it is idle or whom it serves and how far
it is (running, finished, collected), and for each caller the converse.

*EventManager.* `RingInv`: the indices are the ends of the pending slots. `LifeInv`, `PostInv`: who may use an event at each stage of its
life. `LockInv`, `CountInv`: owners of the locks; the semaphore counts pending events, the count in an event the listener threads that have not finished.

*TextRPC.* Four layers. `BaseInv`: types, the negotiation. `CallInv`: each call number is in one place only; it holds for any break of
the connection. `OrderInv`: what may be in a channel before the negotiation is over. `LifeInv`: the life of each call from the caller's table through the peer's worker back to the waiting caller.

*Timer.* There is a sequence of events that the pointers follow both ways, in the order of times, of exactly the events whose place is the list
(`ListInv`); outside it an event belongs to the tick (`TickInv`) or to one client (`AddInv`), handles are of listed events and no two are equal
(`HandleInv`), and after the shutdown nobody is inside (`StopInv`). The heart is `InsertIs`: in a sorted list the events before a time come first, so that
`insertAnEvent` stops behind the last of them. Undefined behaviour ends a behaviour of the model (`TimerUndefined`), so the theorem speaks of all states before.

*Logging.* `LogInv`: no line is in two files of one log (`OnceIn`); a file that was renamed has a label that is at most the date of the logger, and holds no line younger than
that label (`Filed`); a line that is being formatted is in no file yet and is one thread's (`LogFormatInv`). A rotation happens only when the logger's date is not today's, so no file
has today's label and the rename replaces none; the file it removes has a label a week old, and with it lines that are at least as old.

*Vector.* The references that threads hold, as a set of pairs, are as many as the count (`VecRefInv`), so whoever takes it to zero was the last holder; the lock is a holder's
(`VecLockInv`), so nobody has it then; a thread in an append has it, so the index it read is still the next one; an element is in the vector or destroyed, once (`VecDataInv`).

*Memory manager.* There is a sequence of blocks that `firstFree` and the headers follow, of exactly the blocks that are neither in use nor in the hands of a call (`MemListInv`); a block is in the
hands of one call, which alone writes its header (`MemHandsInv`, `MemUseInv`); a thread at the list has the mutex, and until the manager was full nobody has it otherwise
(`MemMutexInv`). The recursive walk `FreeAt` is characterised as `EntryAt` is for the queue.

*Sockets.* `SockDataInv`: an end whose thread reads has its data, and so has the connection whose thread the server is about to start. `SockLineInv`: what an end was sent is what it has fetched
followed by what is still in its input; what it has fetched ends with the end of a line (`Whole`), so that its lines are those of the whole as far as it goes, and the last of them is in the buffer; a reader that is done has given all lines, and the buffer once more at
most, and the other end is closed; a connection waits to be accepted once, is not the one that is being accepted, and has no reading thread yet (`WaitsOnce`).

*State machines.* `SmInv`: the counts in the definition and in its classes are the numbers of machines and of states that live, the states that a machine has or goes to
are of the definition, and a definition that is destroyed has nothing left. `StateMachineSound` is an action property and follows from `SmInv` one function at a time.

*String buffer.* `GoodBuffer`: what is used and what remains make up the size, neither is negative, the size is within what was allocated, and no write has ended further past it than the bytes it does not count. `strbuf_enlarge` makes the room asked for; for a quoted
string the room is shown at every character, whatever characters are quoted. A write into the room that is counted ends within `bufferSize` plus what is not counted (`PutInRoom`).

*Circular buffer.* `GoodCirc`: the head is `elementCount` slots after the tail, around the end, those slots hold elements, and no element is in two. `CircInv`: what is in a slot was neither freed nor given back, and
no element is freed twice. `CircAccount`: what was ever pushed is in a slot, freed or given back, as long as the buffer exists, and after a destroy whose walk meets all elements. The loop of a clear pops one item after the other (`PopsGo`);
the walk of a destroy is that of the slots from the head (`WalkIs`).

*ID table.* `IdtChain`: there is a sequence of all free slots, each once, that `firstFree` and the links follow to the end. The steps at which the model stops leave the table alone; where a put reads `table[index]` and goes on, it is the slot of the index. The table doubles until an index fits; the new slots are put before the
old free ones. `IdtIds`, the mapping to `IdMap`, is read off the used slots.

*Bag.* `BagInv`: `bagHolds` is the number of positions of the array at which an element is, which is the cardinality of a set of numbers; an iterator has met what is before its place and has still to meet
the rest. Removal moves the last element into the gap (`GapSo`): one copy less.

*Word map.* `GoodTable(ht, f, W)`: the table has as many chains as its size, an entry is in the chain of its key's hash value, a key occurs once, the set of entries is `W` and the count its cardinality. `WordsInv`: the
tables hold sets `N` and `K`, the indices of `Dictionary`, which are equal as long as nothing has clashed. Each operation is shown to do to `N` and `K` what the dictionary does to its indices, whether or not they are equal. Saving lists the main one, each word once (`Listing`), in the order of the chains; loading such a listing into new tables, of other sizes, gives
that set again, and of the other index one entry for each key.

### Only model-checked

* Liveness, which is out of the prover's reach: `LockProgress`, `PolledPopReturns`, `StreamsProgress`, `TasksServed`, `BlockingPostReturns`, `CallReturns`, `SleepersWake`.
* Of the run `library` one property, `SearchedSound`: `CursorsSound` and `TraversalComplete`, about lists of cursors that change hands in the middle, and `BtSound`, which speaks of all paths of a tree: an insertion
  changes the tree at the end of one, and a removal hangs a subtree in two places. This is induction over trees and graphs, which the lemmas on numbers do not give.

## 5. What is not modelled

Within the modelled components: `threading_mutex_destroy`, `threading_init` and
`threading_shutdown` with their counter; `byteQueue_destroy`; the error path of
`threadPool_create`; `textRPCConnection_destroy` (which also destroys the pool that connections of a server share), error paths of the creation of connections,
the ping message, several connections of one server; of `sock.c` the failures of `sock_create_server` and the Windows build; `HashDestroy`, `HashDestroyTable` and
unlocked use of a hash table by several threads; `bt_destroy`, `bt_dup`; `vectorClone`; `bagDestroy`, `bagCrossProd` and the
functions of bags that only read; elements by value in an ID table, and the elements in what `idt_save` writes; the string format of word maps; the destruction of loggers.

Not modelled at all: the C++ twin of the byte queue, errors, file wrappers, shared libraries, TCP and TAN clients, licences,
geometry and checksums, portability code (see `PROJECT.json`, "components").
