------------------------------- MODULE Queue -------------------------------
(***************************************************************************)
(* The queue of queue.c: a linked list under a pthread mutex and a         *)
(* semaphore that counts its elements, posted after the mutex is released  *)
(* and waited for before it is taken.                                      *)
(*                                                                         *)
(* Producer threads push; consumer threads pop, wait with a timeout, poll  *)
(* and destroy.  Each producer pushes MaxPush numbered elements.  A        *)
(* consumer destroys the queue once every pushed element has been popped;  *)
(* with EarlyDestroy it may also try while elements are left.  Consumers   *)
(* agree on that: none starts a call while another destroys the queue.     *)
(***************************************************************************)
EXTENDS Integers, Sequences, FiniteSets

CONSTANTS Producer,
          Consumer,
          Entry,          \* the memory there is for queue entries
          NULL,
          MaxPush,        \* bound: calls of queue_push per producer
          EarlyDestroy    \* may queue_destroy be called on a non-empty queue?

ASSUME QueueAssumption ==
  /\ Producer \cap Consumer = {}
  /\ NULL \notin Producer \cup Consumer \cup Entry
  /\ IsFiniteSet(Entry)
  /\ MaxPush \in Nat
  /\ EarlyDestroy \in BOOLEAN

VARIABLES semaphore,    \* queue->semaphore
          mutex,        \* thread that has queue->mutex, or NULL
          oldest,       \* queue->oldest
          newest,       \* queue->newest
          newer,        \* element->newer, for every entry
          userData,     \* element->userData
          allocated,    \* entries malloc has given out
          freed,        \* has the queue been freed?
          pc,
          element,      \* the local variable element of queue_push and doPop
          calls,        \* how often each producer has called queue_push
          accepted,     \* elements whose queue_push has not reported an error
          polled,       \* consumers whose queue_poll said TRUE, nobody having popped since
          popped        \* how many elements were returned to consumers

list    == <<oldest, newest, newer, userData, allocated>>
clients == <<calls, accepted, polled, popped>>
vars    == <<semaphore, mutex, oldest, newest, newer, userData, allocated, freed,
             pc, element, calls, accepted, polled, popped>>

Thread  == Producer \cup Consumer
Element == Producer \X (1..MaxPush)

\* queue_create
Init ==
  /\ semaphore = 0
  /\ mutex = NULL
  /\ oldest = NULL /\ newest = NULL
  /\ newer = [e \in Entry |-> NULL]
  /\ userData = [e \in Entry |-> NULL]
  /\ allocated = {}
  /\ freed = FALSE
  /\ pc = [t \in Thread |-> "client"]
  /\ element = [t \in Thread |-> NULL]
  /\ calls = [p \in Producer |-> 0]
  /\ accepted = 0
  /\ polled = {}
  /\ popped = 0

Goto(t, from, to) == pc[t] = from /\ pc' = [pc EXCEPT ![t] = to]

Lock(t) == mutex = NULL /\ mutex' = t
Unlock == mutex' = NULL

-----------------------------------------------------------------------------
(* queue_push *)

\* emalloc of the entry, which gets any free piece of memory.
PushAlloc(p) ==
  /\ ~freed
  /\ calls[p] < MaxPush
  /\ Goto(p, "client", "pushLock")
  /\ \E e \in Entry \ allocated :
       /\ allocated' = allocated \cup {e}
       /\ element' = [element EXCEPT ![p] = e]
       /\ userData' = [userData EXCEPT ![e] = <<p, calls[p] + 1>>]
  /\ calls' = [calls EXCEPT ![p] = @ + 1]
  /\ accepted' = accepted + 1
  /\ UNCHANGED <<semaphore, mutex, oldest, newest, newer, freed, polled, popped>>

\* emalloc fails: the error is returned and nothing is queued.
PushNoMemory(p) ==
  /\ ~freed
  /\ calls[p] < MaxPush
  /\ pc[p] = "client"
  /\ allocated = Entry
  /\ calls' = [calls EXCEPT ![p] = @ + 1]
  /\ UNCHANGED <<semaphore, mutex, list, freed, pc, element, accepted, polled, popped>>

PushLock(p) ==
  /\ Goto(p, "pushLock", "pushLink")
  /\ Lock(p)
  /\ UNCHANGED <<semaphore, list, freed, element, clients>>

Mut_PushLinkLosesOldest(p) ==
  LET e == element[p] IN
  /\ Goto(p, "pushLink", "pushUnlock")
  /\ oldest' = e
  /\ newer' = [f \in Entry |-> IF f = e THEN NULL ELSE IF f = newest THEN e ELSE newer[f]]
  /\ newest' = e
  /\ UNCHANGED <<semaphore, mutex, userData, allocated, freed, element, clients>>

PushLink(p) ==
  LET e == element[p] IN
  /\ Goto(p, "pushLink", "pushUnlock")
  /\ oldest' = IF newest = NULL THEN e ELSE oldest
  /\ newer' = [f \in Entry |-> IF f = e THEN NULL ELSE IF f = newest THEN e ELSE newer[f]]
  /\ newest' = e
  /\ UNCHANGED <<semaphore, mutex, userData, allocated, freed, element, clients>>

Mut_PushUnlockPostsToo(p) ==
  /\ Goto(p, "pushUnlock", "pushPost")
  /\ Unlock
  /\ semaphore' = semaphore + 1
  /\ UNCHANGED <<list, freed, element, clients>>

PushUnlock(p) ==
  /\ Goto(p, "pushUnlock", "pushPost")
  /\ Unlock
  /\ UNCHANGED <<semaphore, list, freed, element, clients>>

Mut_PushPostForgotten(p) ==
  /\ Goto(p, "pushPost", "client")
  /\ semaphore' = IF newest = element[p] THEN semaphore + 1 ELSE semaphore
  /\ element' = [element EXCEPT ![p] = NULL]
  /\ UNCHANGED <<mutex, list, freed, clients>>

PushPost(p) ==
  /\ Goto(p, "pushPost", "client")
  /\ semaphore' = semaphore + 1
  /\ element' = [element EXCEPT ![p] = NULL]
  /\ UNCHANGED <<mutex, list, freed, clients>>

-----------------------------------------------------------------------------
(* queue_pop, queue_waitFor, doPop, queue_poll *)

\* The queue is there, and no consumer is about to destroy it.
InUse == ~freed /\ \A c \in Consumer : pc[c] \notin {"destroyLock", "destroyBody"}

CallPop(c) ==
  /\ InUse
  /\ Goto(c, "client", "popSem")
  /\ UNCHANGED <<semaphore, mutex, list, freed, element, clients>>

CallWaitFor(c) ==
  /\ InUse
  /\ Goto(c, "client", "waitSem")
  /\ UNCHANGED <<semaphore, mutex, list, freed, element, clients>>

Mut_PopSemWaitSkipped(c) ==
  /\ pc[c] \in {"popSem", "waitSem"}
  /\ pc' = [pc EXCEPT ![c] = "popLock"]
  /\ semaphore' = IF semaphore > 0 THEN semaphore - 1 ELSE 0
  /\ UNCHANGED <<mutex, list, freed, element, clients>>

Mut_PopSemWaitUnguarded(c) ==
  /\ pc[c] \in {"popSem", "waitSem"}
  /\ pc' = [pc EXCEPT ![c] = "popLock"]
  /\ semaphore' = semaphore - 1
  /\ UNCHANGED <<mutex, list, freed, element, clients>>

PopSemWait(c) ==
  /\ pc[c] \in {"popSem", "waitSem"}
  /\ pc' = [pc EXCEPT ![c] = "popLock"]
  /\ semaphore > 0
  /\ semaphore' = semaphore - 1
  /\ UNCHANGED <<mutex, list, freed, element, clients>>

\* sem_timedwait fails: ETIMEDOUT, or EINTR, which is not retried here.
WaitForFails(c) ==
  /\ Goto(c, "waitSem", "client")
  /\ UNCHANGED <<semaphore, mutex, list, freed, element, clients>>

PopLock(c) ==
  /\ Goto(c, "popLock", "popUnlink")
  /\ Lock(c)
  /\ UNCHANGED <<semaphore, list, freed, element, clients>>

Mut_PopUnlinkKeepsNewest(c) ==
  /\ Goto(c, "popUnlink", "popUnlock")
  /\ oldest # NULL
  /\ element' = [element EXCEPT ![c] = oldest]
  /\ oldest' = newer[oldest]
  /\ UNCHANGED <<semaphore, mutex, newest, newer, userData, allocated, freed, clients>>

PopUnlink(c) ==
  /\ Goto(c, "popUnlink", "popUnlock")
  /\ oldest # NULL                      \* assert( queue->oldest != NULL )
  /\ element' = [element EXCEPT ![c] = oldest]
  /\ oldest' = newer[oldest]
  /\ newest' = IF newer[oldest] = NULL THEN NULL ELSE newest
  /\ polled' = {}
  /\ UNCHANGED <<semaphore, mutex, newer, userData, allocated, freed, calls, accepted, popped>>

PopUnlock(c) ==
  /\ Goto(c, "popUnlock", "popReturn")
  /\ Unlock
  /\ UNCHANGED <<semaphore, list, freed, element, clients>>

\* *result = element->userData; free( element ); return
PopReturn(c) ==
  /\ Goto(c, "popReturn", "client")
  /\ popped' = popped + 1
  /\ allocated' = allocated \ {element[c]}
  /\ element' = [element EXCEPT ![c] = NULL]
  /\ UNCHANGED <<semaphore, mutex, oldest, newest, newer, userData, freed, calls, accepted, polled>>

\* Locks, reads and unlocks: nothing happens in between, so one step.
Poll(c) ==
  /\ InUse
  /\ pc[c] = "client"
  /\ mutex = NULL
  /\ polled' = IF newest # NULL THEN polled \cup {c} ELSE polled \ {c}
  /\ UNCHANGED <<semaphore, mutex, list, freed, pc, element, calls, accepted, popped>>

-----------------------------------------------------------------------------
(* queue_destroy *)

\* The consumers have taken out as many elements as were put in, and the
\* producers have made all their calls.
AllPopped == popped = accepted /\ \A p \in Producer : calls[p] = MaxPush

CallDestroy(c) ==
  /\ InUse /\ \A d \in Consumer : pc[d] = "client"
  /\ AllPopped \/ (EarlyDestroy /\ newest # NULL)
  /\ Goto(c, "client", "destroyLock")
  /\ UNCHANGED <<semaphore, mutex, list, freed, element, clients>>

DestroyLock(c) ==
  /\ Goto(c, "destroyLock", "destroyBody")
  /\ Lock(c)
  /\ UNCHANGED <<semaphore, list, freed, element, clients>>

\* ERR_QUEUE_NOT_EMPTY is returned without unlocking queue->mutex.
DestroyRefused(c) ==
  /\ newest # NULL
  /\ Goto(c, "destroyBody", "client")
  /\ UNCHANGED <<semaphore, mutex, list, freed, element, clients>>

DestroyFree(c) ==
  /\ newest = NULL
  /\ Goto(c, "destroyBody", "client")
  /\ Unlock
  /\ freed' = TRUE
  /\ UNCHANGED <<semaphore, list, element, clients>>

-----------------------------------------------------------------------------
Pushing(p) == PushLock(p) \/ PushLink(p) \/ PushUnlock(p) \/ PushPost(p)

Popping(c) == PopSemWait(c) \/ PopLock(c) \/ PopUnlink(c) \/ PopUnlock(c) \/ PopReturn(c)

Destroying(c) == DestroyLock(c) \/ DestroyRefused(c) \/ DestroyFree(c)

Next ==
  \/ \E p \in Producer : PushAlloc(p) \/ PushNoMemory(p) \/ Pushing(p)
  \/ \E c \in Consumer :
       \/ CallPop(c) \/ CallWaitFor(c) \/ Poll(c) \/ WaitForFails(c)
       \/ Popping(c) \/ CallDestroy(c) \/ Destroying(c)

Spec == Init /\ [][Next]_vars

\* A thread inside a function of queue.c goes on while it is not blocked.  No
\* client has to make a call, and no wait has to fail.
FairSpec ==
  /\ Spec
  /\ \A p \in Producer : WF_vars(Pushing(p))
  /\ \A c \in Consumer : WF_vars(Popping(c)) /\ WF_vars(Destroying(c))

-----------------------------------------------------------------------------
(* Properties *)

Null(S) == S \cup {NULL}

\* Types of the queue's fields and of the locals of its functions.
TypeOK ==
  /\ semaphore \in Nat
  /\ mutex \in Null(Thread)
  /\ oldest \in Null(Entry) /\ newest \in Null(Entry)
  /\ newer \in [Entry -> Null(Entry)]
  /\ userData \in [Entry -> Null(Element)]
  /\ allocated \subseteq Entry
  /\ freed \in BOOLEAN
  /\ element \in [Thread -> Null(Entry)]
  /\ calls \in [Producer -> 0..MaxPush]
  /\ accepted \in Nat
  /\ polled \subseteq Consumer
  /\ popped \in Nat

\* The n-th entry of the list, following newer from oldest; NULL past its end.
EntryAt[n \in 1..(Cardinality(Entry) + 1)] ==
  IF n = 1 THEN oldest
  ELSE IF EntryAt[n - 1] = NULL THEN NULL ELSE newer[EntryAt[n - 1]]

ListLength == Cardinality({n \in 1..(Cardinality(Entry) + 1) : EntryAt[n] # NULL})

\* What validate() asserts each time the list is locked, and more: the list that
\* starts at oldest ends at newest, has no cycle, and consists of live entries no
\* pusher or popper holds privately.
ListValid ==
  /\ ListLength <= Cardinality(Entry)
  /\ newest = IF ListLength = 0 THEN NULL ELSE EntryAt[ListLength]
  /\ \A n \in 1..ListLength :
       /\ EntryAt[n] \in allocated
       /\ \A t \in Thread : pc[t] \in {"pushLock", "pushLink", "popUnlock", "popReturn"}
                              => element[t] # EntryAt[n]

\* The semaphore never runs ahead of the list, in any interleaving of pushes
\* (which post after unlocking) and pops (which wait before locking): whoever got
\* through sem_wait finds an element, so the asserts of doPop hold.
PopFindsElement ==
  /\ ListLength >= semaphore + Cardinality({c \in Consumer : pc[c] \in {"popLock", "popUnlink"}})
  /\ \A c \in Consumer : pc[c] = "popUnlink" => oldest # NULL

\* Readers that have got every element may free the queue although producers
\* touch it (sem_post) after their element has become visible: by then each of
\* them has left queue_push.
NobodyInsideWhenFreed ==
  freed => \A t \in Thread : pc[t] = "client"

Fifo == INSTANCE ElementFifo WITH
  elements  <- [n \in 1..ListLength |-> userData[EntryAt[n]]],
  destroyed <- freed

\* queue.c implements a FIFO queue: push takes effect when the entry is linked,
\* pop when it is unlinked.
ImplementsFifo == Fifo!Spec

\* A refused queue_destroy has left queue->mutex locked.
MutexLost ==
  \E c \in Consumer : mutex = c /\ pc[c] \notin {"popUnlink", "popUnlock", "destroyBody"}

\* queue_poll's TRUE can be relied on while nobody else pops: the pop that follows
\* does not block for good, although the pusher may not have posted the semaphore
\* yet (and unless a refused queue_destroy has kept the mutex).
PolledPopReturns ==
  \A c \in Consumer :
    (c \in polled /\ pc[c] = "popSem") ~> (pc[c] = "client" \/ c \notin polled \/ MutexLost)

\* queue.h, of queue_pop: "Returns error if there is no element to pop".  Then a
\* call of queue_pop always returns.
PopReturns == \A c \in Consumer : (pc[c] = "popSem") ~> (pc[c] = "client")

\* queue.h: "A queue must be empty before it is destroyed", and queue_destroy
\* reports ERR_QUEUE_NOT_EMPTY otherwise.  A caller told so can still take out
\* the elements there are: a pop with an element available returns.
AvailableElementCanBePopped ==
  \A c \in Consumer : (pc[c] = "popSem" /\ semaphore > 0) ~> (pc[c] = "client")

(* What every operation of queue.c leaves behind at each of its steps: the *)
(* types, a valid list that agrees with the semaphore, and an element for  *)
(* whoever has passed it.                                                  *)
QueueSound == TypeOK /\ ListValid /\ PopFindsElement
=============================================================================
