------------------------- MODULE EventManagerProofs -------------------------
(***************************************************************************)
(* Proofs about the two event managers, EventManager and Timer.            *)
(*                                                                         *)
(* EventManager: the ring's check for a free slot is made without the      *)
(* lock, so what the manager promises depends on the number of events that *)
(* exist at a time: the theorems say that if they fit into the ring        *)
(* (EventsFit), nothing is called, freed or told out of turn.              *)
(*                                                                         *)
(* Timer, for any sets of events, clients, times and kinds: the doubly     *)
(* linked list is the sequence of its events, in the order of their times. *)
(* The invariant says that there is such a sequence, and whose each event  *)
(* is that is not in the list.                                             *)
(***************************************************************************)
EXTENDS EventManager, Timer, SequenceTheorems, FiniteSetTheorems, NaturalsInduction, TLAPS

-----------------------------------------------------------------------------
(* The inductive invariant *)

\* The ring is never asked to hold more events than it has room for: one slot
\* stays free, since equal indices mean an empty ring.
EventsFit == IsFiniteSet(Event) /\ Cardinality(Event) < MaxEvents

\* The slots of the ring that hold an event.
SpanOf(f, b) ==
  {j \in 0..(MaxEvents - 1) : IF f <= b THEN f <= j /\ j < b ELSE f <= j \/ j < b}

Span == SpanOf(frontEvent, backEvent)

\* The dispatching and listener threads that run.
Active == {t \in Event \cup Worker : pc[t] # "none"}

\* An event that is filled in and that no thread has begun to dispatch.
Idle(e) ==
  /\ e \in allocated /\ e \notin Active /\ semaphore[e] = 0
  /\ \A i \in Slot : <<e, i>> \notin Active

Posting == {"insert", "semPost", "semWait"}
Calling == Posting \cup {"remove", "handler", "return"}
Looping == Calling \cup {"loop"}

\* Where each kind of thread can be.
PlaceInv ==
  /\ \A c \in Client : pc[c] \in Posting \cup {"client"}
  /\ \A e \in Event : pc[e] \in Looping \cup {"none", "find", "lock", "join", "finish"}
  /\ \A w \in Worker : pc[w] \in Calling \cup {"none"}

\* The events in the ring are different ones, and nobody works for one of them,
\* nor for the one the main loop has removed and not yet given to a thread.
RingInv ==
  /\ \A j \in Span : eventQueue[j] \in Event /\ Idle(eventQueue[j])
  /\ \A i, j \in Span : eventQueue[i] = eventQueue[j] => i = j
  /\ mainLoop = "fork" => taken \in Event /\ Idle(taken) /\ \A j \in Span : eventQueue[j] # taken
  /\ mainLoop = "took" => frontEvent # backEvent /\ taken = eventQueue[frontEvent]
  /\ mainLoop \in {"down", "wait"} => taken = NULL

\* A dispatching thread's event is allocated and not finished, and its listener
\* threads run only between its loop and its join, each for a slot passed.
LifeInv ==
  /\ \A e \in Event : e \in Active => e \in allocated /\ semaphore[e] = 0
  /\ \A e \in Event, i \in Slot :
       <<e, i>> \in Active => pc[e] \in Looping \cup {"join"} /\ i < listnCntr[e]
  /\ \A e \in Event : semaphore[e] = 1 => e \in allocated
  /\ \A e \in allocated : key[e] \in Key

\* An event somebody waits for is blocking, so it is not freed by its
\* dispatching thread, and only one thread waits for it.
PostInv ==
  /\ \A t \in Thread : posting[t] # NULL =>
       pc[t] \in {"semPost", "semWait"} /\ posting[t] \in allocated /\ isBlocking[posting[t]]
  /\ \A t \in Thread : pc[t] = "semWait" => posting[t] # NULL
  /\ \A t, u \in Thread : posting[t] # NULL /\ posting[t] = posting[u] => t = u

\* The list is locked from the start of the loop to its end, so the entry whose
\* function is being called stays where it is.
LockInv ==
  /\ \A e \in Event : pc[e] \in Looping => listenerListLock[key[e]] = e
  /\ \A e \in Event : pc[e] \in Calling => listnCntr[e] \in Slot
  /\ \A e \in Event : handler[e] # NULL => pc[e] \in Calling
  /\ \A e \in Event : pc[e] = "remove" => handler[e] \in OneShot
  /\ NotCalledAfterRemove

SemPosters == {t \in Thread : pc[t] = "semPost"}

\* The semaphore lags behind the indices by the posters that have not posted it
\* yet and the event the main loop is removing; nobody posts to a manager that
\* is down.
CountInv ==
  /\ IsFiniteSet(SemPosters)
  /\ mainLoop # "down" =>
       Pending = eventsInQueue + Cardinality(SemPosters) + (IF mainLoop = "took" THEN 1 ELSE 0)
  /\ mainLoop = "down" => \A t \in Thread : pc[t] \notin {"insert", "semPost"}
  /\ ~eventManagerThread => mainLoop = "down" /\ frontEvent = backEvent /\ eventsInQueue = 0

Inv == TypeOK /\ PlaceInv /\ RingInv /\ LifeInv /\ PostInv /\ LockInv /\ CountInv

-----------------------------------------------------------------------------
(* The ring's arithmetic *)

\* The remainder of a number that is at most one turn away.
LEMMA ModPlain ==
  ASSUME NEW n \in Nat \ {0}, NEW x \in Int, -n <= x, x < 2 * n
  PROVE  x % n = IF x < 0 THEN x + n ELSE IF x < n THEN x ELSE x - n
  OBVIOUS

\* The slot after a slot.
LEMMA AfterPlain ==
  ASSUME NEW i \in 0..(MaxEvents - 1)
  PROVE  /\ After(i) = IF i + 1 = MaxEvents THEN 0 ELSE i + 1
         /\ After(i) \in 0..(MaxEvents - 1)
  <1>1. MaxEvents \in Nat \ {0}
    BY EventManagerAssumption
  <1>2. (i + 1) % MaxEvents = IF i + 1 = MaxEvents THEN 0 ELSE i + 1
    <2>1. PICK x \in Int : x = i + 1
      BY <1>1
    <2>2. -MaxEvents <= x /\ x < 2 * MaxEvents /\ x > 0 /\ x <= MaxEvents
      BY <1>1, <2>1
    <2>3. x % MaxEvents = IF x < 0 THEN x + MaxEvents ELSE IF x < MaxEvents THEN x ELSE x - MaxEvents
      BY <1>1, <2>2, ModPlain
    <2> QED
      BY <1>1, <2>1, <2>2, <2>3
  <1> QED
    BY <1>1, <1>2 DEF After

\* The number of slots from one index to the other, round the ring.
Distance(f, b) == IF f <= b THEN b - f ELSE b - f + MaxEvents

\* The remainder in Pending is the distance from the front index to the back one.
LEMMA DistancePlain ==
  ASSUME NEW f \in 0..(MaxEvents - 1), NEW b \in 0..(MaxEvents - 1)
  PROVE  (b - f) % MaxEvents = Distance(f, b) /\ Distance(f, b) \in 0..(MaxEvents - 1)
  <1>1. MaxEvents \in Nat \ {0}
    BY EventManagerAssumption
  <1>2. b - f \in Int /\ -MaxEvents <= b - f /\ b - f < 2 * MaxEvents
    BY <1>1
  <1>3. (b - f) % MaxEvents = IF b - f < 0 THEN b - f + MaxEvents
                              ELSE IF b - f < MaxEvents THEN b - f ELSE b - f - MaxEvents
    BY <1>1, <1>2, ModPlain
  <1> QED
    BY <1>1, <1>3 DEF Distance

\* Moving the back index adds the slot it leaves.
LEMMA BackMoves ==
  ASSUME NEW f \in 0..(MaxEvents - 1), NEW b \in 0..(MaxEvents - 1), After(b) # f
  PROVE  /\ b \notin SpanOf(f, b)
         /\ SpanOf(f, After(b)) = SpanOf(f, b) \cup {b}
         /\ Distance(f, After(b)) = Distance(f, b) + 1
  <1>1. MaxEvents \in Nat \ {0}
    BY EventManagerAssumption
  <1>2. After(b) = IF b + 1 = MaxEvents THEN 0 ELSE b + 1
    BY AfterPlain
  <1>3. ASSUME NEW j \in 0..(MaxEvents - 1)
        PROVE  j \in SpanOf(f, After(b)) <=> j \in SpanOf(f, b) \/ j = b
    BY <1>1, <1>2, <1>3 DEF SpanOf
  <1>4. SpanOf(f, b) \subseteq 0..(MaxEvents - 1) /\ SpanOf(f, After(b)) \subseteq 0..(MaxEvents - 1)
    BY DEF SpanOf
  <1>5. SpanOf(f, After(b)) = SpanOf(f, b) \cup {b}
    BY <1>3, <1>4, Zenon
  <1> QED
    BY <1>1, <1>2, <1>5 DEF SpanOf, Distance

\* Moving the front index removes the slot it leaves.
LEMMA FrontMoves ==
  ASSUME NEW f \in 0..(MaxEvents - 1), NEW b \in 0..(MaxEvents - 1), f # b
  PROVE  /\ f \in SpanOf(f, b)
         /\ SpanOf(After(f), b) = SpanOf(f, b) \ {f}
         /\ Distance(After(f), b) = Distance(f, b) - 1
  <1>1. MaxEvents \in Nat \ {0}
    BY EventManagerAssumption
  <1>2. After(f) = IF f + 1 = MaxEvents THEN 0 ELSE f + 1
    BY AfterPlain
  <1>3. ASSUME NEW j \in 0..(MaxEvents - 1)
        PROVE  j \in SpanOf(After(f), b) <=> j \in SpanOf(f, b) /\ j # f
    BY <1>1, <1>2, <1>3 DEF SpanOf
  <1>4. SpanOf(f, b) \subseteq 0..(MaxEvents - 1) /\ SpanOf(After(f), b) \subseteq 0..(MaxEvents - 1)
    BY DEF SpanOf
  <1>5. SpanOf(After(f), b) = SpanOf(f, b) \ {f}
    BY <1>3, <1>4, Zenon
  <1> QED
    BY <1>1, <1>2, <1>5 DEF SpanOf, Distance

\* With different events in the slots and one more to put in, the ring is not
\* full: all slots, filled, would hold as many different events as there are slots.
LEMMA RoomLeft ==
  ASSUME EventsFit, TypeOK, RingInv, NEW e \in Event, \A j \in Span : eventQueue[j] # e
  PROVE  After(backEvent) # frontEvent
  <1> SUFFICES ASSUME After(backEvent) = frontEvent
               PROVE  FALSE
    OBVIOUS
  <1>1. MaxEvents \in Nat \ {0} /\ frontEvent \in 0..(MaxEvents - 1) /\ backEvent \in 0..(MaxEvents - 1)
    BY EventManagerAssumption DEF TypeOK
  <1>2. \A j \in 0..(MaxEvents - 1) : j # backEvent => j \in Span
    <2>1. After(backEvent) = IF backEvent + 1 = MaxEvents THEN 0 ELSE backEvent + 1
      BY <1>1, AfterPlain
    <2> QED
      BY <1>1, <2>1 DEF Span, SpanOf
  <1> DEFINE g == [j \in 0..(MaxEvents - 1) |-> IF j = backEvent THEN e ELSE eventQueue[j]]
  <1>3. g \in [0..(MaxEvents - 1) -> Event]
    BY <1>2 DEF RingInv
  <1>4. \A i, j \in 0..(MaxEvents - 1) : g[i] = g[j] => i = j
    BY <1>2 DEF RingInv
  <1> HIDE DEF g
  <1>5. g \in Injection(0..(MaxEvents - 1), Event)
    BY <1>3, <1>4 DEF Injection, IsInjective
  <1>6. Cardinality(0..(MaxEvents - 1)) <= Cardinality(Event)
    BY <1>5, FS_Injection DEF EventsFit
  <1>7. Cardinality(0..(MaxEvents - 1)) = MaxEvents
    BY <1>1, FS_Interval
  <1>8. Cardinality(Event) \in Nat
    BY FS_CardinalityType DEF EventsFit
  <1> QED
    BY <1>1, <1>6, <1>7, <1>8 DEF EventsFit

\* A set of slots has a first one.
LEMMA FirstSlot ==
  ASSUME NEW S \in SUBSET Slot, S # {}
  PROVE  Min(S) \in S
  <1>1. S \subseteq Nat
    BY EventManagerAssumption DEF Slot
  <1>2. \A x, y \in S : y < x => <<y, x>> \in OpToRel(<, Nat)
    BY <1>1, Zenon DEF OpToRel
  <1>3. PICK x \in S : \A y \in S : ~(y < x)
    BY <1>1, <1>2, NatLessThanWellFounded, WFMin, Zenon
  <1>4. \A y \in S : x <= y
    BY <1>1, <1>3, SMT
  <1> QED
    BY <1>4, Zenon DEF Min

-----------------------------------------------------------------------------
(* What a step that moves one thread does, and what it leaves alone *)

\* Threads have different names.
LEMMA Names ==
  /\ \A c \in Client : c \in Thread /\ c \notin Event /\ c \notin Worker
  /\ \A e \in Event : e \in Thread /\ e \notin Client /\ e \notin Worker
  /\ \A w \in Worker : w \in Thread /\ w \notin Client /\ w \notin Event
  /\ \A e \in Event, i \in Slot : <<e, i>> \in Worker
  /\ \A t \in Thread : t \in Client \/ t \in Event \/ t \in Worker
  /\ NULL \notin Event /\ NULL \notin Listener
  BY EventManagerAssumption DEF Thread, Worker

\* A listener thread's event.
LEMMA EventOfType ==
  ASSUME NEW t \in Event \cup Worker
  PROVE  /\ EventOf(t) \in Event
         /\ t \in Event => EventOf(t) = t
         /\ t \in Worker => \E i \in Slot : t = <<EventOf(t), i>>
  BY Names DEF EventOf, Worker

\* One thread goes to place p.
LEMMA Moved ==
  ASSUME TypeOK, NEW t \in Thread, NEW p \in Place, pc' = [pc EXCEPT ![t] = p]
  PROVE  /\ pc' \in [Thread -> Place] /\ pc'[t] = p
         /\ \A u \in Thread : u # t => pc'[u] = pc[u]
  <1>1. pc \in [Thread -> Place]
    BY DEF TypeOK
  <1> QED
    BY <1>1

\* The running threads are the same unless one starts or ends.
LEMMA ActiveMoved ==
  ASSUME TypeOK, NEW t \in Thread, NEW p \in Place, pc' = [pc EXCEPT ![t] = p],
         t \in Client \/ (pc[t] # "none" /\ p # "none")
  PROVE  Active' = Active
  <1>1. pc'[t] = p /\ \A u \in Thread : u # t => pc'[u] = pc[u]
    BY Moved
  <1>2. ASSUME NEW u \in Event \cup Worker PROVE pc[u] # "none" <=> pc'[u] # "none"
    BY <1>1, Names
  <1> QED
    BY <1>2 DEF Active

\* The posters before their sem_post are the same unless one comes or goes.
LEMMA PostersMoved ==
  ASSUME TypeOK, NEW t \in Thread, NEW p \in Place, pc' = [pc EXCEPT ![t] = p]
  PROVE  SemPosters' = IF p = "semPost" THEN SemPosters \cup {t} ELSE SemPosters \ {t}
  <1>1. pc'[t] = p /\ \A u \in Thread : u # t => pc'[u] = pc[u]
    BY Moved
  <1> QED
    BY <1>1 DEF SemPosters

\* The ring keeps what it has while no event in it stops being idle.
LEMMA RingFrame ==
  ASSUME RingInv, UNCHANGED <<frontEvent, backEvent, eventQueue, mainLoop, taken>>,
         \A e \in Event : Idle(e) => Idle(e)'
  PROVE  RingInv'
  <1>1. Span' = Span
    BY DEF Span
  <1> QED
    BY <1>1 DEF RingInv

\* An event stays idle if nothing happens to it.
LEMMA IdleFrame ==
  ASSUME UNCHANGED <<allocated, semaphore, Active>>, NEW e \in Event
  PROVE  Idle(e) => Idle(e)'
  BY DEF Idle

\* LifeInv depends on the events, the running threads and the loops only.
LEMMA LifeFrame ==
  ASSUME LifeInv, UNCHANGED <<allocated, semaphore, key, Active>>,
         \A e \in Event : pc[e] \in Looping \cup {"join"} => pc'[e] \in Looping \cup {"join"},
         \A e \in Event : pc[e] \in Looping \cup {"join"} => listnCntr'[e] = listnCntr[e]
  PROVE  LifeInv'
  BY DEF LifeInv

\* PostInv depends on the posters and the events they wait for only.
LEMMA PostFrame ==
  ASSUME PostInv, UNCHANGED <<allocated, isBlocking, posting>>,
         \A t \in Thread : pc[t] \in {"semPost", "semWait"} => pc'[t] \in {"semPost", "semWait"} \/ posting[t] = NULL,
         \A t \in Thread : pc'[t] = "semWait" => pc[t] = "semWait" \/ posting[t] # NULL
  PROVE  PostInv'
  BY DEF PostInv

\* LockInv depends on the lists, their locks and the threads that call a listener only.
LEMMA LockFrame ==
  ASSUME LockInv, UNCHANGED <<listenerListLock, listnCntr, handler, listenerEntryList>>,
         \A e \in Event : pc[e] \in Looping => key'[e] = key[e],
         \A e \in Event : /\ pc'[e] \in Looping => pc[e] \in Looping
                          /\ pc'[e] \in Calling <=> pc[e] \in Calling
                          /\ pc'[e] = "remove" => pc[e] = "remove"
  PROVE  LockInv'
  <1>1. /\ \A e \in Event : pc'[e] \in Looping => listenerListLock'[key'[e]] = e
        /\ \A e \in Event : pc'[e] \in Calling => listnCntr'[e] \in Slot
        /\ \A e \in Event : handler'[e] # NULL => pc'[e] \in Calling
        /\ \A e \in Event : pc'[e] = "remove" => handler'[e] \in OneShot
    BY DEF LockInv
  <1>2. NotCalledAfterRemove'
    BY DEF LockInv, NotCalledAfterRemove, Looping
  <1> QED
    BY <1>1, <1>2 DEF LockInv

\* CountInv depends on the ring and the posters between insertion and sem_post only.
LEMMA CountFrame ==
  ASSUME CountInv, UNCHANGED <<frontEvent, backEvent, eventsInQueue, mainLoop, eventManagerThread, SemPosters>>,
         \A t \in Thread : pc'[t] = "insert" => pc[t] = "insert" \/ mainLoop # "down"
  PROVE  CountInv'
  <1>1. Pending' = Pending
    BY DEF Pending
  <1>2. mainLoop = "down" => \A t \in Thread : pc'[t] \notin {"insert", "semPost"}
    BY DEF CountInv, SemPosters
  <1> QED
    BY <1>1, <1>2 DEF CountInv

\* A step of the process that fails an assert changes nothing else.
LEMMA CrashStep ==
  ASSUME Inv, NEW how, Crash(how)
  PROVE  Inv'
  <1> USE DEF Crash, ring, manager, listeners, events, threads
  <1>1. TypeOK' /\ PlaceInv'
    BY DEF Inv, TypeOK, PlaceInv
  <1>2. Active' = Active /\ SemPosters' = SemPosters
    BY DEF Active, SemPosters
  <1>3. RingInv'
    BY <1>2, RingFrame, IdleFrame DEF Inv
  <1>4. LifeInv' /\ PostInv'
    BY <1>2, LifeFrame, PostFrame DEF Inv
  <1>5. LockInv'
    BY LockFrame DEF Inv
  <1>6. CountInv'
    BY <1>2, CountFrame DEF Inv
  <1> QED
    BY <1>1, <1>3, <1>4, <1>5, <1>6 DEF Inv

-----------------------------------------------------------------------------
(* The manager's own steps *)

\* em_startup starts the main loop on an empty ring.
LEMMA StartupStep ==
  ASSUME Inv, Startup
  PROVE  Inv'
  <1>1. CASE Crash("startup")
    BY <1>1, CrashStep
  <1>2. CASE ~Crash("startup")
    <2>0. /\ mainLoop = "down" /\ ~eventManagerThread /\ eventManagerThread' = TRUE /\ mainLoop' = "wait"
          /\ UNCHANGED <<ring, taken, listeners, events, threads>>
      BY <1>2 DEF Startup
    <2> USE <2>0 DEF ring, listeners, events, threads
    <2>1. TypeOK' /\ PlaceInv'
      BY DEF Inv, TypeOK, PlaceInv
    <2>2. Active' = Active /\ SemPosters' = SemPosters /\ SemPosters = {}
      BY DEF Active, SemPosters, Inv, CountInv
    <2>3. LifeInv' /\ PostInv' /\ LockInv'
      BY <2>2, LifeFrame, PostFrame, LockFrame DEF Inv
    <2>4. frontEvent = backEvent /\ eventsInQueue = 0 /\ taken = NULL
      BY DEF Inv, CountInv, RingInv
    <2>5. frontEvent \in 0..(MaxEvents - 1) /\ MaxEvents \in Nat \ {0}
      BY EventManagerAssumption DEF Inv, TypeOK
    <2>6. RingInv'
      <3>1. Span' = {}
        BY <2>4, <2>5 DEF Span, SpanOf
      <3> QED
        BY <2>4, <3>1 DEF RingInv
    <2>7. CountInv'
      <3>1. Pending' = 0
        <4>1. Pending' = Distance(frontEvent, frontEvent)
          BY <2>4, <2>5, DistancePlain DEF Pending
        <4> QED
          BY <2>5, <4>1 DEF Distance
      <3>2. IsFiniteSet({}) /\ Cardinality({}) = 0
        BY FS_EmptySet
      <3> QED
        BY <2>2, <2>4, <3>1, <3>2 DEF CountInv
    <2> QED
      BY <2>1, <2>3, <2>6, <2>7 DEF Inv
  <1> QED
    BY <1>1, <1>2

\* em_shutdown leaves the events where they are; nobody takes or posts one any more.
LEMMA ShutdownStep ==
  ASSUME Inv, Shutdown
  PROVE  Inv'
  <1> USE DEF Shutdown, ring, listeners, events, threads
  <1>1. TypeOK' /\ PlaceInv'
    BY DEF Inv, TypeOK, PlaceInv
  <1>2. Active' = Active /\ SemPosters' = SemPosters
    BY DEF Active, SemPosters
  <1>3. LifeInv' /\ PostInv' /\ LockInv'
    BY <1>2, LifeFrame, PostFrame, LockFrame DEF Inv
  <1>4. RingInv'
    BY <1>2, IdleFrame DEF Inv, RingInv, Span
  <1>5. CountInv'
    BY <1>2 DEF Inv, CountInv
  <1> QED
    BY <1>1, <1>3, <1>4, <1>5 DEF Inv

\* sem_wait has counted an event, so the ring is not empty.
LEMMA MainTakeStep ==
  ASSUME Inv, MainTake
  PROVE  Inv'
  <1> USE DEF MainTake, listeners, events, threads
  <1>0. /\ frontEvent \in 0..(MaxEvents - 1) /\ backEvent \in 0..(MaxEvents - 1)
        /\ MaxEvents \in Nat \ {0} /\ eventsInQueue \in Nat
    BY EventManagerAssumption DEF Inv, TypeOK
  <1>1. TypeOK' /\ PlaceInv'
    BY <1>0 DEF Inv, TypeOK, PlaceInv
  <1>2. Active' = Active /\ SemPosters' = SemPosters
    BY DEF Active, SemPosters
  <1>3. LifeInv' /\ PostInv' /\ LockInv'
    BY <1>2, LifeFrame, PostFrame, LockFrame DEF Inv
  <1>4. Cardinality(SemPosters) \in Nat /\ Pending = eventsInQueue + Cardinality(SemPosters)
    <2>1. IsFiniteSet(SemPosters) /\ Pending = eventsInQueue + Cardinality(SemPosters) + 0
      BY DEF Inv, CountInv
    <2>2. Cardinality(SemPosters) \in Nat
      BY <2>1, FS_CardinalityType
    <2> QED
      BY <1>0, <2>1, <2>2
  <1>5. frontEvent # backEvent
    <2>1. Pending = Distance(frontEvent, backEvent)
      BY <1>0, DistancePlain DEF Pending
    <2> QED
      BY <1>0, <1>4, <2>1 DEF Distance
  <1>6. RingInv'
    BY <1>2, <1>5, IdleFrame DEF Inv, RingInv, Span
  <1>7. CountInv'
    <2>1. Pending' = Pending
      BY DEF Pending
    <2>2. IsFiniteSet(SemPosters) /\ eventManagerThread
      BY DEF Inv, CountInv
    <2> QED
      BY <1>0, <1>2, <1>4, <2>1, <2>2 DEF CountInv
  <1> QED
    BY <1>1, <1>3, <1>6, <1>7 DEF Inv

\* The event that was read leaves the ring, and belongs to the main loop alone.
LEMMA MainAdvanceStep ==
  ASSUME Inv, MainAdvance
  PROVE  Inv'
  <1> USE DEF MainAdvance, listeners, events, threads
  <1>0. /\ frontEvent \in 0..(MaxEvents - 1) /\ backEvent \in 0..(MaxEvents - 1)
        /\ MaxEvents \in Nat \ {0} /\ eventsInQueue \in Nat
    BY EventManagerAssumption DEF Inv, TypeOK
  <1>1. After(frontEvent) \in 0..(MaxEvents - 1)
    BY <1>0, AfterPlain
  <1>2. TypeOK' /\ PlaceInv'
    BY <1>1 DEF Inv, TypeOK, PlaceInv
  <1>3. Active' = Active /\ SemPosters' = SemPosters
    BY DEF Active, SemPosters
  <1>4. LifeInv' /\ PostInv' /\ LockInv'
    BY <1>3, LifeFrame, PostFrame, LockFrame DEF Inv
  <1>5. frontEvent # backEvent /\ taken = eventQueue[frontEvent]
    BY DEF Inv, RingInv
  <1>6. /\ frontEvent \in Span /\ Span' = Span \ {frontEvent}
        /\ Distance(After(frontEvent), backEvent) = Distance(frontEvent, backEvent) - 1
    BY <1>0, <1>5, FrontMoves DEF Span
  <1>7. RingInv'
    BY <1>3, <1>5, <1>6, IdleFrame DEF Inv, RingInv
  <1>8. CountInv'
    <2>1. Pending = Distance(frontEvent, backEvent) /\ Pending' = Distance(After(frontEvent), backEvent)
      BY <1>0, <1>1, DistancePlain DEF Pending
    <2>2. IsFiniteSet(SemPosters) /\ eventManagerThread /\ Cardinality(SemPosters) \in Nat
      BY FS_CardinalityType DEF Inv, CountInv
    <2>3. Pending = eventsInQueue + Cardinality(SemPosters) + 1
      BY DEF Inv, CountInv
    <2> QED
      BY <1>0, <1>3, <1>6, <2>1, <2>2, <2>3 DEF CountInv
  <1> QED
    BY <1>2, <1>4, <1>7, <1>8 DEF Inv

\* The thread of the event that was taken starts.
LEMMA MainForkStep ==
  ASSUME Inv, MainFork
  PROVE  Inv'
  <1>1. CASE Crash("no thread")
    BY <1>1, CrashStep
  <1>2. CASE ~Crash("no thread")
    <2>0. /\ mainLoop = "fork" /\ mainLoop' = "wait" /\ taken' = NULL
          /\ pc' = [pc EXCEPT ![taken] = "find"]
          /\ UNCHANGED <<ring, eventManagerThread, listeners, events, posting, listnCntr, handler>>
      BY <1>2 DEF MainFork
    <2>1. PICK e \in Event : e = taken
      BY <2>0 DEF Inv, RingInv
    <2>2. Idle(e) /\ \A j \in Span : eventQueue[j] # e
      BY <2>0, <2>1 DEF Inv, RingInv
    <2>3. e \in Thread /\ e \notin Client /\ e \notin Worker /\ pc[e] = "none"
      BY <2>2, Names DEF Idle, Active
    <2>4. pc' \in [Thread -> Place] /\ pc'[e] = "find" /\ \A u \in Thread : u # e => pc'[u] = pc[u]
      BY <2>0, <2>1, <2>3, Moved DEF Inv, Place
    <2>5. SemPosters' = SemPosters
      BY <2>3, <2>4 DEF SemPosters
    <2>6. Active' = Active \cup {e}
      BY <2>3, <2>4, Names DEF Active
    <2>7. TypeOK'
      BY <2>0, <2>4 DEF Inv, TypeOK, ring, listeners, events
    <2>8. PlaceInv'
      BY <2>3, <2>4, Names DEF Inv, PlaceInv
    <2> USE <2>0 DEF ring, listeners, events
    <2>9. RingInv'
      <3>1. \A a \in Event : a # e /\ Idle(a) => Idle(a)'
        BY <2>3, <2>6, Names DEF Idle
      <3> QED
        BY <2>2, <3>1 DEF Inv, RingInv, Span
    <2>10. LifeInv'
      <3>1. e \in allocated /\ semaphore[e] = 0 /\ \A i \in Slot : <<e, i>> \notin Active
        BY <2>2 DEF Idle
      <3>2. \A a \in Event, i \in Slot : <<a, i>> \in Active' => <<a, i>> \in Active /\ a # e
        BY <2>3, <2>6, <3>1, Names
      <3>3. \A a \in Event : a # e => pc'[a] = pc[a]
        BY <2>4, Names
      <3> QED
        BY <2>6, <3>1, <3>2, <3>3 DEF Inv, LifeInv
    <2>11. PostInv'
      BY <2>3, <2>4, PostFrame DEF Inv
    <2>12. LockInv'
      <3>1. \A a \in Event : a # e => pc'[a] = pc[a]
        BY <2>4, Names
      <3> QED
        BY <2>3, <2>4, <3>1, LockFrame DEF Inv, Looping, Calling, Posting
    <2>13. CountInv'
      BY <2>3, <2>4, <2>5 DEF Inv, CountInv, Pending
    <2> QED
      BY <2>7, <2>8, <2>9, <2>10, <2>11, <2>12, <2>13 DEF Inv
  <1> QED
    BY <1>1, <1>2

-----------------------------------------------------------------------------
(* em_postEvent *)

\* The check for a free slot changes nothing but the place of the poster.
LEMMA PostCheckStep ==
  ASSUME Inv, NEW t \in Thread, PostCheck(t)
  PROVE  Inv'
  <1>1. CASE Crash("queue full")
    BY <1>1, CrashStep
  <1>2. CASE ~Crash("queue full")
    <2>0. /\ mainLoop # "down" /\ pc[t] \in {"client", "handler"} /\ pc' = [pc EXCEPT ![t] = "insert"]
          /\ UNCHANGED <<ring, manager, listeners, events, posting, listnCntr, handler>>
      BY <1>2, Zenon DEF PostCheck
    <2>1. pc' \in [Thread -> Place] /\ pc'[t] = "insert" /\ \A u \in Thread : u # t => pc'[u] = pc[u]
      BY <2>0, Moved DEF Inv, Place
    <2>2. Active' = Active
      BY <2>0, ActiveMoved, Names DEF Inv, PlaceInv, Posting, Place
    <2>3. SemPosters' = SemPosters
      BY <2>0, <2>1 DEF SemPosters
    <2>4. TypeOK'
      BY <2>0, <2>1 DEF Inv, TypeOK, ring, manager, listeners, events
    <2>5. PlaceInv'
      BY <2>0, <2>1, Names DEF Inv, PlaceInv, Looping, Calling, Posting
    <2> USE <2>0 DEF ring, manager, listeners, events
    <2>6. RingInv'
      BY <2>2, RingFrame, IdleFrame DEF Inv
    <2>7. LifeInv'
      BY <2>1, <2>2, LifeFrame, Names DEF Inv, Looping, Calling, Posting
    <2>8. PostInv'
      BY <2>1, PostFrame DEF Inv
    <2>9. LockInv'
      BY <2>1, LockFrame, Names DEF Inv, PlaceInv, Looping, Calling, Posting
    <2>10. CountInv'
      BY <2>1, <2>3, CountFrame DEF Inv
    <2> QED
      BY <2>4, <2>5, <2>6, <2>7, <2>8, <2>9, <2>10 DEF Inv
  <1> QED
    BY <1>1, <1>2

\* An event whose memory is free is in no slot of the ring and of no thread.
LEMMA FreshEvent ==
  ASSUME Inv, NEW e \in Event \ allocated
  PROVE  /\ pc[e] = "none" /\ e \notin Active /\ semaphore[e] = 0
         /\ \A i \in Slot : <<e, i>> \notin Active
         /\ \A j \in Span : eventQueue[j] # e
         /\ \A t \in Thread : posting[t] # e
         /\ taken # e
  <1>1. e \notin Active /\ pc[e] = "none"
    BY DEF Inv, LifeInv, Active
  <1>2. \A i \in Slot : <<e, i>> \notin Active
    BY <1>1 DEF Inv, LifeInv, Looping, Calling, Posting
  <1>3. semaphore[e] = 0
    BY DEF Inv, LifeInv, TypeOK
  <1>4. \A j \in Span : eventQueue[j] # e
    BY DEF Inv, RingInv, Idle
  <1>5. \A t \in Thread : posting[t] # e
    BY Names DEF Inv, PostInv
  <1>6. taken # e
    <2>1. mainLoop = "took" => frontEvent \in Span
      <3>1. frontEvent \in 0..(MaxEvents - 1) /\ backEvent \in 0..(MaxEvents - 1)
        BY DEF Inv, TypeOK
      <3> QED
        BY <3>1, FrontMoves DEF Inv, RingInv, Span
    <2> QED
      BY <1>4, <2>1, Names DEF Inv, RingInv, Idle, TypeOK
  <1> QED
    BY <1>1, <1>2, <1>3, <1>4, <1>5, <1>6

\* The new event goes into a slot that is free: the check that the ring is not
\* full may be out of date, but the events fit.
LEMMA PostInsertStep ==
  ASSUME EventsFit, Inv, NEW t \in Thread, PostInsert(t)
  PROVE  Inv'
  <1>0. PICK e \in Event \ allocated, k \in Key, b \in BOOLEAN :
          /\ IF t \in Client THEN b \in Blocking ELSE b /\ k = key[EventOf(t)]
          /\ allocated' = allocated \cup {e}
          /\ key' = [key EXCEPT ![e] = k]
          /\ isBlocking' = [isBlocking EXCEPT ![e] = b]
          /\ nested' = [nested EXCEPT ![e] = t \notin Client]
          /\ eventQueue' = [eventQueue EXCEPT ![backEvent] = e]
          /\ posting' = [posting EXCEPT ![t] = IF b THEN e ELSE NULL]
    BY Zenon DEF PostInsert
  <1>1. /\ pc[t] = "insert" /\ backEvent' = After(backEvent) /\ pc' = [pc EXCEPT ![t] = "semPost"]
        /\ UNCHANGED <<frontEvent, eventsInQueue, manager, listeners, semaphore, listnCntr, handler>>
    BY Zenon DEF PostInsert
  <1>2. /\ frontEvent \in 0..(MaxEvents - 1) /\ backEvent \in 0..(MaxEvents - 1)
        /\ MaxEvents \in Nat \ {0} /\ eventsInQueue \in Nat /\ After(backEvent) \in 0..(MaxEvents - 1)
    BY EventManagerAssumption, AfterPlain DEF Inv, TypeOK
  <1>3. /\ pc[e] = "none" /\ e \notin Active /\ semaphore[e] = 0
        /\ \A i \in Slot : <<e, i>> \notin Active
        /\ \A j \in Span : eventQueue[j] # e
        /\ \A u \in Thread : posting[u] # e
        /\ taken # e
    BY FreshEvent
  <1>4. pc' \in [Thread -> Place] /\ pc'[t] = "semPost" /\ \A u \in Thread : u # t => pc'[u] = pc[u]
    BY <1>1, Moved DEF Inv, Place
  <1>5. Active' = Active
    BY <1>1, ActiveMoved DEF Inv, Place
  <1>6. After(backEvent) # frontEvent
    BY <1>3, RoomLeft DEF Inv
  <1>7. /\ backEvent \notin Span /\ Span' = Span \cup {backEvent}
        /\ Distance(frontEvent, After(backEvent)) = Distance(frontEvent, backEvent) + 1
    BY <1>1, <1>2, <1>6, BackMoves DEF Span
  <1>8. /\ key' \in [Event -> Key \cup {NULL}] /\ key'[e] = k /\ \A a \in Event : a # e => key'[a] = key[a]
        /\ isBlocking' \in [Event -> BOOLEAN] /\ isBlocking'[e] = b
        /\ \A a \in Event : a # e => isBlocking'[a] = isBlocking[a]
        /\ nested' \in [Event -> BOOLEAN]
    BY <1>0 DEF Inv, TypeOK
  <1>9. /\ posting' \in [Thread -> Event \cup {NULL}] /\ posting'[t] = (IF b THEN e ELSE NULL)
        /\ \A u \in Thread : u # t => posting'[u] = posting[u]
    BY <1>0 DEF Inv, TypeOK
  <1>10. /\ eventQueue' \in [0..(MaxEvents - 1) -> Event \cup {NULL}] /\ eventQueue'[backEvent] = e
         /\ \A j \in 0..(MaxEvents - 1) : j # backEvent => eventQueue'[j] = eventQueue[j]
    BY <1>0, <1>2 DEF Inv, TypeOK
  <1>11. TypeOK'
    BY <1>0, <1>1, <1>2, <1>4, <1>8, <1>9, <1>10, SMTT(20) DEF Inv, TypeOK, manager, listeners
  <1>12. PlaceInv'
    BY <1>1, <1>4, Names DEF Inv, PlaceInv, Looping, Calling, Posting
  <1>13. RingInv'
    <2>1. \A a \in Event : Idle(a) => Idle(a)'
      BY <1>0, <1>1, <1>5 DEF Idle
    <2>2. Idle(e)'
      BY <1>0, <1>1, <1>3, <1>5 DEF Idle
    <2>3. \A j \in Span : eventQueue'[j] = eventQueue[j]
      BY <1>7, <1>10 DEF Span, SpanOf
    <2>4. ASSUME NEW j \in Span' PROVE (eventQueue[j] \in Event /\ Idle(eventQueue[j]))'
      <3>1. PICK a \in Event : a = eventQueue'[j] /\ (a = e \/ Idle(a))
        BY <1>7, <1>10, <2>3 DEF Inv, RingInv
      <3>2. Idle(a)'
        BY <2>1, <2>2, <3>1
      <3> QED
        BY <3>1, <3>2 DEF Idle
    <2>5. \A i, j \in Span' : eventQueue'[i] = eventQueue'[j] => i = j
      BY <1>3, <1>7, <1>10, <2>3 DEF Inv, RingInv
    <2>6. frontEvent # backEvent => frontEvent \in Span
      BY <1>2, FrontMoves DEF Span
    <2>7. mainLoop = "took" => frontEvent # backEvent' /\ taken = eventQueue'[frontEvent]
      BY <1>1, <1>6, <2>3, <2>6 DEF Inv, RingInv
    <2>8. mainLoop = "fork" => taken \in Event /\ Idle(taken)' /\ \A j \in Span' : eventQueue'[j] # taken
      <3>1. SUFFICES ASSUME mainLoop = "fork"
                     PROVE  taken \in Event /\ Idle(taken)' /\ \A j \in Span' : eventQueue'[j] # taken
        OBVIOUS
      <3>2. taken \in Event /\ Idle(taken) /\ \A j \in Span : eventQueue[j] # taken
        BY <3>1 DEF Inv, RingInv
      <3>3. Idle(taken)'
        <4>1. PICK a \in Event : a = taken /\ Idle(a)
          BY <3>2
        <4>2. Idle(a)' /\ taken' = a
          BY <1>1, <2>1, <4>1 DEF manager
        <4> QED
          BY <4>2 DEF Idle
      <3> QED
        BY <1>3, <1>7, <1>10, <2>3, <3>2, <3>3
    <2>9. mainLoop \in {"down", "wait"} => taken = NULL
      BY DEF Inv, RingInv
    <2> QED
      BY <1>1, <2>4, <2>5, <2>7, <2>8, <2>9 DEF RingInv, manager
  <1>14. LifeInv'
    <2>1. \A a \in Event : a \in Active => a # e
      BY <1>3
    <2>2. \A a \in Event : pc[a] \in Looping \cup {"join"} => pc'[a] \in Looping \cup {"join"}
      BY <1>1, <1>4, Names DEF Looping, Calling, Posting
    <2> QED
      BY <1>0, <1>1, <1>5, <1>8, <2>1, <2>2 DEF Inv, LifeInv
  <1>15. PostInv'
    <2>1. \A u \in Thread : u # t /\ posting[u] # NULL => isBlocking'[posting[u]] = isBlocking[posting[u]]
      BY <1>3, <1>8 DEF Inv, PostInv, TypeOK
    <2>2. \A u \in Thread : posting'[u] # NULL =>
            pc'[u] \in {"semPost", "semWait"} /\ posting'[u] \in allocated' /\ isBlocking'[posting'[u]]
      BY <1>0, <1>4, <1>8, <1>9, <2>1 DEF Inv, PostInv
    <2>3. \A u \in Thread : pc'[u] = "semWait" => posting'[u] # NULL
      BY <1>4, <1>9 DEF Inv, PostInv
    <2>4. \A u, v \in Thread : posting'[u] # NULL /\ posting'[u] = posting'[v] => u = v
      BY <1>3, <1>9 DEF Inv, PostInv
    <2> QED
      BY <2>2, <2>3, <2>4 DEF PostInv
  <1>16. LockInv'
    <2>1. \A a \in Event : pc[a] \in Looping => key'[a] = key[a]
      BY <1>3, <1>8 DEF Looping, Calling, Posting
    <2> QED
      BY <1>1, <1>4, <2>1, LockFrame, Names DEF Inv, listeners, Looping, Calling, Posting
  <1>17. CountInv'
    <2>1. t \notin SemPosters /\ SemPosters' = SemPosters \cup {t}
      BY <1>1, PostersMoved DEF Inv, SemPosters, Place
    <2>2. /\ IsFiniteSet(SemPosters') /\ Cardinality(SemPosters') = Cardinality(SemPosters) + 1
          /\ Cardinality(SemPosters) \in Nat
      BY <2>1, FS_AddElement, FS_CardinalityType DEF Inv, CountInv
    <2>3. Pending = Distance(frontEvent, backEvent) /\ Pending' = Distance(frontEvent, After(backEvent))
      BY <1>1, <1>2, DistancePlain DEF Pending
    <2>4. mainLoop # "down" /\ eventManagerThread
      BY <1>1 DEF Inv, CountInv
    <2>5. Pending = eventsInQueue + Cardinality(SemPosters) + (IF mainLoop = "took" THEN 1 ELSE 0)
      BY <2>4 DEF Inv, CountInv
    <2> QED
      BY <1>1, <1>2, <1>7, <2>2, <2>3, <2>4, <2>5 DEF CountInv, manager
  <1> QED
    BY <1>11, <1>12, <1>13, <1>14, <1>15, <1>16, <1>17 DEF Inv

\* A post returns to the application, or to the handler function.
LEMMA ReturnPlace ==
  ASSUME NEW t \in Thread
  PROVE  Return(t) \in Place /\ Return(t) \in {"client", "return"} /\ (t \in Client <=> Return(t) = "client")
  BY DEF Return, Place

\* sem_post tells the main loop of the event; a blocking poster goes on to wait.
LEMMA PostSemPostStep ==
  ASSUME Inv, NEW t \in Thread, PostSemPost(t)
  PROVE  Inv'
  <1>0. PICK p \in Place : p = IF posting[t] # NULL THEN "semWait" ELSE Return(t)
    BY ReturnPlace DEF Place
  <1>1. /\ pc[t] = "semPost" /\ eventsInQueue' = eventsInQueue + 1 /\ pc' = [pc EXCEPT ![t] = p]
        /\ UNCHANGED <<frontEvent, backEvent, eventQueue, manager, listeners, events, posting, listnCntr, handler>>
    BY <1>0 DEF PostSemPost
  <1>2. pc' \in [Thread -> Place] /\ pc'[t] = p /\ \A u \in Thread : u # t => pc'[u] = pc[u]
    BY <1>1, Moved DEF Inv
  <1>3. p \in {"semWait", "return", "client"} /\ (p = "client" => t \in Client) /\ (p = "return" => t \notin Client)
        /\ (p = "semWait" <=> posting[t] # NULL)
    BY <1>0, ReturnPlace
  <1>4. Active' = Active
    BY <1>1, <1>3, ActiveMoved DEF Inv
  <1>5. eventsInQueue \in Nat
    BY DEF Inv, TypeOK
  <1>6. TypeOK'
    BY <1>1, <1>2, <1>5 DEF Inv, TypeOK, manager, listeners, events
  <1>7. PlaceInv'
    BY <1>1, <1>2, <1>3, Names DEF Inv, PlaceInv, Looping, Calling, Posting
  <1> USE <1>1 DEF manager, listeners, events
  <1>8. RingInv'
    BY <1>4, RingFrame, IdleFrame DEF Inv
  <1>9. \A e \in Event : /\ pc[e] \in Looping <=> pc'[e] \in Looping
                         /\ pc[e] \in Calling <=> pc'[e] \in Calling
                         /\ pc'[e] = pc[e] \/ pc'[e] \in {"semWait", "return"}
    BY <1>2, <1>3, Names DEF Looping, Calling, Posting
  <1>10. \A e \in Event : pc'[e] = "join" <=> pc[e] = "join"
    BY <1>2, <1>3, Names
  <1>11. LifeInv'
    BY <1>4, <1>9, <1>10, LifeFrame DEF Inv
  <1>12. PostInv'
    BY <1>2, <1>3, PostFrame DEF Inv
  <1>13. LockInv'
    BY <1>9, LockFrame DEF Inv
  <1>14. CountInv'
    <2>1. t \in SemPosters /\ SemPosters' = SemPosters \ {t}
      BY <1>3, PostersMoved DEF Inv, SemPosters
    <2>2. IsFiniteSet(SemPosters) /\ Cardinality(SemPosters) \in Nat
      BY FS_CardinalityType DEF Inv, CountInv
    <2>3. IsFiniteSet(SemPosters') /\ Cardinality(SemPosters') = Cardinality(SemPosters) - 1
      BY <2>1, <2>2, FS_RemoveElement
    <2>4. Pending' = Pending
      BY DEF Pending
    <2>5. mainLoop # "down" /\ eventManagerThread
      BY DEF Inv, CountInv
    <2>6. Pending = eventsInQueue + Cardinality(SemPosters) + (IF mainLoop = "took" THEN 1 ELSE 0)
      BY <2>5 DEF Inv, CountInv
    <2> QED
      BY <1>5, <2>2, <2>3, <2>4, <2>5, <2>6 DEF CountInv
  <1> QED
    BY <1>6, <1>7, <1>8, <1>11, <1>12, <1>13, <1>14 DEF Inv

\* What freeEvent does to the event and leaves of the others.
LEMMA FreeFacts ==
  ASSUME TypeOK, NEW e \in Event, freeEvent(e)
  PROVE  /\ allocated' = allocated \ {e}
         /\ key' \in [Event -> Key \cup {NULL}] /\ \A a \in Event : a # e => key'[a] = key[a]
         /\ isBlocking' \in [Event -> BOOLEAN] /\ \A a \in Event : a # e => isBlocking'[a] = isBlocking[a]
         /\ nested' \in [Event -> BOOLEAN]
         /\ semaphore' \in [Event -> {0, 1}] /\ semaphore'[e] = 0
         /\ \A a \in Event : a # e => semaphore'[a] = semaphore[a]
  BY DEF TypeOK, freeEvent

\* When the poster of a blocking event has been told, nobody else has the event.
LEMMA PostSemWaitStep ==
  ASSUME Inv, NEW t \in Thread, PostSemWait(t)
  PROVE  Inv'
  <1>0. PICK p \in Place : p = Return(t)
    BY ReturnPlace
  <1>1. /\ pc[t] = "semWait" /\ semaphore[posting[t]] > 0 /\ freeEvent(posting[t])
        /\ pc' = [pc EXCEPT ![t] = p] /\ posting' = [posting EXCEPT ![t] = NULL]
        /\ UNCHANGED <<ring, manager, listeners, listnCntr, handler>>
    BY <1>0 DEF PostSemWait
  <1>2. PICK e \in Event : e = posting[t]
    BY <1>1 DEF Inv, PostInv, TypeOK
  <1>3. semaphore[e] = 1 /\ e \in allocated /\ freeEvent(e)
    BY <1>1, <1>2 DEF Inv, LifeInv, TypeOK
  <1>4. pc' \in [Thread -> Place] /\ pc'[t] = p /\ \A u \in Thread : u # t => pc'[u] = pc[u]
    BY <1>1, Moved DEF Inv
  <1>5. p \in {"client", "return"} /\ (p = "client" <=> t \in Client)
    BY <1>0, ReturnPlace
  <1>6. Active' = Active /\ SemPosters' = SemPosters
    BY <1>1, <1>4, <1>5, ActiveMoved DEF Inv, SemPosters
  <1>7. /\ allocated' = allocated \ {e}
        /\ key' \in [Event -> Key \cup {NULL}] /\ \A a \in Event : a # e => key'[a] = key[a]
        /\ isBlocking' \in [Event -> BOOLEAN] /\ \A a \in Event : a # e => isBlocking'[a] = isBlocking[a]
        /\ nested' \in [Event -> BOOLEAN]
        /\ semaphore' \in [Event -> {0, 1}] /\ semaphore'[e] = 0
        /\ \A a \in Event : a # e => semaphore'[a] = semaphore[a]
    BY <1>3, FreeFacts DEF Inv
  <1>8. posting' \in [Thread -> Event \cup {NULL}] /\ posting'[t] = NULL
        /\ \A u \in Thread : u # t => posting'[u] = posting[u]
    BY <1>1 DEF Inv, TypeOK
  <1>9. e \notin Active /\ pc[e] = "none"
    BY <1>3 DEF Inv, LifeInv, Active
  <1>10. TypeOK'
    BY <1>1, <1>4, <1>7, <1>8, SMTT(20) DEF Inv, TypeOK, ring, manager, listeners
  <1>11. PlaceInv'
    BY <1>4, <1>5, Names DEF Inv, PlaceInv, Looping, Calling, Posting
  <1>12. RingInv'
    <2>1. \A a \in Event : Idle(a) => Idle(a)'
      BY <1>3, <1>6, <1>7 DEF Idle
    <2> QED
      BY <1>1, <2>1, RingFrame DEF Inv, ring, manager
  <1>13. LifeInv'
    <2>1. \A a \in Event : pc[a] \in Looping \cup {"join"} => pc'[a] \in Looping \cup {"join"}
      BY <1>4, <1>5, Names DEF Looping, Calling, Posting
    <2>2. allocated \subseteq Event
      BY DEF Inv, TypeOK
    <2> QED
      BY <1>1, <1>6, <1>7, <1>9, <2>1, <2>2 DEF Inv, LifeInv
  <1>14. PostInv'
    <2>1. \A u \in Thread : u # t => posting[u] # e
      BY <1>2, Names DEF Inv, PostInv
    <2>2. \A u \in Thread : posting[u] \in Event \cup {NULL}
      BY DEF Inv, TypeOK
    <2>3. \A u \in Thread : posting'[u] # NULL =>
            pc'[u] \in {"semPost", "semWait"} /\ posting'[u] \in allocated' /\ isBlocking'[posting'[u]]
      BY <1>4, <1>7, <1>8, <2>1, <2>2 DEF Inv, PostInv
    <2>4. \A u \in Thread : pc'[u] = "semWait" => posting'[u] # NULL
      BY <1>4, <1>5, <1>8 DEF Inv, PostInv
    <2>5. \A u, v \in Thread : posting'[u] # NULL /\ posting'[u] = posting'[v] => u = v
      BY <1>8 DEF Inv, PostInv
    <2> QED
      BY <2>3, <2>4, <2>5 DEF PostInv
  <1>15. LockInv'
    <2>1. \A a \in Event : pc[a] \in Looping => key'[a] = key[a]
      BY <1>7, <1>9 DEF Looping, Calling, Posting
    <2> QED
      BY <1>1, <1>4, <1>5, <2>1, LockFrame, Names DEF Inv, listeners, Looping, Calling, Posting
  <1>16. CountInv'
    BY <1>1, <1>4, <1>5, <1>6, CountFrame DEF Inv, ring, manager
  <1> QED
    BY <1>10, <1>11, <1>12, <1>13, <1>14, <1>15, <1>16 DEF Inv

-----------------------------------------------------------------------------
(* em_addListener, em_removeListener *)

\* A change of one entry of one list.
LEMMA EntryChanged ==
  ASSUME TypeOK, NEW k \in Key, NEW i \in Slot, NEW l \in Listener \cup {NULL},
         listenerEntryList' = [listenerEntryList EXCEPT ![k][i] = l]
  PROVE  /\ listenerEntryList' \in [Key -> [Slot -> Listener \cup {NULL}]]
         /\ \A k2 \in Key : k2 # k => listenerEntryList'[k2] = listenerEntryList[k2]
         /\ listenerEntryList'[k][i] = l
         /\ \A j \in Slot : j # i => listenerEntryList'[k][j] = listenerEntryList[k][j]
  <1>1. listenerEntryList \in [Key -> [Slot -> Listener \cup {NULL}]]
    BY DEF TypeOK
  <1> QED
    BY <1>1

\* Only a free slot is filled, so no entry whose function is being called changes.
LEMMA AddListenerStep ==
  ASSUME Inv, NEW c \in Client, NEW k \in Key, NEW l \in Listener, AddListener(c, k, l)
  PROVE  Inv'
  <1>1. CASE Crash("list full")
    BY <1>1, CrashStep
  <1>2. CASE ~Crash("list full")
    <2>0. /\ FreeSlots(k) # {} /\ created' = created \cup {k}
          /\ listenerEntryList' = [listenerEntryList EXCEPT ![k][Min(FreeSlots(k))] = l]
          /\ UNCHANGED <<ring, manager, listenerListLock, events, threads>>
      BY <1>2 DEF AddListener
    <2>1. PICK i \in FreeSlots(k) : i = Min(FreeSlots(k))
      BY <2>0, FirstSlot DEF FreeSlots
    <2>2. i \in Slot /\ listenerEntryList[k][i] = NULL
      BY <2>1 DEF FreeSlots
    <2>3. /\ listenerEntryList' \in [Key -> [Slot -> Listener \cup {NULL}]]
          /\ \A k2 \in Key : k2 # k => listenerEntryList'[k2] = listenerEntryList[k2]
          /\ \A j \in Slot : j # i => listenerEntryList'[k][j] = listenerEntryList[k][j]
      BY <2>0, <2>1, <2>2, EntryChanged DEF Inv
    <2>4. Active' = Active /\ SemPosters' = SemPosters
      BY <2>0 DEF Active, SemPosters, threads
    <2>5. TypeOK'
      BY <2>0, <2>3 DEF Inv, TypeOK, ring, manager, events, threads
    <2> USE <2>0 DEF ring, manager, events, threads
    <2>6. PlaceInv'
      BY DEF Inv, PlaceInv
    <2>7. RingInv' /\ LifeInv' /\ PostInv' /\ CountInv'
      BY <2>4, RingFrame, IdleFrame, LifeFrame, PostFrame, CountFrame DEF Inv
    <2>8. NotCalledAfterRemove'
      <3>1. ASSUME NEW e \in Event, handler[e] # NULL, handler[e] \in OneShot => pc[e] = "remove"
            PROVE  listenerEntryList'[key[e]][listnCntr[e]] = handler[e]
        <4>1. listenerEntryList[key[e]][listnCntr[e]] = handler[e] /\ listnCntr[e] \in Slot /\ e \in Active
          BY <3>1, Names DEF Inv, LockInv, NotCalledAfterRemove, Active, Calling, Posting
        <4>2. key[e] \in Key
          BY <4>1 DEF Inv, LifeInv
        <4>3. key[e] # k \/ listnCntr[e] # i
          BY <2>2, <3>1, <4>1
        <4> QED
          BY <2>3, <4>1, <4>2, <4>3
      <3> QED
        BY <3>1 DEF NotCalledAfterRemove
    <2>9. LockInv'
      BY <2>8 DEF Inv, LockInv
    <2> QED
      BY <2>5, <2>6, <2>7, <2>9 DEF Inv
  <1> QED
    BY <1>1, <1>2

\* Removing an entry of a list that no other thread has locked.
LEMMA RemoveFacts ==
  ASSUME Inv, NEW t \in Thread, NEW k \in Key, NEW l \in Listener \cup {NULL}, removeListener(t, k, l)
  PROVE  /\ listenerEntryList' \in [Key -> [Slot -> Listener \cup {NULL}]]
         /\ listenerListLock[k] = NULL \/ listenerListLock[k] = t
         /\ \A e \in Event :
              /\ e # t /\ handler[e] # NULL /\ (handler[e] \in OneShot => pc[e] = "remove")
              => listenerEntryList'[key[e]][listnCntr[e]] = handler[e]
  <1> DEFINE found == {i \in Slot : listenerEntryList[k][i] = l}
  <1>1. /\ listenerListLock[k] \in {NULL, t}
        /\ listenerEntryList' = IF found = {} THEN listenerEntryList
                                ELSE [listenerEntryList EXCEPT ![k][Min(found)] = NULL]
    BY DEF removeListener, CanLock
  <1>2. /\ listenerEntryList' \in [Key -> [Slot -> Listener \cup {NULL}]]
        /\ \A k2 \in Key : k2 # k => listenerEntryList'[k2] = listenerEntryList[k2]
    <2>1. CASE found = {}
      BY <1>1, <2>1 DEF Inv, TypeOK
    <2>2. CASE found # {}
      <3>1. PICK i \in found : i = Min(found)
        BY <2>2, FirstSlot
      <3>2. i \in Slot /\ NULL \in Listener \cup {NULL}
        BY <3>1
      <3>3. listenerEntryList' = [listenerEntryList EXCEPT ![k][i] = NULL]
        BY <1>1, <2>2, <3>1
      <3> HIDE DEF found
      <3> QED
        BY <3>2, <3>3, EntryChanged DEF Inv
    <2> QED
      BY <2>1, <2>2
  <1> HIDE DEF found
  <1>3. ASSUME NEW e \in Event, e # t, handler[e] # NULL, handler[e] \in OneShot => pc[e] = "remove"
        PROVE  listenerEntryList'[key[e]][listnCntr[e]] = handler[e]
    <2>1. pc[e] \in Calling /\ listenerEntryList[key[e]][listnCntr[e]] = handler[e]
      BY <1>3 DEF Inv, LockInv, NotCalledAfterRemove
    <2>2. e \in Active /\ listenerListLock[key[e]] = e
      BY <2>1 DEF Inv, LockInv, Active, Looping, Calling, Posting
    <2>3. key[e] \in Key /\ key[e] # k
      BY <1>1, <1>3, <2>2, Names DEF Inv, LifeInv
    <2> QED
      BY <1>2, <2>1, <2>3
  <1> QED
    BY <1>1, <1>2, <1>3

\* A client removes a listener while no dispatching thread has the list locked.
LEMMA RemoveListenerStep ==
  ASSUME Inv, NEW c \in Client, NEW k \in Key, NEW l \in Listener, RemoveListener(c, k, l)
  PROVE  Inv'
  <1>0. /\ removeListener(c, k, l)
        /\ UNCHANGED <<ring, manager, created, listenerListLock, events, threads>>
    BY DEF RemoveListener
  <1>1. /\ listenerEntryList' \in [Key -> [Slot -> Listener \cup {NULL}]]
        /\ \A e \in Event : /\ e # c /\ handler[e] # NULL /\ (handler[e] \in OneShot => pc[e] = "remove")
                            => listenerEntryList'[key[e]][listnCntr[e]] = handler[e]
    BY <1>0, RemoveFacts, Names
  <1>2. \A e \in Event : e # c
    BY Names
  <1>3. Active' = Active /\ SemPosters' = SemPosters
    BY <1>0 DEF Active, SemPosters, threads
  <1>4. TypeOK'
    BY <1>0, <1>1 DEF Inv, TypeOK, ring, manager, events, threads
  <1> USE <1>0 DEF ring, manager, events, threads
  <1>5. PlaceInv'
    BY DEF Inv, PlaceInv
  <1>6. RingInv' /\ LifeInv' /\ PostInv' /\ CountInv'
    BY <1>3, RingFrame, IdleFrame, LifeFrame, PostFrame, CountFrame DEF Inv
  <1>7. NotCalledAfterRemove'
    BY <1>1, <1>2 DEF NotCalledAfterRemove
  <1>8. LockInv'
    BY <1>7 DEF Inv, LockInv
  <1> QED
    BY <1>4, <1>5, <1>6, <1>8 DEF Inv

-----------------------------------------------------------------------------
(* em_handleOneEvent *)

\* What every move of a dispatching thread between two places outside em_postEvent
\* has in common.
LEMMA DispatchFrame ==
  ASSUME Inv, NEW e \in Event, NEW p \in {"lock", "finish", "loop", "join", "remove", "handler"},
         pc[e] \in {"find", "lock", "loop", "join", "remove", "handler", "return"},
         pc' = [pc EXCEPT ![e] = p], UNCHANGED <<ring, manager, events, posting>>
  PROVE  /\ pc' \in [Thread -> Place] /\ pc'[e] = p /\ \A u \in Thread : u # e => pc'[u] = pc[u]
         /\ Active' = Active /\ e \in Active
         /\ PlaceInv' /\ RingInv' /\ PostInv' /\ CountInv'
  <1>1. e \in Thread /\ e \notin Client /\ e \notin Worker /\ p \in Place
    BY Names DEF Place
  <1>2. pc' \in [Thread -> Place] /\ pc'[e] = p /\ \A u \in Thread : u # e => pc'[u] = pc[u]
    BY <1>1, Moved DEF Inv
  <1>3. Active' = Active
    BY <1>1, ActiveMoved DEF Inv
  <1>4. SemPosters' = SemPosters
    BY <1>2 DEF SemPosters
  <1>5. PlaceInv'
    BY <1>1, <1>2, Names DEF Inv, PlaceInv, Looping, Calling, Posting
  <1>6. RingInv'
    BY <1>3, RingFrame, IdleFrame DEF Inv, ring, manager, events
  <1>7. PostInv'
    BY <1>2, PostFrame DEF Inv, events
  <1>8. CountInv'
    BY <1>2, <1>4, CountFrame DEF Inv, ring, manager
  <1>9. e \in Active
    BY DEF Active
  <1> QED
    BY <1>2, <1>3, <1>5, <1>6, <1>7, <1>8, <1>9

\* The dispatching thread looks for the list of its event.
LEMMA FindStep ==
  ASSUME Inv, NEW e \in Event, Find(e)
  PROVE  Inv'
  <1>0. PICK p \in {"lock", "finish"} : p = IF key[e] \in created THEN "lock" ELSE "finish"
    OBVIOUS
  <1>1. /\ pc[e] = "find" /\ pc' = [pc EXCEPT ![e] = p]
        /\ UNCHANGED <<ring, manager, listeners, events, posting, listnCntr, handler>>
    BY <1>0 DEF Find
  <1>2. /\ pc' \in [Thread -> Place] /\ pc'[e] = p /\ \A u \in Thread : u # e => pc'[u] = pc[u]
        /\ Active' = Active /\ e \in Active
        /\ PlaceInv' /\ RingInv' /\ PostInv' /\ CountInv'
    BY <1>1, DispatchFrame
  <1>3. TypeOK'
    BY <1>1, <1>2 DEF Inv, TypeOK, ring, manager, listeners, events
  <1>4. LifeInv'
    BY <1>1, <1>2, LifeFrame, Names DEF Inv, events, Looping, Calling, Posting
  <1>5. LockInv'
    BY <1>1, <1>2, LockFrame, Names DEF Inv, listeners, events, Looping, Calling, Posting
  <1> QED
    BY <1>2, <1>3, <1>4, <1>5 DEF Inv

\* The list is locked for a loop from its first slot.
LEMMA LockListStep ==
  ASSUME Inv, NEW e \in Event, LockList(e)
  PROVE  Inv'
  <1>1. /\ pc[e] = "lock" /\ listenerListLock[key[e]] = NULL
        /\ listenerListLock' = [listenerListLock EXCEPT ![key[e]] = e]
        /\ pc' = [pc EXCEPT ![e] = "loop"] /\ listnCntr' = [listnCntr EXCEPT ![e] = 0]
        /\ UNCHANGED <<ring, manager, created, listenerEntryList, events, posting, handler>>
    BY DEF LockList
  <1>2. /\ pc' \in [Thread -> Place] /\ pc'[e] = "loop" /\ \A u \in Thread : u # e => pc'[u] = pc[u]
        /\ Active' = Active /\ e \in Active
        /\ PlaceInv' /\ RingInv' /\ PostInv' /\ CountInv'
    BY <1>1, DispatchFrame
  <1>3. PICK k \in Key : k = key[e]
    BY <1>2 DEF Inv, LifeInv
  <1>4. /\ listenerListLock' \in [Key -> Event \cup {NULL}] /\ listenerListLock'[k] = e
        /\ \A k2 \in Key : k2 # k => listenerListLock'[k2] = listenerListLock[k2]
    BY <1>1, <1>3 DEF Inv, TypeOK
  <1>5. /\ listnCntr' \in [Event -> 0..MaxListeners] /\ \A a \in Event : a # e => listnCntr'[a] = listnCntr[a]
    BY <1>1, EventManagerAssumption DEF Inv, TypeOK
  <1>6. TypeOK'
    BY <1>1, <1>2, <1>4, <1>5 DEF Inv, TypeOK, ring, manager, events
  <1>7. LifeInv'
    BY <1>1, <1>2, <1>5, LifeFrame, Names DEF Inv, events, Looping, Calling, Posting
  <1>8. LockInv'
    <2>1. handler[e] = NULL
      BY <1>1 DEF Inv, LockInv, Calling, Posting
    <2>2. ASSUME NEW a \in Event, pc'[a] \in Looping PROVE listenerListLock'[key'[a]] = a
      <3>1. CASE a = e
        BY <1>1, <1>3, <1>4, <3>1 DEF events
      <3>2. CASE a # e
        <4>1. pc[a] \in Looping /\ a \in Active
          BY <1>2, <2>2, <3>2, Names DEF Active, Looping, Calling, Posting
        <4>2. listenerListLock[key[a]] = a /\ key[a] \in Key
          BY <4>1 DEF Inv, LockInv, LifeInv
        <4> QED
          BY <1>1, <1>3, <1>4, <4>2, Names DEF events
      <3> QED
        BY <3>1, <3>2
    <2>3. /\ \A a \in Event : pc'[a] \in Calling => listnCntr'[a] \in Slot
          /\ \A a \in Event : handler'[a] # NULL => pc'[a] \in Calling
          /\ \A a \in Event : pc'[a] = "remove" => handler'[a] \in OneShot
      BY <1>1, <1>2, <1>5, <2>1, Names DEF Inv, LockInv, Calling, Posting
    <2>4. NotCalledAfterRemove'
      <3>1. ASSUME NEW a \in Event, handler[a] # NULL, handler[a] \in OneShot => pc'[a] = "remove"
            PROVE  listenerEntryList[key[a]][listnCntr'[a]] = handler[a]
        <4>1. a # e /\ listnCntr'[a] = listnCntr[a] /\ pc'[a] = pc[a]
          BY <1>2, <1>5, <2>1, <3>1, Names
        <4> QED
          BY <3>1, <4>1 DEF Inv, LockInv, NotCalledAfterRemove
      <3> QED
        BY <1>1, <3>1 DEF NotCalledAfterRemove, events
    <2> QED
      BY <2>2, <2>3, <2>4 DEF LockInv
  <1> QED
    BY <1>2, <1>6, <1>7, <1>8 DEF Inv

\* The next slot with a listener.
LEMMA NextSlot ==
  ASSUME Inv, NEW e \in Event, e \in Active, Ahead(e) # {}
  PROVE  \E i \in Slot : /\ i = Min(Ahead(e)) /\ i >= listnCntr[e]
                         /\ listenerEntryList[key[e]][i] \in Listener
  <1>1. Ahead(e) \in SUBSET Slot
    BY DEF Ahead
  <1>2. PICK i \in Ahead(e) : i = Min(Ahead(e))
    BY <1>1, FirstSlot
  <1>3. key[e] \in Key
    BY DEF Inv, LifeInv
  <1>4. i \in Slot /\ i >= listnCntr[e] /\ listenerEntryList[key[e]][i] # NULL
    BY <1>2 DEF Ahead
  <1>5. listenerEntryList[key[e]][i] \in Listener
    BY <1>3, <1>4 DEF Inv, TypeOK
  <1> QED
    BY <1>2, <1>4, <1>5

\* The function of an entry is called while the entry is in its place.
LEMMA LoopCallStep ==
  ASSUME Inv, NEW e \in Event, LoopCall(e)
  PROVE  Inv'
  <1>0. pc[e] = "loop" /\ e \in Active /\ Ahead(e) # {}
    BY DEF LoopCall, Active
  <1>1. PICK i \in Slot : /\ i = Min(Ahead(e)) /\ i >= listnCntr[e]
                          /\ listenerEntryList[key[e]][i] \in Listener
    BY <1>0, NextSlot
  <1>2. PICK l \in Listener : l = listenerEntryList[key[e]][i]
    BY <1>1
  <1>3. PICK p \in {"remove", "handler"} : p = Entry(l) /\ (p = "remove" <=> l \in OneShot)
    BY DEF Entry
  <1>4. /\ pc' = [pc EXCEPT ![e] = p]
        /\ handler' = [handler EXCEPT ![e] = l]
        /\ listnCntr' = [listnCntr EXCEPT ![e] = i]
        /\ UNCHANGED <<ring, manager, listeners, events, posting>>
    BY <1>1, <1>2, <1>3 DEF LoopCall
  <1>5. /\ pc' \in [Thread -> Place] /\ pc'[e] = p /\ \A u \in Thread : u # e => pc'[u] = pc[u]
        /\ Active' = Active /\ e \in Active
        /\ PlaceInv' /\ RingInv' /\ PostInv' /\ CountInv'
    BY <1>0, <1>4, DispatchFrame
  <1>6. /\ listnCntr' \in [Event -> 0..MaxListeners] /\ listnCntr'[e] = i
        /\ \A a \in Event : a # e => listnCntr'[a] = listnCntr[a]
    BY <1>4, EventManagerAssumption DEF Inv, TypeOK, Slot
  <1>7. /\ handler' \in [Thread -> Listener \cup {NULL}] /\ handler'[e] = l
        /\ \A u \in Thread : u # e => handler'[u] = handler[u]
    BY <1>4, Names DEF Inv, TypeOK
  <1>8. TypeOK'
    BY <1>4, <1>5, <1>6, <1>7 DEF Inv, TypeOK, ring, manager, listeners, events
  <1>9. LifeInv'
    <2>1. \A a \in Event : pc[a] \in Looping \cup {"join"} => pc'[a] \in Looping \cup {"join"}
      BY <1>5, Names DEF Looping, Calling, Posting
    <2>2. \A a \in Event, j \in Slot : j < listnCntr[a] => j < listnCntr'[a]
      <3>1. \A a \in Event : listnCntr[a] \in Nat
        BY EventManagerAssumption DEF Inv, TypeOK
      <3> QED
        BY <1>1, <1>6, <3>1 DEF Slot
    <2> QED
      BY <1>4, <1>5, <2>1, <2>2 DEF Inv, LifeInv, events
  <1>10. LockInv'
    <2>1. /\ \A a \in Event : pc'[a] \in Looping => listenerListLock'[key'[a]] = a
          /\ \A a \in Event : pc'[a] \in Calling => listnCntr'[a] \in Slot
          /\ \A a \in Event : handler'[a] # NULL => pc'[a] \in Calling
          /\ \A a \in Event : pc'[a] = "remove" => handler'[a] \in OneShot
      BY <1>0, <1>3, <1>4, <1>5, <1>6, <1>7, Names DEF Inv, LockInv, listeners, events, Looping, Calling, Posting
    <2>2. NotCalledAfterRemove'
      BY <1>2, <1>4, <1>5, <1>6, <1>7, Names DEF Inv, LockInv, NotCalledAfterRemove, listeners, events
    <2> QED
      BY <2>1, <2>2 DEF LockInv
  <1> QED
    BY <1>5, <1>8, <1>9, <1>10 DEF Inv

\* A listener thread is started for a slot that has none yet.
LEMMA LoopForkStep ==
  ASSUME Inv, NEW e \in Event, LoopFork(e)
  PROVE  Inv'
  <1>0. pc[e] = "loop" /\ e \in Active /\ Ahead(e) # {}
    BY DEF LoopFork, Active
  <1>1. PICK i \in Slot : /\ i = Min(Ahead(e)) /\ i >= listnCntr[e]
                          /\ listenerEntryList[key[e]][i] \in Listener
    BY <1>0, NextSlot
  <1>2. PICK l \in Listener : l = listenerEntryList[key[e]][i]
    BY <1>1
  <1>3. PICK p \in {"remove", "handler"} : p = Entry(l)
    BY DEF Entry
  <1>4. PICK w \in Worker : w = <<e, i>>
    BY Names
  <1>5. /\ listnCntr' = [listnCntr EXCEPT ![e] = i + 1]
        /\ \/ pc' = [pc EXCEPT ![w] = p] /\ handler' = [handler EXCEPT ![w] = l]
           \/ UNCHANGED <<pc, handler>>
        /\ UNCHANGED <<ring, manager, listeners, events, posting>>
    BY <1>1, <1>2, <1>3, <1>4 DEF LoopFork
  <1>6. w \in Thread /\ w \notin Event /\ w \notin Client
    BY Names
  <1>7. \A a \in Event : listnCntr[a] \in Nat
    BY EventManagerAssumption DEF Inv, TypeOK
  <1>8. w \notin Active /\ pc[w] = "none"
    <2>1. i \in Nat /\ ~(i < listnCntr[e])
      BY <1>1, <1>7, EventManagerAssumption DEF Slot
    <2> QED
      BY <1>4, <2>1 DEF Inv, LifeInv, Active
  <1>9. /\ listnCntr' \in [Event -> 0..MaxListeners] /\ listnCntr'[e] = i + 1
        /\ \A a \in Event : a # e => listnCntr'[a] = listnCntr[a]
    BY <1>5, EventManagerAssumption DEF Inv, TypeOK, Slot
  <1>10. /\ pc' \in [Thread -> Place] /\ pc'[w] \in {p, "none"}
         /\ \A u \in Thread : u # w => pc'[u] = pc[u]
    <2>1. CASE pc' = [pc EXCEPT ![w] = p]
      BY <1>6, <2>1, Moved DEF Inv, Place
    <2>2. CASE pc' = pc
      BY <1>8, <2>2 DEF Inv, TypeOK
    <2> QED
      BY <1>5, <2>1, <2>2
  <1>11. /\ handler' \in [Thread -> Listener \cup {NULL}]
         /\ \A u \in Thread : u # w => handler'[u] = handler[u]
    <2>1. handler \in [Thread -> Listener \cup {NULL}]
      BY DEF Inv, TypeOK
    <2>2. CASE handler' = [handler EXCEPT ![w] = l]
      BY <1>6, <2>1, <2>2
    <2>3. CASE handler' = handler
      BY <2>1, <2>3
    <2> QED
      BY <1>5, <2>2, <2>3
  <1>12. Active \subseteq Active' /\ Active' \subseteq Active \cup {w}
    BY <1>6, <1>8, <1>10, Names DEF Active
  <1>13. SemPosters' = SemPosters
    BY <1>6, <1>8, <1>10 DEF SemPosters
  <1>14. \A a \in Event : pc'[a] = pc[a] /\ handler'[a] = handler[a]
    BY <1>6, <1>10, <1>11, Names
  <1>15. TypeOK'
    BY <1>5, <1>9, <1>10, <1>11 DEF Inv, TypeOK, ring, manager, listeners, events
  <1>16. PlaceInv'
    BY <1>6, <1>10, Names DEF Inv, PlaceInv, Calling, Posting
  <1>17. RingInv'
    <2>1. ASSUME NEW a \in Event, Idle(a) PROVE Idle(a)'
      <3>1. a # e
        BY <1>0, <2>1 DEF Idle
      <3>2. \A j \in Slot : <<a, j>> # w
        BY <1>4, <3>1
      <3>3. a # w
        BY <1>6
      <3> QED
        BY <1>5, <1>12, <2>1, <3>2, <3>3 DEF Idle, events
    <2> QED
      BY <1>5, <2>1, RingFrame DEF Inv, ring, manager
  <1>18. LifeInv'
    <2>1. \A a \in Event : a \in Active' => a \in Active
      BY <1>6, <1>12
    <2>2. ASSUME NEW a \in Event, NEW j \in Slot, <<a, j>> \in Active'
          PROVE  pc'[a] \in Looping \cup {"join"} /\ j < listnCntr'[a]
      <3>1. CASE <<a, j>> = w
        <4>1. a = e /\ j = i
          BY <1>4, <3>1
        <4>2. j < i + 1
          BY <4>1, EventManagerAssumption DEF Slot
        <4> QED
          BY <1>0, <1>9, <1>14, <4>1, <4>2 DEF Looping
      <3>2. CASE <<a, j>> # w
        <4>1. <<a, j>> \in Active
          BY <1>12, <2>2, <3>2
        <4>2. pc[a] \in Looping \cup {"join"} /\ j < listnCntr[a]
          BY <4>1 DEF Inv, LifeInv
        <4>3. j < listnCntr'[a]
          BY <1>1, <1>7, <1>9, <4>2, EventManagerAssumption DEF Slot
        <4> QED
          BY <1>14, <4>2, <4>3
      <3> QED
        BY <3>1, <3>2
    <2> QED
      BY <1>5, <2>1, <2>2 DEF Inv, LifeInv, events
  <1>19. PostInv'
    BY <1>5, <1>8, <1>10, PostFrame DEF Inv, events
  <1>20. LockInv'
    <2>1. pc[e] \notin Calling /\ handler[e] = NULL
      BY <1>0 DEF Inv, LockInv, Calling, Posting
    <2>2. /\ \A a \in Event : pc'[a] \in Looping => listenerListLock'[key'[a]] = a
          /\ \A a \in Event : pc'[a] \in Calling => listnCntr'[a] \in Slot
          /\ \A a \in Event : handler'[a] # NULL => pc'[a] \in Calling
          /\ \A a \in Event : pc'[a] = "remove" => handler'[a] \in OneShot
      BY <1>5, <1>9, <1>14, <2>1 DEF Inv, LockInv, listeners, events
    <2>3. NotCalledAfterRemove'
      BY <1>5, <1>9, <1>14, <2>1 DEF Inv, LockInv, NotCalledAfterRemove, listeners, events
    <2> QED
      BY <2>2, <2>3 DEF LockInv
  <1>21. CountInv'
    BY <1>5, <1>8, <1>10, <1>13, CountFrame DEF Inv, ring, manager
  <1> QED
    BY <1>15, <1>16, <1>17, <1>18, <1>19, <1>20, <1>21 DEF Inv

\* The loop ends, and with it the hold on the list.
LEMMA LoopEndStep ==
  ASSUME Inv, NEW e \in Event, LoopEnd(e)
  PROVE  Inv'
  <1>1. /\ pc[e] = "loop" /\ listenerListLock' = [listenerListLock EXCEPT ![key[e]] = NULL]
        /\ pc' = [pc EXCEPT ![e] = "join"]
        /\ UNCHANGED <<ring, manager, created, listenerEntryList, events, posting, listnCntr, handler>>
    BY DEF LoopEnd
  <1>2. /\ pc' \in [Thread -> Place] /\ pc'[e] = "join" /\ \A u \in Thread : u # e => pc'[u] = pc[u]
        /\ Active' = Active /\ e \in Active
        /\ PlaceInv' /\ RingInv' /\ PostInv' /\ CountInv'
    BY <1>1, DispatchFrame
  <1>3. PICK k \in Key : k = key[e] /\ listenerListLock[k] = e
    BY <1>1, <1>2 DEF Inv, LifeInv, LockInv, Looping
  <1>4. /\ listenerListLock' \in [Key -> Event \cup {NULL}]
        /\ \A k2 \in Key : k2 # k => listenerListLock'[k2] = listenerListLock[k2]
    BY <1>1, <1>3 DEF Inv, TypeOK
  <1>5. TypeOK'
    BY <1>1, <1>2, <1>4 DEF Inv, TypeOK, ring, manager, events
  <1>6. LifeInv'
    BY <1>1, <1>2, LifeFrame, Names DEF Inv, events
  <1>7. LockInv'
    <2>1. handler[e] = NULL
      BY <1>1 DEF Inv, LockInv, Calling, Posting
    <2>2. ASSUME NEW a \in Event, pc'[a] \in Looping PROVE listenerListLock'[key'[a]] = a
      <3>1. a # e /\ pc[a] \in Looping
        BY <1>2, <2>2, Names DEF Looping, Calling, Posting
      <3>2. listenerListLock[key[a]] = a /\ key[a] \in Key
        BY <3>1 DEF Inv, LockInv, LifeInv, Active, Looping, Calling, Posting
      <3> QED
        BY <1>1, <1>3, <1>4, <3>1, <3>2 DEF events
    <2>3. /\ \A a \in Event : pc'[a] \in Calling => listnCntr'[a] \in Slot
          /\ \A a \in Event : handler'[a] # NULL => pc'[a] \in Calling
          /\ \A a \in Event : pc'[a] = "remove" => handler'[a] \in OneShot
      BY <1>1, <1>2, <2>1, Names DEF Inv, LockInv, Calling, Posting
    <2>4. NotCalledAfterRemove'
      BY <1>1, <1>2, <2>1, Names DEF Inv, LockInv, NotCalledAfterRemove, events
    <2> QED
      BY <2>2, <2>3, <2>4 DEF LockInv
  <1> QED
    BY <1>2, <1>5, <1>6, <1>7 DEF Inv

\* The dispatching thread goes on when none of its listener threads runs.
LEMMA JoinAllStep ==
  ASSUME Inv, NEW e \in Event, JoinAll(e)
  PROVE  Inv'
  <1>1. /\ pc[e] = "join" /\ \A i \in Slot : pc[<<e, i>>] = "none"
        /\ pc' = [pc EXCEPT ![e] = "finish"]
        /\ UNCHANGED <<ring, manager, listeners, events, posting, listnCntr, handler>>
    BY DEF JoinAll
  <1>2. /\ pc' \in [Thread -> Place] /\ pc'[e] = "finish" /\ \A u \in Thread : u # e => pc'[u] = pc[u]
        /\ Active' = Active /\ e \in Active
        /\ PlaceInv' /\ RingInv' /\ PostInv' /\ CountInv'
    BY <1>1, DispatchFrame
  <1>3. TypeOK'
    BY <1>1, <1>2 DEF Inv, TypeOK, ring, manager, listeners, events
  <1>4. LifeInv'
    <2>1. \A i \in Slot : <<e, i>> \notin Active
      BY <1>1 DEF Active
    <2>2. \A a \in Event : a # e => pc'[a] = pc[a]
      BY <1>2, Names
    <2> QED
      BY <1>1, <1>2, <2>1, <2>2 DEF Inv, LifeInv, events
  <1>5. LockInv'
    BY <1>1, <1>2, LockFrame, Names DEF Inv, listeners, events, Looping, Calling, Posting
  <1> QED
    BY <1>2, <1>3, <1>4, <1>5 DEF Inv

\* The last use of the event by its dispatching thread.
LEMMA finishedWithEventStep ==
  ASSUME Inv, NEW e \in Event, finishedWithEvent(e)
  PROVE  Inv'
  <1>1. /\ pc[e] = "finish" /\ pc' = [pc EXCEPT ![e] = "none"]
        /\ UNCHANGED <<ring, manager, listeners, posting, listnCntr, handler>>
        /\ \/ /\ isBlocking[e] /\ semaphore' = [semaphore EXCEPT ![e] = @ + 1]
              /\ UNCHANGED <<allocated, key, isBlocking, nested>>
           \/ ~isBlocking[e] /\ freeEvent(e)
    BY DEF finishedWithEvent
  <1>2. e \in Thread /\ e \notin Client /\ e \notin Worker
    BY Names
  <1>3. pc' \in [Thread -> Place] /\ pc'[e] = "none" /\ \A u \in Thread : u # e => pc'[u] = pc[u]
    BY <1>1, <1>2, Moved DEF Inv, Place
  <1>4. e \in Active /\ Active' = Active \ {e} /\ SemPosters' = SemPosters
    BY <1>1, <1>2, <1>3, Names DEF Active, SemPosters
  <1>5. e \in allocated /\ semaphore[e] = 0 /\ \A i \in Slot : <<e, i>> \notin Active
    BY <1>1, <1>4 DEF Inv, LifeInv, Looping, Calling, Posting
  <1>6. /\ allocated' = (IF isBlocking[e] THEN allocated ELSE allocated \ {e})
        /\ key' \in [Event -> Key \cup {NULL}] /\ \A a \in Event : a # e \/ isBlocking[e] => key'[a] = key[a]
        /\ isBlocking' \in [Event -> BOOLEAN]
        /\ \A a \in Event : a # e \/ isBlocking[e] => isBlocking'[a] = isBlocking[a]
        /\ nested' \in [Event -> BOOLEAN]
        /\ semaphore' \in [Event -> {0, 1}] /\ semaphore'[e] = (IF isBlocking[e] THEN 1 ELSE 0)
        /\ \A a \in Event : a # e => semaphore'[a] = semaphore[a]
    <2>1. CASE isBlocking[e]
      <3>1. semaphore' = [semaphore EXCEPT ![e] = @ + 1] /\ UNCHANGED <<allocated, key, isBlocking, nested>>
        BY <1>1, <2>1
      <3>2. semaphore \in [Event -> {0, 1}] /\ key \in [Event -> Key \cup {NULL}]
            /\ isBlocking \in [Event -> BOOLEAN] /\ nested \in [Event -> BOOLEAN]
        BY DEF Inv, TypeOK
      <3>3. /\ semaphore' \in [Event -> {0, 1}] /\ semaphore'[e] = 1
            /\ \A a \in Event : a # e => semaphore'[a] = semaphore[a]
        BY <1>5, <3>1, <3>2
      <3> QED
        BY <2>1, <3>1, <3>2, <3>3
    <2>2. CASE ~isBlocking[e]
      BY <1>1, <2>2, FreeFacts DEF Inv
    <2> QED
      BY <2>1, <2>2
  <1>7. TypeOK'
    BY <1>1, <1>3, <1>6, SMTT(20) DEF Inv, TypeOK, ring, manager, listeners
  <1>8. PlaceInv'
    BY <1>2, <1>3, Names DEF Inv, PlaceInv
  <1>9. RingInv'
    <2>1. \A a \in Event : Idle(a) => a # e
      BY <1>4 DEF Idle
    <2>2. \A a \in Event : Idle(a) => Idle(a)'
      BY <1>4, <1>6, <2>1 DEF Idle
    <2> QED
      BY <1>1, <2>2, RingFrame DEF Inv, ring, manager
  <1>10. LifeInv'
    <2>1. \A a \in Event : a # e => pc'[a] = pc[a]
      BY <1>3, Names
    <2>2. allocated \subseteq Event
      BY DEF Inv, TypeOK
    <2>3. \A a \in allocated' : key'[a] = key[a] /\ a \in allocated
      BY <1>6, <2>2
    <2>4. \A a \in Event : a \in Active' => a \in Active /\ a # e
      BY <1>4
    <2>5. \A a \in Event, i \in Slot : <<a, i>> \in Active' => <<a, i>> \in Active /\ a # e
      BY <1>4, <1>5
    <2>6. \A a \in Event : a \in Active' => a \in allocated' /\ semaphore'[a] = 0
      BY <1>6, <2>4 DEF Inv, LifeInv
    <2>7. \A a \in Event : semaphore'[a] = 1 => a \in allocated'
      BY <1>5, <1>6 DEF Inv, LifeInv
    <2> QED
      BY <1>1, <2>1, <2>3, <2>5, <2>6, <2>7 DEF Inv, LifeInv
  <1>11. PostInv'
    <2>1. \A u \in Thread : posting[u] # NULL => posting[u] \in Event /\ (posting[u] # e \/ isBlocking[e])
      BY DEF Inv, PostInv, TypeOK
    <2>2. \A u \in Thread : posting[u] # NULL => posting[u] \in allocated' /\ isBlocking'[posting[u]]
      BY <1>6, <2>1 DEF Inv, PostInv
    <2>3. \A u \in Thread : posting[u] # NULL => pc'[u] \in {"semPost", "semWait"}
      BY <1>1, <1>3 DEF Inv, PostInv
    <2>4. \A u \in Thread : pc'[u] = "semWait" => posting[u] # NULL
      BY <1>3 DEF Inv, PostInv
    <2> QED
      BY <1>1, <2>2, <2>3, <2>4 DEF Inv, PostInv
  <1>12. LockInv'
    <2>1. \A a \in Event : pc[a] \in Looping => key'[a] = key[a]
      BY <1>1, <1>6 DEF Looping, Calling, Posting
    <2> QED
      BY <1>1, <1>3, <2>1, LockFrame, Names DEF Inv, listeners, Looping, Calling, Posting
  <1>13. CountInv'
    BY <1>1, <1>3, <1>4, CountFrame DEF Inv, ring, manager
  <1> QED
    BY <1>7, <1>8, <1>9, <1>10, <1>11, <1>12, <1>13 DEF Inv

-----------------------------------------------------------------------------
(* The handler functions *)

\* A handler that removes itself is in the thread that has the list locked, or
\* waits until it is free.
LEMMA HandlerRemovesStep ==
  ASSUME Inv, NEW t \in Event \cup Worker, HandlerRemoves(t)
  PROVE  Inv'
  <1>1. /\ pc[t] = "remove" /\ removeListener(t, key[EventOf(t)], handler[t])
        /\ pc' = [pc EXCEPT ![t] = "handler"]
        /\ UNCHANGED <<ring, manager, created, listenerListLock, events, posting, listnCntr, handler>>
    BY DEF HandlerRemoves
  <1>2. t \in Thread /\ t \notin Client /\ t \in Active
    BY <1>1, Names DEF Active
  <1>3. pc' \in [Thread -> Place] /\ pc'[t] = "handler" /\ \A u \in Thread : u # t => pc'[u] = pc[u]
    BY <1>1, <1>2, Moved DEF Inv, Place
  <1>4. Active' = Active /\ SemPosters' = SemPosters
    BY <1>1, <1>2, <1>3, ActiveMoved DEF Inv, SemPosters, Place
  <1>5. PICK k \in Key : k = key[EventOf(t)]
    BY <1>1 DEF removeListener, Inv, TypeOK
  <1>6. /\ listenerEntryList' \in [Key -> [Slot -> Listener \cup {NULL}]]
        /\ \A a \in Event : /\ a # t /\ handler[a] # NULL /\ (handler[a] \in OneShot => pc[a] = "remove")
                            => listenerEntryList'[key[a]][listnCntr[a]] = handler[a]
    <2>1. PICK l \in Listener \cup {NULL} : l = handler[t]
      BY <1>2 DEF Inv, TypeOK
    <2> QED
      BY <1>1, <1>2, <1>5, <2>1, RemoveFacts
  <1>7. TypeOK'
    BY <1>1, <1>3, <1>6 DEF Inv, TypeOK, ring, manager, events
  <1>8. PlaceInv'
    BY <1>2, <1>3, Names DEF Inv, PlaceInv, Looping, Calling, Posting
  <1>9. RingInv'
    BY <1>1, <1>4, RingFrame, IdleFrame DEF Inv, ring, manager, events
  <1>10. LifeInv'
    BY <1>1, <1>3, <1>4, LifeFrame, Names DEF Inv, events, Looping, Calling, Posting
  <1>11. PostInv'
    BY <1>1, <1>3, PostFrame DEF Inv, events
  <1>12. LockInv'
    <2>1. /\ \A a \in Event : pc'[a] \in Looping => pc[a] \in Looping
          /\ \A a \in Event : pc'[a] \in Calling <=> pc[a] \in Calling
          /\ \A a \in Event : pc'[a] = "remove" => pc[a] = "remove" /\ a # t
      BY <1>1, <1>3, Names DEF Looping, Calling, Posting
    <2>2. NotCalledAfterRemove'
      <3>1. ASSUME NEW a \in Event, handler[a] # NULL, handler[a] \in OneShot => pc'[a] = "remove"
            PROVE  listenerEntryList'[key[a]][listnCntr[a]] = handler[a]
        <4>1. a # t
          BY <1>1, <1>3, <3>1 DEF Inv, LockInv
        <4>2. handler[a] \in OneShot => pc[a] = "remove"
          BY <2>1, <3>1
        <4> QED
          BY <1>6, <3>1, <4>1, <4>2
      <3> QED
        BY <1>1, <3>1 DEF NotCalledAfterRemove, events
    <2> QED
      BY <1>1, <2>1, <2>2 DEF Inv, LockInv, events
  <1>13. CountInv'
    BY <1>1, <1>3, <1>4, CountFrame DEF Inv, ring, manager
  <1> QED
    BY <1>7, <1>8, <1>9, <1>10, <1>11, <1>12, <1>13 DEF Inv

\* A function that returns goes back to the loop, or ends its listener thread.
LEMMA HandlerReturnsStep ==
  ASSUME Inv, NEW t \in Event \cup Worker, HandlerReturns(t)
  PROVE  Inv'
  <1>1. /\ pc[t] \in {"return", "handler"} /\ handler' = [handler EXCEPT ![t] = NULL]
        /\ \/ /\ t \in Event /\ pc' = [pc EXCEPT ![t] = "loop"]
              /\ listnCntr' = [listnCntr EXCEPT ![t] = @ + 1]
           \/ t \in Worker /\ pc' = [pc EXCEPT ![t] = "none"] /\ UNCHANGED listnCntr
        /\ UNCHANGED <<ring, manager, listeners, events, posting>>
    BY DEF HandlerReturns
  <1>2. t \in Thread /\ t \notin Client
    BY Names
  <1>3. /\ handler' \in [Thread -> Listener \cup {NULL}] /\ handler'[t] = NULL
        /\ \A u \in Thread : u # t => handler'[u] = handler[u]
    BY <1>1, <1>2 DEF Inv, TypeOK
  <1>4. CASE t \in Event
    <2>1. pc' = [pc EXCEPT ![t] = "loop"] /\ listnCntr' = [listnCntr EXCEPT ![t] = @ + 1] /\ t \notin Worker
      BY <1>1, <1>4, Names
    <2>2. /\ pc' \in [Thread -> Place] /\ pc'[t] = "loop" /\ \A u \in Thread : u # t => pc'[u] = pc[u]
          /\ Active' = Active /\ t \in Active
          /\ PlaceInv' /\ RingInv' /\ PostInv' /\ CountInv'
      BY <1>1, <1>4, <2>1, DispatchFrame
    <2>3. listnCntr[t] \in Slot /\ \A a \in Event : listnCntr[a] \in Nat
      BY <1>1, <1>4, EventManagerAssumption DEF Inv, LockInv, TypeOK, Calling
    <2>4. /\ listnCntr' \in [Event -> 0..MaxListeners] /\ listnCntr'[t] = listnCntr[t] + 1
          /\ \A a \in Event : a # t => listnCntr'[a] = listnCntr[a]
      BY <1>4, <2>1, <2>3, EventManagerAssumption DEF Inv, TypeOK, Slot
    <2>5. TypeOK'
      BY <1>1, <1>3, <2>2, <2>4 DEF Inv, TypeOK, ring, manager, listeners, events
    <2>6. LifeInv'
      <3>1. \A a \in Event : pc[a] \in Looping \cup {"join"} => pc'[a] \in Looping \cup {"join"}
        BY <2>2, Names DEF Looping
      <3>2. \A a \in Event, j \in Slot : j < listnCntr[a] => j < listnCntr'[a]
        BY <2>3, <2>4, EventManagerAssumption DEF Slot
      <3> QED
        BY <1>1, <2>2, <3>1, <3>2 DEF Inv, LifeInv, events
    <2>7. LockInv'
      <3>1. /\ \A a \in Event : pc'[a] \in Looping => listenerListLock'[key'[a]] = a
            /\ \A a \in Event : pc'[a] \in Calling => listnCntr'[a] \in Slot
            /\ \A a \in Event : handler'[a] # NULL => pc'[a] \in Calling
            /\ \A a \in Event : pc'[a] = "remove" => handler'[a] \in OneShot
        BY <1>1, <1>3, <2>2, <2>4, Names DEF Inv, LockInv, listeners, events, Looping, Calling, Posting
      <3>2. NotCalledAfterRemove'
        BY <1>1, <1>3, <2>2, <2>4, Names DEF Inv, LockInv, NotCalledAfterRemove, listeners, events
      <3> QED
        BY <3>1, <3>2 DEF LockInv
    <2> QED
      BY <2>2, <2>5, <2>6, <2>7 DEF Inv
  <1>5. CASE t \in Worker
    <2>1. pc' = [pc EXCEPT ![t] = "none"] /\ UNCHANGED listnCntr /\ t \notin Event
      BY <1>1, <1>5, Names
    <2>2. pc' \in [Thread -> Place] /\ pc'[t] = "none" /\ \A u \in Thread : u # t => pc'[u] = pc[u]
      BY <1>2, <2>1, Moved DEF Inv, Place
    <2>3. Active' = Active \ {t} /\ SemPosters' = SemPosters
      BY <1>1, <2>2, Names DEF Active, SemPosters
    <2>4. \A a \in Event : pc'[a] = pc[a] /\ handler'[a] = handler[a]
      BY <1>3, <2>1, <2>2, Names
    <2>5. TypeOK'
      BY <1>1, <1>3, <2>1, <2>2 DEF Inv, TypeOK, ring, manager, listeners, events
    <2>6. PlaceInv'
      BY <1>5, <2>2, Names DEF Inv, PlaceInv
    <2>7. RingInv'
      <3>1. \A a \in Event : Idle(a) => Idle(a)'
        BY <1>1, <2>3 DEF Idle, events
      <3> QED
        BY <1>1, <3>1, RingFrame DEF Inv, ring, manager
    <2>8. LifeInv'
      BY <1>1, <2>1, <2>3, <2>4 DEF Inv, LifeInv, events
    <2>9. PostInv'
      BY <1>1, <2>2, PostFrame DEF Inv, events
    <2>10. LockInv'
      <3>1. NotCalledAfterRemove'
        BY <1>1, <2>1, <2>4 DEF Inv, LockInv, NotCalledAfterRemove, listeners, events
      <3> QED
        BY <1>1, <2>1, <2>4, <3>1 DEF Inv, LockInv, listeners, events
    <2>11. CountInv'
      BY <1>1, <2>2, <2>3, CountFrame DEF Inv, ring, manager
    <2> QED
      BY <2>5, <2>6, <2>7, <2>8, <2>9, <2>10, <2>11 DEF Inv
  <1> QED
    BY <1>4, <1>5

-----------------------------------------------------------------------------
(* Invariance *)

\* The initial state satisfies the inductive invariant.
LEMMA InitInv == Init => Inv
  <1> SUFFICES ASSUME Init
               PROVE  Inv
    OBVIOUS
  <1> USE DEF Init
  <1>1. MaxEvents \in Nat \ {0} /\ MaxListeners \in Nat \ {0} /\ 0 \in 0..(MaxEvents - 1) /\ 0 \in 0..MaxListeners
    BY EventManagerAssumption
  <1>2. pc \in [Thread -> Place] /\ \A t \in Thread : pc[t] = IF t \in Client THEN "client" ELSE "none"
    BY DEF Place
  <1>3. TypeOK
    BY <1>1, <1>2 DEF TypeOK
  <1>4. PlaceInv
    BY <1>2, Names DEF PlaceInv
  <1>5. Active = {} /\ SemPosters = {}
    BY <1>2, Names DEF Active, SemPosters
  <1>6. RingInv
    <2>1. Span = {}
      BY <1>1 DEF Span, SpanOf
    <2> QED
      BY <2>1 DEF RingInv
  <1>7. LifeInv
    BY <1>5 DEF LifeInv
  <1>8. PostInv
    BY <1>2 DEF PostInv
  <1>9. LockInv
    BY <1>2, Names DEF LockInv, NotCalledAfterRemove, Looping, Calling, Posting
  <1>10. CountInv
    BY <1>2, <1>5, FS_EmptySet DEF CountInv
  <1> QED
    BY <1>3, <1>4, <1>6, <1>7, <1>8, <1>9, <1>10 DEF Inv

\* Every step preserves it.
LEMMA NextInv ==
  ASSUME EventsFit, Inv, [Next]_vars
  PROVE  Inv'
  <1>1. CASE Startup
    BY <1>1, StartupStep
  <1>2. CASE Shutdown
    BY <1>2, ShutdownStep
  <1>3. CASE MainLoop
    BY <1>3, MainTakeStep, MainAdvanceStep, MainForkStep DEF MainLoop
  <1>4. CASE \E t \in Thread : InPost(t)
    BY <1>4, PostInsertStep, PostSemPostStep, PostSemWaitStep DEF InPost
  <1>5. CASE \E c \in Client : PostCheck(c)
    BY <1>5, PostCheckStep, Names
  <1>6. CASE \E c \in Client, k \in Key, l \in Listener : AddListener(c, k, l) \/ RemoveListener(c, k, l)
    BY <1>6, AddListenerStep, RemoveListenerStep
  <1>7. CASE \E e \in Event : Dispatch(e)
    <2>1. PICK e \in Event : Dispatch(e)
      BY <1>7
    <2> QED
      BY <2>1, FindStep, LockListStep, LoopCallStep, LoopForkStep, LoopEndStep, JoinAllStep, finishedWithEventStep
         DEF Dispatch
  <1>8. CASE \E t \in Event \cup Worker : Handler(t)
    <2>1. PICK t \in Event \cup Worker : Handler(t)
      BY <1>8
    <2>2. t \in Thread
      BY Names
    <2> QED
      BY <2>1, <2>2, HandlerRemovesStep, PostCheckStep, HandlerReturnsStep DEF Handler
  <1>9. CASE UNCHANGED vars
    <2> USE <1>9 DEF vars
    <2>1. TypeOK' /\ PlaceInv'
      BY DEF Inv, TypeOK, PlaceInv
    <2>2. Active' = Active /\ SemPosters' = SemPosters
      BY DEF Active, SemPosters
    <2>3. RingInv' /\ LifeInv' /\ PostInv' /\ LockInv' /\ CountInv'
      BY <2>2, RingFrame, IdleFrame, LifeFrame, PostFrame, LockFrame, CountFrame DEF Inv
    <2> QED
      BY <2>1, <2>3 DEF Inv
  <1> QED
    BY <1>1, <1>2, <1>3, <1>4, <1>5, <1>6, <1>7, <1>8, <1>9 DEF Next

\* If the events fit into the ring, every state satisfies the inductive invariant.
THEOREM Invariance == EventsFit => (Spec => []Inv)
  <1> SUFFICES ASSUME EventsFit
               PROVE  Spec => []Inv
    OBVIOUS
  <1>1. Inv /\ [Next]_vars => Inv'
    BY NextInv
  <1> QED
    BY <1>1, InitInv, PTL DEF Spec

\* An event is not used by its threads, the main loop or its poster after it has
\* been freed, and it is only finished, by telling the poster or freeing it,
\* when the threads of all its listeners have ended (event.c: freeEvent,
\* em_handleOneEvent, em_postEvent).
THEOREM FreedInTime == EventsFit => (Spec => []EventsFreedInTime)
  <1>1. Inv => EventsFreedInTime
    <2> SUFFICES ASSUME Inv
                 PROVE  EventsFreedInTime
      OBVIOUS
    <2>1. \A e \in Event : pc[e] # "none" => e \in allocated /\ semaphore[e] = 0
      BY DEF Inv, LifeInv, Active
    <2>2. \A e \in Event, i \in Slot : pc[<<e, i>>] # "none" => pc[e] \in Looping \cup {"join"}
      BY Names DEF Inv, LifeInv, Active
    <2>3. \A t \in Event \cup Worker : pc[t] # "none" => EventOf(t) \in allocated
      <3>1. ASSUME NEW t \in Event \cup Worker, pc[t] # "none"
            PROVE  EventOf(t) \in allocated
        <4>1. CASE t \in Event
          BY <2>1, <3>1, <4>1, EventOfType
        <4>2. CASE t \in Worker
          <5>1. PICK e \in Event, i \in Slot : t = <<e, i>> /\ e = EventOf(t)
            BY <4>2, EventOfType
          <5> QED
            BY <2>1, <2>2, <3>1, <5>1 DEF Looping, Calling, Posting
        <4> QED
          BY <4>1, <4>2
      <3> QED
        BY <3>1
    <2>4. taken # NULL => taken \in allocated
      <3>1. mainLoop = "took" => frontEvent \in Span
        <4>1. frontEvent \in 0..(MaxEvents - 1) /\ backEvent \in 0..(MaxEvents - 1)
          BY DEF Inv, TypeOK
        <4> QED
          BY <4>1, FrontMoves DEF Inv, RingInv, Span
      <3> QED
        BY <3>1 DEF Inv, TypeOK, RingInv, Idle
    <2>5. \A t \in Thread : pc[t] = "semWait" => posting[t] \in allocated
      BY DEF Inv, PostInv
    <2>6. PostedWhenAllReturned
      <3>1. ASSUME NEW e \in Event, pc[e] = "finish" \/ semaphore[e] > 0
            PROVE  pc[e] \notin Looping \cup {"join"}
        <4>1. CASE pc[e] = "finish"
          BY <4>1 DEF Looping, Calling, Posting
        <4>2. CASE semaphore[e] > 0
          <5>1. pc[e] = "none"
            BY <2>1, <4>2
          <5> QED
            BY <5>1 DEF Looping, Calling, Posting
        <4> QED
          BY <3>1, <4>1, <4>2
      <3> QED
        BY <2>2, <3>1 DEF PostedWhenAllReturned
    <2> QED
      BY <2>3, <2>4, <2>5, <2>6 DEF EventsFreedInTime, NoUseAfterFree
  <1> QED
    BY <1>1, Invariance, PTL

\* A listener that is called in the dispatching thread is in the list for as long
\* as its function runs, unless it has removed itself (em_removeListener waits
\* for listenerListLock).
THEOREM NotCalledOnceRemoved == EventsFit => (Spec => []NotCalledAfterRemove)
  <1>1. Inv => NotCalledAfterRemove
    BY DEF Inv, LockInv
  <1> QED
    BY <1>1, Invariance, PTL

\* The semaphore and the indices agree, so em_mainLoop's assert holds and the
\* event it reads without the lock is the one it removes.
THEOREM RingIsSound == EventsFit => (Spec => []RingSound)
  <1>1. Inv => RingSound
    BY DEF Inv, RingInv, CountInv, SemPosters, RingSound
  <1> QED
    BY <1>1, Invariance, PTL

-----------------------------------------------------------------------------
(* The ring implements a FIFO queue of events *)

\* The slot of the n-th event.
Position(n) == (frontEvent + n - 1) % MaxEvents

Contents == [n \in 1..Pending |-> eventQueue[Position(n)]]

PositionPlain(n) == IF frontEvent + n - 1 < MaxEvents THEN frontEvent + n - 1
                                                       ELSE frontEvent + n - 1 - MaxEvents

\* The n-th event is in a slot of the ring that holds an event.
LEMMA PositionFacts ==
  ASSUME frontEvent \in 0..(MaxEvents - 1), backEvent \in 0..(MaxEvents - 1), NEW n \in 1..MaxEvents
  PROVE  /\ Position(n) = PositionPlain(n) /\ Position(n) \in 0..(MaxEvents - 1)
         /\ n <= Pending => Position(n) \in Span
         /\ n = Pending + 1 => Position(n) = backEvent
  <1>1. MaxEvents \in Nat \ {0}
    BY EventManagerAssumption
  <1>2. PICK x \in Int : x = frontEvent + n - 1
    BY <1>1
  <1>3. -MaxEvents <= x /\ x < 2 * MaxEvents /\ x >= 0
    BY <1>1, <1>2
  <1>4. x % MaxEvents = IF x < 0 THEN x + MaxEvents ELSE IF x < MaxEvents THEN x ELSE x - MaxEvents
    BY <1>1, <1>3, ModPlain
  <1>5. Position(n) = PositionPlain(n)
    <2>1. Position(n) = x % MaxEvents
      BY <1>2 DEF Position
    <2> QED
      BY <1>1, <1>2, <1>3, <1>4, <2>1 DEF PositionPlain
  <1>6. Pending = Distance(frontEvent, backEvent)
    BY DistancePlain DEF Pending
  <1> QED
    BY <1>1, <1>5, <1>6 DEF PositionPlain, Distance, Span, SpanOf

\* The contents are a sequence of events.
ContentsOK ==
  /\ Pending \in 0..(MaxEvents - 1) /\ Pending = Distance(frontEvent, backEvent)
  /\ Contents \in Seq(Event) /\ Len(Contents) = Pending
  /\ \A n \in 1..Pending : Contents[n] = eventQueue[Position(n)]

\* As long as the invariant holds.
LEMMA ContentsFacts ==
  ASSUME Inv
  PROVE  ContentsOK
  <1>1. /\ frontEvent \in 0..(MaxEvents - 1) /\ backEvent \in 0..(MaxEvents - 1)
        /\ MaxEvents \in Nat \ {0}
    BY EventManagerAssumption DEF Inv, TypeOK
  <1>2. Pending = Distance(frontEvent, backEvent) /\ Pending \in 0..(MaxEvents - 1)
    BY <1>1, DistancePlain DEF Pending
  <1>3. ASSUME NEW n \in 1..Pending PROVE eventQueue[Position(n)] \in Event
    <2>1. n \in 1..MaxEvents /\ n <= Pending
      BY <1>1, <1>2
    <2>2. Position(n) \in Span
      BY <1>1, <2>1, PositionFacts
    <2> QED
      BY <2>2 DEF Inv, RingInv
  <1>4. Contents \in [1..Pending -> Event]
    BY <1>3 DEF Contents
  <1>5. Contents \in Seq(Event) /\ Len(Contents) = Pending
    BY <1>2, <1>4
  <1> QED
    BY <1>2, <1>5 DEF Contents, ContentsOK

\* The same after a step.
LEMMA ContentsFactsNext == Inv' => ContentsOK'
  <1>1. Inv => ContentsOK
    BY ContentsFacts
  <1> QED
    BY <1>1, PTL

\* em_postEvent puts the event behind the others.
LEMMA InsertIsPut ==
  ASSUME Inv, Inv', NEW t \in Thread, PostInsert(t), After(backEvent) # frontEvent
  PROVE  \E e \in Event : Contents' = Append(Contents, e)
  <1>1. PICK e \in Event : eventQueue' = [eventQueue EXCEPT ![backEvent] = e]
    BY DEF PostInsert
  <1>2. backEvent' = After(backEvent) /\ frontEvent' = frontEvent
    BY DEF PostInsert
  <1>3. /\ frontEvent \in 0..(MaxEvents - 1) /\ backEvent \in 0..(MaxEvents - 1)
        /\ MaxEvents \in Nat \ {0} /\ eventQueue \in [0..(MaxEvents - 1) -> Event \cup {NULL}]
    BY EventManagerAssumption DEF Inv, TypeOK
  <1>4. /\ Pending \in 0..(MaxEvents - 1) /\ Pending = Distance(frontEvent, backEvent)
        /\ Contents \in Seq(Event) /\ Len(Contents) = Pending
        /\ \A n \in 1..Pending : Contents[n] = eventQueue[Position(n)]
    BY ContentsFacts DEF ContentsOK
  <1>5. /\ Pending' = Distance(frontEvent', backEvent')
        /\ Contents' \in Seq(Event) /\ Len(Contents') = Pending'
        /\ \A n \in 1..Pending' : Contents'[n] = eventQueue'[Position(n)']
    BY ContentsFactsNext DEF ContentsOK
  <1>6. backEvent \notin Span /\ Pending' = Pending + 1
    BY <1>2, <1>3, <1>4, <1>5, BackMoves DEF Span
  <1>7. \A n \in 1..(Pending + 1) : Position(n)' = Position(n)
    BY <1>2 DEF Position
  <1>8. ASSUME NEW n \in 1..Pending PROVE Contents'[n] = Contents[n]
    <2>1. n \in 1..MaxEvents /\ n <= Pending /\ n \in 1..(Pending + 1)
      BY <1>3, <1>4
    <2>2. Position(n) \in Span /\ Position(n) \in 0..(MaxEvents - 1)
      BY <1>3, <2>1, PositionFacts
    <2>3. eventQueue'[Position(n)] = eventQueue[Position(n)]
      BY <1>1, <1>3, <1>6, <2>2
    <2> QED
      BY <1>4, <1>5, <1>6, <1>7, <2>1, <2>3
  <1>9. Contents'[Pending + 1] = e
    <2>1. PICK m \in 1..MaxEvents : m = Pending + 1
      BY <1>3, <1>4
    <2>2. Position(m) = backEvent
      BY <1>3, <2>1, PositionFacts
    <2>3. m \in 1..(Pending + 1) /\ m \in 1..Pending'
      BY <1>4, <1>6, <2>1
    <2>4. Contents'[m] = eventQueue'[Position(m)'] /\ Position(m)' = Position(m)
      BY <1>5, <1>7, <2>3
    <2> QED
      BY <1>1, <1>3, <2>1, <2>2, <2>4
  <1> DEFINE longer == Append(Contents, e)
  <1>10. /\ longer \in Seq(Event) /\ Len(longer) = Pending + 1 /\ longer[Pending + 1] = e
         /\ \A n \in 1..Pending : longer[n] = Contents[n]
    BY <1>4, AppendProperties
  <1> HIDE DEF longer
  <1>11. \A n \in 1..(Pending + 1) : Contents'[n] = longer[n]
    BY <1>4, <1>8, <1>9, <1>10
  <1>12. Contents' = longer
    BY <1>5, <1>6, <1>10, <1>11, SeqEqual
  <1> QED
    BY <1>12 DEF longer

\* The main loop removes the first event.
LEMMA AdvanceIsTake ==
  ASSUME Inv, Inv', MainAdvance
  PROVE  Contents # << >> /\ Contents' = Tail(Contents)
  <1>1. UNCHANGED <<eventQueue, backEvent>> /\ frontEvent' = After(frontEvent) /\ frontEvent # backEvent
    BY DEF MainAdvance, Inv, RingInv
  <1>2. /\ frontEvent \in 0..(MaxEvents - 1) /\ backEvent \in 0..(MaxEvents - 1)
        /\ frontEvent' \in 0..(MaxEvents - 1) /\ backEvent' \in 0..(MaxEvents - 1)
        /\ MaxEvents \in Nat \ {0}
    BY EventManagerAssumption DEF Inv, TypeOK
  <1>3. /\ Pending \in 0..(MaxEvents - 1) /\ Pending = Distance(frontEvent, backEvent)
        /\ Contents \in Seq(Event) /\ Len(Contents) = Pending
        /\ \A n \in 1..Pending : Contents[n] = eventQueue[Position(n)]
    BY ContentsFacts DEF ContentsOK
  <1>4. /\ Pending' \in 0..(MaxEvents - 1) /\ Pending' = Distance(frontEvent', backEvent')
        /\ Contents' \in Seq(Event) /\ Len(Contents') = Pending'
        /\ \A n \in 1..Pending' : Contents'[n] = eventQueue'[Position(n)']
    BY ContentsFactsNext DEF ContentsOK
  <1>5. Pending' = Pending - 1
    BY <1>1, <1>2, <1>3, <1>4, FrontMoves
  <1>6. ASSUME NEW n \in 1..(Pending - 1) PROVE Contents'[n] = Contents[n + 1]
    <2>1. n \in 1..MaxEvents /\ n + 1 \in 1..MaxEvents /\ n + 1 \in 1..Pending /\ n \in 1..Pending'
      BY <1>2, <1>3, <1>5
    <2>2. Position(n)' = Position(n + 1)
      <3>1. PICK m \in 1..MaxEvents : m = n + 1
        BY <2>1
      <3>2. Position(m) = PositionPlain(m)
        BY <1>2, PositionFacts
      <3>3. frontEvent' = IF frontEvent + 1 = MaxEvents THEN 0 ELSE frontEvent + 1
        BY <1>1, <1>2, AfterPlain
      <3>4. PICK f \in 0..(MaxEvents - 1), x \in Int : f = frontEvent' /\ x = f + n - 1
        <4>1. PICK f \in 0..(MaxEvents - 1) : f = frontEvent'
          BY <1>2
        <4>2. f + n - 1 \in Int
          BY <1>2, <2>1
        <4> QED
          BY <4>1, <4>2
      <3>5. -MaxEvents <= x /\ x < 2 * MaxEvents /\ x >= 0
        <4>1. n \in Int /\ 1 <= n /\ n <= MaxEvents
          BY <1>2, <2>1
        <4>2. f \in Int /\ 0 <= f /\ f <= MaxEvents - 1
          BY <1>2
        <4>3. MaxEvents \in Int /\ MaxEvents > 0 /\ x = f + n - 1
          BY <1>2, <3>4
        <4> QED
          BY <4>1, <4>2, <4>3
      <3>6. x % MaxEvents = IF x < 0 THEN x + MaxEvents ELSE IF x < MaxEvents THEN x ELSE x - MaxEvents
        BY <1>2, <3>5, ModPlain
      <3>7. Position(n)' = x % MaxEvents
        BY <3>4 DEF Position
      <3>8. PositionPlain(m) = IF x < MaxEvents THEN x ELSE x - MaxEvents
        <4>1. n <= Pending - 1 /\ Pending <= MaxEvents - 1 /\ n \in Nat
          BY <1>3
        <4>2. PositionPlain(m) = IF frontEvent + n < MaxEvents THEN frontEvent + n ELSE frontEvent + n - MaxEvents
          BY <1>2, <3>1, <4>1 DEF PositionPlain
        <4> QED
          BY <1>2, <1>3, <3>3, <3>4, <4>1, <4>2
      <3> QED
        BY <1>2, <3>1, <3>2, <3>5, <3>6, <3>7, <3>8
    <2> QED
      BY <1>1, <1>3, <1>4, <2>1, <2>2
  <1>7. Contents # << >>
    <2>1. Pending > 0
      BY <1>2, <1>3, <1>4, <1>5
    <2> QED
      BY <1>3, <2>1
  <1> DEFINE rest == Tail(Contents)
  <1>8. rest \in Seq(Event) /\ Len(rest) = Pending - 1 /\ \A n \in 1..(Pending - 1) : rest[n] = Contents[n + 1]
    BY <1>3, <1>7, HeadTailProperties
  <1> HIDE DEF rest
  <1>9. Contents' = rest
    BY <1>4, <1>5, <1>6, <1>8, SeqEqual
  <1> QED
    BY <1>7, <1>9 DEF rest

\* Every step is a step of the queue or invisible to it.
LEMMA StepSimulation ==
  ASSUME EventsFit, Inv, Inv', [Next]_vars
  PROVE  [Ring!Next]_(Ring!vars)
  <1>0. Contents = [n \in 1..Pending |-> eventQueue[(frontEvent + n - 1) % MaxEvents]]
    BY DEF Contents, Position
  <1>1. CASE \E t \in Thread : PostInsert(t)
    <2>1. PICK t \in Thread : PostInsert(t)
      BY <1>1
    <2>2. PICK a \in Event : a \notin allocated
      BY <2>1 DEF PostInsert
    <2>3. After(backEvent) # frontEvent
      BY <2>2, FreshEvent, RoomLeft DEF Inv
    <2>4. \E e \in Event : Contents' = Append(Contents, e)
      BY <2>1, <2>3, InsertIsPut
    <2> QED
      BY <2>4 DEF Ring!Next, Ring!Put, Contents, Position
  <1>2. CASE MainAdvance
    BY <1>2, AdvanceIsTake DEF Ring!Next, Ring!Take, Contents, Position
  <1>3. CASE UNCHANGED <<frontEvent, backEvent, eventQueue>>
    BY <1>3 DEF Ring!vars, Pending
  <1>4. \/ \E t \in Thread : PostInsert(t)
        \/ MainAdvance
        \/ UNCHANGED <<frontEvent, backEvent, eventQueue>>
    <2>1. CASE UNCHANGED vars
      BY <2>1 DEF vars
    <2>2. CASE Startup \/ Shutdown \/ MainLoop
      BY <2>2 DEF Startup, Shutdown, MainLoop, MainTake, MainFork, Crash, ring
    <2>3. CASE \E t \in Thread : InPost(t)
      BY <2>3 DEF InPost, PostSemPost, PostSemWait, ring
    <2>4. CASE \E c \in Client : PostCheck(c)
      BY <2>4 DEF PostCheck, Crash, ring
    <2>5. CASE \E c \in Client, k \in Key, l \in Listener : AddListener(c, k, l) \/ RemoveListener(c, k, l)
      BY <2>5 DEF AddListener, RemoveListener, Crash, ring
    <2>6. CASE \E e \in Event : Dispatch(e)
      BY <2>6 DEF Dispatch, Find, LockList, LoopCall, LoopFork, LoopEnd, JoinAll, finishedWithEvent, ring
    <2>7. CASE \E t \in Event \cup Worker : Handler(t)
      BY <2>7 DEF Handler, HandlerRemoves, PostCheck, HandlerReturns, Crash, ring
    <2> QED
      BY <2>1, <2>2, <2>3, <2>4, <2>5, <2>6, <2>7 DEF Next
  <1> QED
    BY <1>1, <1>2, <1>3, <1>4

\* The ring and its semaphore are a FIFO queue of events for em_postEvent and
\* em_mainLoop: none is lost, overwritten or taken twice, if the events fit.
THEOREM Refinement == EventsFit => (Spec => ImplementsFifo)
  <1> SUFFICES ASSUME EventsFit
               PROVE  Spec => ImplementsFifo
    OBVIOUS
  <1>1. Init => Ring!Init
    <2> SUFFICES ASSUME Init
                 PROVE  Ring!Init
      OBVIOUS
    <2>1. Inv /\ frontEvent = 0 /\ backEvent = 0
      BY InitInv DEF Init
    <2>2. Pending = 0 /\ Contents \in Seq(Event) /\ Len(Contents) = 0
      BY <2>1, ContentsFacts DEF ContentsOK, Distance
    <2>3. Contents = << >>
      BY <2>2
    <2> QED
      BY <2>3 DEF Ring!Init, Contents, Position
  <1>2. Inv /\ Inv' /\ [Next]_vars => [Ring!Next]_(Ring!vars)
    BY StepSimulation
  <1>3. Spec => []Inv
    BY Invariance
  <1> QED
    BY <1>1, <1>2, <1>3, PTL DEF Spec, ImplementsFifo, Ring!Spec

-----------------------------------------------------------------------------
(* Timer: the inductive invariant *)

Places == {"free", "new", "list", "tick", "thread", "insert"}
Pointer == TimerEvent \cup {noEvent}

EventType ==
  [where : Places, atTimeMillis : Int, lo : Nat, hi : Nat, newThread : BOOLEAN,
   sleeper : TimerClient \cup {noEvent}, nextTE : Pointer, prevTE : Pointer]

ClientPlaces == {"out", "addLock", "cancelLock", "link", "unlink", "asleep", "awake"}

TypeInv ==
  /\ firstTE \in Pointer
  /\ timerEvents \in [TimerEvent -> EventType]
  /\ tickPc \in {"idle", "lock", "loop", "handler"}
  /\ clientPc \in [TimerClient -> ClientPlaces]
  /\ clientEvent \in [TimerClient -> Pointer]
  /\ timerHandle \in [TimerClient -> Pointer]

In(e, s) == \E i \in 1..Len(s) : s[i] = e

\* The list l consists of the events of s.
Chain(l, s) ==
  /\ s \in Seq(TimerEvent)
  /\ \A i, j \in 1..Len(s) : s[i] = s[j] => i = j
  /\ l.first = IF s = << >> THEN noEvent ELSE s[1]
  /\ \A i \in 1..Len(s) : l.ev[s[i]].nextTE = IF i = Len(s) THEN noEvent ELSE s[i + 1]
  /\ \A i \in 1..Len(s) : l.ev[s[i]].prevTE = IF i = 1 THEN noEvent ELSE s[i - 1]

Sorted(ev, s) == \A i, j \in 1..Len(s) : i <= j => ev[s[i]].atTimeMillis <= ev[s[j]].atTimeMillis

Exact(ev, s) == \A e \in TimerEvent : In(e, s) <=> ev[e].where = "list"

ListIs(l, s) == Chain(l, s) /\ Sorted(l.ev, s) /\ Exact(l.ev, s)

\* While the manager runs there is such a sequence.
ListInv == timerDevice # "stopped" => \E s \in Seq(TimerEvent) : ListIs(TheList, s)

\* One event is in its handler in the tick while the tick is there.
TickInv ==
  /\ tickPc # "handler" => \A e \in TimerEvent : timerEvents[e].where # "tick"
  /\ tickPc = "handler" =>
       \E e \in TimerEvent : \A f \in TimerEvent : timerEvents[f].where = "tick" <=> f = e

Adding(c) == clientPc[c] \in {"addLock", "link"}

\* A client that adds an event has made one that nobody else knows of.
AddInv ==
  \A c \in TimerClient :
    Adding(c) => /\ clientEvent[c] \in TimerEvent /\ timerEvents[clientEvent[c]].where = "new"
                 /\ \A d \in TimerClient : Adding(d) /\ clientEvent[d] = clientEvent[c] => d = c

\* A handle is of an event that waits, and no two clients have the same one.
HandleInv ==
  \A c \in TimerClient :
    /\ timerHandle[c] # noEvent =>
         /\ timerEvents[timerHandle[c]].where = "list"
         /\ \A d \in TimerClient : timerHandle[d] = timerHandle[c] => d = c
    /\ clientPc[c] \in {"cancelLock", "unlink"} => timerHandle[c] \in {noEvent, clientEvent[c]}

Outside == {"out", "asleep", "awake"}

\* Once the shutdown has begun no client is inside, and once it is done no tick is.
StopInv ==
  /\ timerDevice # "running" => \A c \in TimerClient : clientPc[c] \in Outside
  /\ timerDevice = "stopped" => tickPc = "idle"

TimerInv == TypeInv /\ ListInv /\ TickInv /\ AddInv /\ HandleInv /\ StopInv

-----------------------------------------------------------------------------
(* Sequences with one element more or less *)

TimerNames == noEvent \notin TimerEvent /\ noEvent \notin TimerClient

\* NULL is neither an event nor a client.
LEMMA NamesDiffer == TimerNames
  BY TimerAssumption DEF TimerNames, noEvent

\* s with e after its k-th element.
With(s, k, e) == [i \in 1..(Len(s) + 1) |-> IF i <= k THEN s[i] ELSE IF i = k + 1 THEN e ELSE s[i - 1]]

Added(s, k, e, r) ==
  /\ r \in Seq(TimerEvent) /\ Len(s) \in Nat /\ Len(r) = Len(s) + 1
  /\ \A i \in 1..Len(r) : i <= k => i \in 1..Len(s) /\ r[i] = s[i]
  /\ \A i \in 1..Len(r) : i = k + 1 => r[i] = e
  /\ \A i \in 1..Len(r) : k + 1 < i => i - 1 \in 1..Len(s) /\ r[i] = s[i - 1]

\* The elements behind e move down by one.
LEMMA WithIs ==
  ASSUME NEW s \in Seq(TimerEvent), NEW k \in 0..Len(s), NEW e \in TimerEvent, NEW r, r = With(s, k, e)
  PROVE  Added(s, k, e, r)
  <1>1. Len(s) \in Nat /\ Len(s) + 1 \in Nat
    OBVIOUS
  <1>2. \A i \in 1..(Len(s) + 1) : r[i] = IF i <= k THEN s[i] ELSE IF i = k + 1 THEN e ELSE s[i - 1]
    BY <1>1 DEF With
  <1>3. \A i \in 1..(Len(s) + 1) : (i <= k => i \in 1..Len(s)) /\ (k + 1 < i => i - 1 \in 1..Len(s)) /\ i \in Int
    BY <1>1
  <1>4. \A i \in 1..Len(s) : s[i] \in TimerEvent
    OBVIOUS
  <1>5. r \in [1..(Len(s) + 1) -> TimerEvent]
    <2>1. ASSUME NEW i \in 1..(Len(s) + 1) PROVE r[i] \in TimerEvent
      BY <1>1, <1>2, <1>3, <1>4
    <2> QED
      BY <2>1 DEF With
  <1>6. r \in Seq(TimerEvent) /\ Len(r) = Len(s) + 1
    BY <1>1, <1>5, SeqDef, LenProperties
  <1>7. ASSUME NEW i \in 1..(Len(s) + 1) PROVE (i <= k => r[i] = s[i]) /\ (i = k + 1 => r[i] = e) /\ (k + 1 < i => r[i] = s[i - 1])
    BY <1>1, <1>2
  <1> QED
    BY <1>1, <1>3, <1>6, <1>7 DEF Added

\* s without its k-th element.
Without(s, k) == [i \in 1..(Len(s) - 1) |-> IF i < k THEN s[i] ELSE s[i + 1]]

Removed(s, k, r) ==
  /\ r \in Seq(TimerEvent) /\ Len(r) \in Nat /\ Len(s) \in Nat /\ Len(r) = Len(s) - 1
  /\ \A i \in 1..Len(r) : i < k => i \in 1..Len(s) /\ r[i] = s[i]
  /\ \A i \in 1..Len(r) : ~(i < k) => i + 1 \in 1..Len(s) /\ r[i] = s[i + 1]

\* The elements behind it move up by one.
LEMMA WithoutIs ==
  ASSUME NEW s \in Seq(TimerEvent), NEW k \in 1..Len(s), NEW r, r = Without(s, k)
  PROVE  Removed(s, k, r)
  <1>1. Len(s) \in Nat /\ Len(s) - 1 \in Nat
    OBVIOUS
  <1>2. \A i \in 1..(Len(s) - 1) : i \in 1..Len(s) /\ i + 1 \in 1..Len(s) /\ r[i] = IF i < k THEN s[i] ELSE s[i + 1]
    BY <1>1 DEF Without
  <1>3. r \in [1..(Len(s) - 1) -> TimerEvent]
    BY <1>1, <1>2 DEF Without
  <1>4. r \in Seq(TimerEvent) /\ Len(r) = Len(s) - 1
    BY <1>1, <1>3, SeqDef, LenProperties
  <1> QED
    BY <1>1, <1>2, <1>4 DEF Removed

\* Every element of s is one of r, at the same place or the next.
LEMMA AddedFrom ==
  ASSUME NEW s, NEW k \in 0..Len(s), NEW e, NEW r, Added(s, k, e, r), NEW j \in 1..Len(s)
  PROVE  (j <= k => j \in 1..Len(r) /\ r[j] = s[j]) /\ (k < j => j + 1 \in 1..Len(r) /\ r[j + 1] = s[j])
  <1>1. Len(s) \in Nat /\ Len(r) = Len(s) + 1
    BY DEF Added
  <1>2. j <= k => j \in 1..Len(r) /\ r[j] = s[j]
    BY <1>1 DEF Added
  <1>3. ASSUME k < j PROVE j + 1 \in 1..Len(r) /\ r[j + 1] = s[j]
    <2>1. j + 1 \in 1..Len(r) /\ k + 1 < j + 1 /\ (j + 1) - 1 = j
      BY <1>1, <1>3
    <2>2. r[j + 1] = s[(j + 1) - 1]
      BY <2>1 DEF Added
    <2> QED
      BY <2>1, <2>2
  <1> QED
    BY <1>2, <1>3

\* The elements are those of s and e.
LEMMA AddedIn ==
  ASSUME NEW s, NEW k \in 0..Len(s), NEW e, NEW r, Added(s, k, e, r)
  PROVE  \A v : In(v, r) <=> v = e \/ In(v, s)
  <1>1. Len(s) \in Nat /\ Len(r) = Len(s) + 1
    BY DEF Added
  <1>2. ASSUME NEW v, In(v, r) PROVE v = e \/ In(v, s)
    <2>1. PICK i \in 1..Len(r) : r[i] = v
      BY <1>2 DEF In
    <2>2. i <= k \/ i = k + 1 \/ k + 1 < i
      BY <1>1
    <2> QED
      BY <2>1, <2>2 DEF Added, In
  <1>3. In(e, r)
    <2>1. k + 1 \in 1..Len(r)
      BY <1>1
    <2> QED
      BY <2>1 DEF Added, In
  <1>4. ASSUME NEW v, In(v, s) PROVE In(v, r)
    <2>1. PICK j \in 1..Len(s) : s[j] = v
      BY <1>4 DEF In
    <2>2. j <= k \/ k < j
      BY <1>1
    <2> QED
      BY <2>1, <2>2, AddedFrom DEF In
  <1> QED
    BY <1>2, <1>3, <1>4

\* The elements are those of s but the k-th, if they are different.
LEMMA RemovedIn ==
  ASSUME NEW s, NEW k \in 1..Len(s), NEW r, Removed(s, k, r), \A i, j \in 1..Len(s) : s[i] = s[j] => i = j
  PROVE  \A v : In(v, r) <=> In(v, s) /\ v # s[k]
  <1>1. Len(s) \in Nat /\ Len(r) \in Nat /\ Len(r) = Len(s) - 1
    BY DEF Removed
  <1>2. ASSUME NEW v, In(v, r) PROVE In(v, s) /\ v # s[k]
    <2>1. PICK i \in 1..Len(r) : r[i] = v
      BY <1>2 DEF In
    <2>2. PICK j \in 1..Len(s) : s[j] = v /\ j # k
      <3>1. CASE i < k
        BY <1>1, <2>1, <3>1 DEF Removed
      <3>2. CASE ~(i < k)
        <4>1. i + 1 \in 1..Len(s) /\ s[i + 1] = v /\ i + 1 # k
          BY <1>1, <2>1, <3>2 DEF Removed
        <4> QED
          BY <4>1
      <3> QED
        BY <3>1, <3>2
    <2> QED
      BY <2>2 DEF In
  <1>3. ASSUME NEW v, In(v, s), v # s[k] PROVE In(v, r)
    <2>1. PICK j \in 1..Len(s) : s[j] = v /\ j # k
      BY <1>3 DEF In
    <2>2. CASE j < k
      <3>1. j \in 1..Len(r)
        BY <1>1, <2>2
      <3> QED
        BY <2>1, <2>2, <3>1 DEF Removed, In
    <2>3. CASE ~(j < k)
      <3>1. PICK i \in 1..Len(r) : i = j - 1 /\ ~(i < k)
        BY <1>1, <2>1, <2>3
      <3>2. r[i] = s[i + 1] /\ i + 1 = j
        BY <1>1, <3>1 DEF Removed
      <3> QED
        BY <2>1, <3>2 DEF In
    <2> QED
      BY <2>2, <2>3
  <1> QED
    BY <1>2, <1>3

-----------------------------------------------------------------------------
(* The pointers of the list *)

\* The pointers of l become those of m when e is linked in after the k-th event of s.
LinkedIn(l, m, s, k, e) ==
  /\ m.first = IF k = 0 THEN e ELSE l.first
  /\ m.ev[e].nextTE = IF k = Len(s) THEN noEvent ELSE s[k + 1]
  /\ m.ev[e].prevTE = IF k = 0 THEN noEvent ELSE s[k]
  /\ \A i \in 1..Len(s) : m.ev[s[i]].nextTE = IF i = k THEN e ELSE l.ev[s[i]].nextTE
  /\ \A i \in 1..Len(s) : m.ev[s[i]].prevTE = IF i = k + 1 THEN e ELSE l.ev[s[i]].prevTE

\* The list is then that of s with e.
LEMMA ChainInsert ==
  ASSUME NEW l, NEW m, NEW s, Chain(l, s), NEW k \in 0..Len(s), NEW e \in TimerEvent, ~In(e, s),
         LinkedIn(l, m, s, k, e), NEW r, Added(s, k, e, r)
  PROVE  Chain(m, r)
  <1>1. r \in Seq(TimerEvent) /\ Len(s) \in Nat /\ Len(r) = Len(s) + 1 /\ s \in Seq(TimerEvent) /\ k \in Nat /\ k <= Len(s)
    BY DEF Added, Chain
  <1>2. /\ \A i \in 1..Len(r) : i <= k => i \in 1..Len(s) /\ r[i] = s[i]
        /\ \A i \in 1..Len(r) : i = k + 1 => r[i] = e
        /\ \A i \in 1..Len(r) : k + 1 < i => i - 1 \in 1..Len(s) /\ r[i] = s[i - 1]
    BY DEF Added
  <1>3. \A i, j \in 1..Len(s) : s[i] = s[j] => i = j
    BY DEF Chain
  <1>4. \A i \in 1..Len(s) : s[i] # e
    BY DEF In
  <1>5. \A i \in 1..Len(r) : i <= k \/ i = k + 1 \/ k + 1 < i
    BY <1>1
  <1>6. ASSUME NEW i \in 1..Len(r), NEW j \in 1..Len(r), r[i] = r[j] PROVE i = j
    <2>1. CASE i <= k /\ j <= k
      BY <1>2, <1>3, <1>6, <2>1
    <2>2. CASE i <= k /\ k + 1 < j
      <3>1. i = j - 1
        BY <1>2, <1>3, <1>6, <2>2
      <3> QED
        BY <1>1, <2>2, <3>1
    <2>3. CASE k + 1 < i /\ j <= k
      <3>1. i - 1 = j
        BY <1>2, <1>3, <1>6, <2>3
      <3> QED
        BY <1>1, <2>3, <3>1
    <2>4. CASE k + 1 < i /\ k + 1 < j
      <3>1. i - 1 = j - 1
        BY <1>2, <1>3, <1>6, <2>4
      <3> QED
        BY <1>1, <3>1
    <2>5. CASE i = k + 1 /\ j # k + 1
      BY <1>2, <1>4, <1>5, <1>6, <2>5
    <2>6. CASE i # k + 1 /\ j = k + 1
      BY <1>2, <1>4, <1>5, <1>6, <2>6
    <2> QED
      BY <1>5, <2>1, <2>2, <2>3, <2>4, <2>5, <2>6
  <1>7. m.first = IF r = << >> THEN noEvent ELSE r[1]
    <2>1. r # << >> /\ 1 \in 1..Len(r)
      BY <1>1
    <2>2. CASE k = 0
      BY <1>2, <2>1, <2>2 DEF LinkedIn
    <2>3. CASE k # 0
      <3>1. r[1] = s[1] /\ s # << >>
        BY <1>1, <1>2, <2>1, <2>3
      <3> QED
        BY <2>1, <2>3, <3>1 DEF LinkedIn, Chain
    <2> QED
      BY <2>2, <2>3
  <1>8. ASSUME NEW i \in 1..Len(r) PROVE m.ev[r[i]].nextTE = IF i = Len(r) THEN noEvent ELSE r[i + 1]
    <2>1. CASE i < k
      <3>1. i \in 1..Len(s) /\ r[i] = s[i] /\ i # k /\ i # Len(s) /\ i # Len(r) /\ i + 1 \in 1..Len(r) /\ i + 1 <= k
        BY <1>1, <1>2, <2>1
      <3>2. m.ev[s[i]].nextTE = s[i + 1]
        BY <3>1 DEF LinkedIn, Chain
      <3> QED
        BY <1>2, <3>1, <3>2
    <2>2. CASE i = k
      <3>1. i \in 1..Len(s) /\ r[i] = s[i] /\ i # Len(r) /\ i + 1 \in 1..Len(r)
        BY <1>1, <1>2, <2>2
      <3>2. m.ev[s[i]].nextTE = e /\ r[i + 1] = e
        BY <1>2, <2>2, <3>1 DEF LinkedIn
      <3> QED
        BY <3>1, <3>2
    <2>3. CASE i = k + 1
      <3>1. r[i] = e /\ (i = Len(r) <=> k = Len(s))
        BY <1>1, <1>2, <2>3
      <3>2. i # Len(r) => i + 1 \in 1..Len(r) /\ k + 1 < i + 1 /\ (i + 1) - 1 = k + 1
        BY <1>1, <2>3
      <3>3. i # Len(r) => r[i + 1] = s[(i + 1) - 1]
        BY <1>2, <3>2
      <3> QED
        BY <3>1, <3>2, <3>3 DEF LinkedIn
    <2>4. CASE k + 1 < i
      <3>1. PICK j \in 1..Len(s) : j = i - 1 /\ r[i] = s[j] /\ j # k
        BY <1>1, <1>2, <2>4
      <3>2. m.ev[s[j]].nextTE = IF j = Len(s) THEN noEvent ELSE s[j + 1]
        BY <3>1 DEF LinkedIn, Chain
      <3>3. (j = Len(s) <=> i = Len(r)) /\ (i # Len(r) => i + 1 \in 1..Len(r) /\ k + 1 < i + 1 /\ (i + 1) - 1 = j + 1)
        BY <1>1, <2>4, <3>1
      <3>4. i # Len(r) => r[i + 1] = s[(i + 1) - 1]
        BY <1>2, <3>3
      <3> QED
        BY <3>1, <3>2, <3>3, <3>4
    <2>5. i < k \/ i = k \/ i = k + 1 \/ k + 1 < i
      BY <1>1
    <2> QED
      BY <2>1, <2>2, <2>3, <2>4, <2>5
  <1>9. ASSUME NEW i \in 1..Len(r) PROVE m.ev[r[i]].prevTE = IF i = 1 THEN noEvent ELSE r[i - 1]
    <2>1. CASE i <= k
      <3>1. i \in 1..Len(s) /\ r[i] = s[i] /\ i # k + 1
        BY <1>1, <1>2, <2>1
      <3>2. m.ev[s[i]].prevTE = IF i = 1 THEN noEvent ELSE s[i - 1]
        BY <3>1 DEF LinkedIn, Chain
      <3>3. i # 1 => i - 1 \in 1..Len(r) /\ i - 1 <= k
        BY <1>1, <2>1
      <3> QED
        BY <1>2, <3>1, <3>2, <3>3
    <2>2. CASE i = k + 1
      <3>1. r[i] = e /\ (i = 1 <=> k = 0) /\ i - 1 = k
        BY <1>1, <1>2, <2>2
      <3>2. k # 0 => k \in 1..Len(r) /\ k <= k
        BY <1>1
      <3>3. k # 0 => r[k] = s[k]
        BY <1>2, <3>2
      <3> QED
        BY <3>1, <3>3 DEF LinkedIn
    <2>3. CASE i = k + 2
      <3>1. PICK j \in 1..Len(s) : j = k + 1 /\ r[i] = s[j] /\ i # 1 /\ i - 1 = k + 1 /\ i - 1 \in 1..Len(r)
        BY <1>1, <1>2, <2>3
      <3>2. m.ev[s[j]].prevTE = e /\ r[i - 1] = e
        BY <1>2, <3>1 DEF LinkedIn
      <3> QED
        BY <3>1, <3>2
    <2>4. CASE k + 2 < i
      <3>1. PICK j \in 1..Len(s) : j = i - 1 /\ r[i] = s[j] /\ j # k + 1 /\ j # 1 /\ i # 1
        BY <1>1, <1>2, <2>4
      <3>2. m.ev[s[j]].prevTE = s[j - 1]
        BY <3>1 DEF LinkedIn, Chain
      <3>3. i - 1 \in 1..Len(r) /\ k + 1 < i - 1 /\ (i - 1) - 1 = j - 1
        BY <1>1, <2>4, <3>1
      <3>4. r[i - 1] = s[(i - 1) - 1]
        BY <1>2, <3>3
      <3> QED
        BY <3>1, <3>2, <3>3, <3>4
    <2>5. i <= k \/ i = k + 1 \/ i = k + 2 \/ k + 2 < i
      BY <1>1
    <2> QED
      BY <2>1, <2>2, <2>3, <2>4, <2>5
  <1> QED
    BY <1>1, <1>6, <1>7, <1>8, <1>9 DEF Chain

\* The pointers of l become those of m when the k-th event of s is taken out.
LinkedOut(l, m, s, k) ==
  /\ m.first = IF k = 1 THEN l.ev[s[k]].nextTE ELSE l.first
  /\ \A i \in 1..Len(s) : i # k => m.ev[s[i]].nextTE = IF i = k - 1 THEN l.ev[s[k]].nextTE ELSE l.ev[s[i]].nextTE
  /\ \A i \in 1..Len(s) : i # k => m.ev[s[i]].prevTE = IF i = k + 1 THEN l.ev[s[k]].prevTE ELSE l.ev[s[i]].prevTE

\* The list is then that of s without its k-th event.
LEMMA ChainRemove ==
  ASSUME NEW l, NEW m, NEW s, Chain(l, s), NEW k \in 1..Len(s), LinkedOut(l, m, s, k), NEW r, Removed(s, k, r)
  PROVE  Chain(m, r)
  <1>1. /\ r \in Seq(TimerEvent) /\ Len(r) \in Nat /\ Len(s) \in Nat /\ Len(r) = Len(s) - 1 /\ s \in Seq(TimerEvent)
        /\ \A i \in 1..Len(r) : i < k => i \in 1..Len(s) /\ r[i] = s[i]
        /\ \A i \in 1..Len(r) : ~(i < k) => i + 1 \in 1..Len(s) /\ r[i] = s[i + 1]
    BY DEF Removed, Chain
  <1>2. \A i, j \in 1..Len(s) : s[i] = s[j] => i = j
    BY DEF Chain
  <1>3. \A i \in 1..Len(s) : l.ev[s[i]].nextTE = IF i = Len(s) THEN noEvent ELSE s[i + 1]
    BY DEF Chain
  <1>4. \A i \in 1..Len(s) : l.ev[s[i]].prevTE = IF i = 1 THEN noEvent ELSE s[i - 1]
    BY DEF Chain
  <1>5. ASSUME NEW i \in 1..Len(r), NEW j \in 1..Len(r), r[i] = r[j] PROVE i = j
    <2>1. CASE i < k /\ j < k
      BY <1>1, <1>2, <1>5, <2>1
    <2>2. CASE i < k /\ ~(j < k)
      <3>1. i = j + 1
        BY <1>1, <1>2, <1>5, <2>2
      <3> QED
        BY <1>1, <2>2, <3>1
    <2>3. CASE ~(i < k) /\ j < k
      <3>1. i + 1 = j
        BY <1>1, <1>2, <1>5, <2>3
      <3> QED
        BY <1>1, <2>3, <3>1
    <2>4. CASE ~(i < k) /\ ~(j < k)
      <3>1. i + 1 = j + 1
        BY <1>1, <1>2, <1>5, <2>4
      <3> QED
        BY <3>1
    <2> QED
      BY <2>1, <2>2, <2>3, <2>4
  <1>6. m.first = IF r = << >> THEN noEvent ELSE r[1]
    <2>1. r = << >> <=> Len(r) = 0
      BY <1>1
    <2>2. CASE k = 1
      <3>1. m.first = IF 1 = Len(s) THEN noEvent ELSE s[1 + 1]
        BY <1>3, <2>2 DEF LinkedOut
      <3>2. Len(r) # 0 => r[1] = s[1 + 1]
        BY <1>1, <2>2
      <3> QED
        BY <1>1, <2>1, <3>1, <3>2
    <2>3. CASE k # 1
      <3>1. Len(r) # 0 /\ 1 \in 1..Len(r) /\ 1 < k /\ s # << >>
        BY <1>1, <2>3
      <3>2. r[1] = s[1]
        BY <1>1, <3>1
      <3> QED
        BY <2>1, <2>3, <3>1, <3>2 DEF LinkedOut, Chain
    <2> QED
      BY <2>2, <2>3
  <1>7. ASSUME NEW i \in 1..Len(r) PROVE m.ev[r[i]].nextTE = IF i = Len(r) THEN noEvent ELSE r[i + 1]
    <2>1. CASE i < k - 1
      <3>0. i # k /\ i # k - 1 /\ i # Len(s) /\ i < k
        BY <1>1, <2>1
      <3>1. i \in 1..Len(s) /\ r[i] = s[i] /\ i # k /\ i # k - 1 /\ i # Len(s) /\ i < k
        BY <1>1, <3>0
      <3>2. m.ev[s[i]].nextTE = s[i + 1]
        BY <1>3, <3>1 DEF LinkedOut
      <3>3. i # Len(r) /\ i + 1 \in 1..Len(r) /\ i + 1 < k
        BY <1>1, <2>1
      <3>4. r[i + 1] = s[i + 1]
        BY <1>1, <3>3
      <3> QED
        BY <3>1, <3>2, <3>3, <3>4
    <2>2. CASE i = k - 1
      <3>1. i \in 1..Len(s) /\ r[i] = s[i] /\ k # 1 /\ i < k /\ i # k
        BY <1>1, <2>2
      <3>2. m.ev[s[i]].nextTE = IF k = Len(s) THEN noEvent ELSE s[k + 1]
        BY <1>3, <2>2, <3>1 DEF LinkedOut
      <3>3. (k = Len(s) <=> i = Len(r)) /\ i + 1 = k
        BY <1>1, <2>2
      <3>4. i # Len(r) => r[k] = s[k + 1]
        BY <1>1, <3>3
      <3> QED
        BY <3>1, <3>2, <3>3, <3>4
    <2>3. CASE ~(i < k)
      <3>1. PICK j \in 1..Len(s) : j = i + 1 /\ r[i] = s[j] /\ j # k /\ j # k - 1
        BY <1>1, <2>3
      <3>2. m.ev[s[j]].nextTE = IF j = Len(s) THEN noEvent ELSE s[j + 1]
        BY <1>3, <3>1 DEF LinkedOut
      <3>3. (j = Len(s) <=> i = Len(r)) /\ (i # Len(r) => i + 1 \in 1..Len(r) /\ ~(i + 1 < k))
        BY <1>1, <2>3, <3>1
      <3>4. i # Len(r) => r[i + 1] = s[(i + 1) + 1]
        BY <1>1, <3>3
      <3> QED
        BY <3>1, <3>2, <3>3, <3>4
    <2>4. i < k - 1 \/ i = k - 1 \/ ~(i < k)
      BY <1>1
    <2> QED
      BY <2>1, <2>2, <2>3, <2>4
  <1>8. ASSUME NEW i \in 1..Len(r) PROVE m.ev[r[i]].prevTE = IF i = 1 THEN noEvent ELSE r[i - 1]
    <2>1. CASE i < k
      <3>1. i \in 1..Len(s) /\ r[i] = s[i] /\ i # k /\ i # k + 1
        BY <1>1, <2>1
      <3>2. m.ev[s[i]].prevTE = IF i = 1 THEN noEvent ELSE s[i - 1]
        BY <1>4, <3>1 DEF LinkedOut
      <3>3. i # 1 => i - 1 \in 1..Len(r) /\ i - 1 < k
        BY <1>1, <2>1
      <3>4. i # 1 => r[i - 1] = s[i - 1]
        BY <1>1, <3>3
      <3> QED
        BY <3>1, <3>2, <3>4
    <2>2. CASE i = k
      <3>1. PICK j \in 1..Len(s) : j = k + 1 /\ r[i] = s[j] /\ j # k
        BY <1>1, <2>2
      <3>2. m.ev[s[j]].prevTE = IF k = 1 THEN noEvent ELSE s[k - 1]
        BY <1>4, <3>1 DEF LinkedOut
      <3>3. i # 1 => i - 1 \in 1..Len(r) /\ i - 1 < k
        BY <1>1, <2>2
      <3>4. i # 1 => r[i - 1] = s[i - 1]
        BY <1>1, <3>3
      <3> QED
        BY <2>2, <3>1, <3>2, <3>4
    <2>3. CASE k < i
      <3>1. PICK j \in 1..Len(s) : j = i + 1 /\ r[i] = s[j] /\ j # k /\ j # k + 1 /\ j # 1
        <4>1. i + 1 \in 1..Len(s) /\ i + 1 # k /\ i + 1 # k + 1 /\ i + 1 # 1 /\ ~(i < k)
          BY <1>1, <2>3
        <4>2. r[i] = s[i + 1]
          BY <1>1, <4>1
        <4> QED
          BY <4>1, <4>2
      <3>2. m.ev[s[j]].prevTE = s[j - 1]
        BY <1>4, <3>1 DEF LinkedOut
      <3>3. i # 1 /\ i - 1 \in 1..Len(r) /\ ~(i - 1 < k)
        BY <1>1, <2>3
      <3>0. (i - 1) + 1 = j - 1
        BY <1>1, <3>1
      <3>4. r[i - 1] = s[(i - 1) + 1] /\ (i - 1) + 1 = j - 1
        BY <1>1, <3>0, <3>3
      <3> QED
        BY <3>1, <3>2, <3>3, <3>4
    <2>4. i < k \/ i = k \/ k < i
      BY <1>1
    <2> QED
      BY <2>1, <2>2, <2>3, <2>4
  <1> QED
    BY <1>1, <1>5, <1>6, <1>7, <1>8 DEF Chain

-----------------------------------------------------------------------------
(* insertAnEvent *)

\* In a list in the order of times, the events before a time come first.
LEMMA PassedFirst ==
  ASSUME NEW ev \in [TimerEvent -> EventType], NEW s \in Seq(TimerEvent), Sorted(ev, s), NEW t \in Int
  PROVE  \E k \in 0..Len(s) : \A i \in 1..Len(s) : ev[s[i]].atTimeMillis < t <=> i <= k
  <1>1. Len(s) \in Nat /\ \A i \in 1..Len(s) : s[i] \in TimerEvent /\ ev[s[i]].atTimeMillis \in Int
    BY DEF EventType
  <1> DEFINE S == {i \in Nat : i \in 1..Len(s) /\ ~(ev[s[i]].atTimeMillis < t)}
  <1>2. CASE S = {}
    <2>1. \A i \in 1..Len(s) : ev[s[i]].atTimeMillis < t /\ i <= Len(s)
      BY <1>1, <1>2
    <2>2. Len(s) \in 0..Len(s)
      BY <1>1
    <2> QED
      BY <2>1, <2>2
  <1>3. CASE S # {}
    <2>1. S \subseteq Nat
      OBVIOUS
    <2> HIDE DEF S
    <2>2. \E m \in S : \A n \in S : ~(<<n, m>> \in OpToRel(<, Nat))
      BY <1>3, <2>1, NatLessThanWellFounded, WFMin
    <2>3. PICK m \in S : \A n \in S : ~(n < m)
      BY <2>1, <2>2 DEF OpToRel
    <2>4. m \in 1..Len(s) /\ ~(ev[s[m]].atTimeMillis < t) /\ m \in Nat
      BY <2>3 DEF S
    <2>5. PICK k \in 0..Len(s) : k = m - 1
      BY <1>1, <2>4
    <2>6. ASSUME NEW i \in 1..Len(s), i <= k PROVE ev[s[i]].atTimeMillis < t
      <3>1. i < m /\ i \in Nat
        BY <1>1, <2>4, <2>5, <2>6
      <3>2. i \notin S
        BY <2>3, <3>1
      <3> QED
        BY <3>1, <3>2 DEF S
    <2>7. ASSUME NEW i \in 1..Len(s), ~(i <= k) PROVE ~(ev[s[i]].atTimeMillis < t)
      <3>1. m <= i
        BY <1>1, <2>4, <2>5, <2>7
      <3>2. ev[s[m]].atTimeMillis <= ev[s[i]].atTimeMillis
        BY <2>4, <3>1 DEF Sorted
      <3>3. ev[s[m]].atTimeMillis \in Int /\ ev[s[i]].atTimeMillis \in Int
        BY <1>1, <2>4
      <3> QED
        BY <2>4, <3>2, <3>3
    <2> QED
      BY <2>6, <2>7
  <1> QED
    BY <1>2, <1>3

\* What insertAnEvent writes when it links event between before and after.
Between(l, m, event, before, after) ==
  /\ m.first = IF before = noEvent THEN event ELSE l.first
  /\ m.ev \in [TimerEvent -> EventType]
  /\ \A e \in TimerEvent :
       /\ m.ev[e].where = IF e = event THEN "list" ELSE l.ev[e].where
       /\ m.ev[e].atTimeMillis = l.ev[e].atTimeMillis
       /\ m.ev[e].nextTE = IF e = event THEN after ELSE IF e = before THEN event ELSE l.ev[e].nextTE
       /\ m.ev[e].prevTE = IF e = event THEN before ELSE IF e = after /\ e # before THEN event ELSE l.ev[e].prevTE

\* Where insertAnEvent stops, and what it writes there.
Before(l, t) == IF Passed(l, t) = {} THEN noEvent ELSE CHOOSE e \in Passed(l, t) : l.ev[e].nextTE \notin Passed(l, t)
TimerAfter(l, before) == IF before = noEvent THEN l.first ELSE l.ev[before].nextTE

NewFields(l, event, before, after, e) ==
  CASE e = event -> [l.ev[e] EXCEPT !.where = "list", !.nextTE = after, !.prevTE = before]
    [] e = before -> [l.ev[e] EXCEPT !.nextTE = event]
    [] e = after -> [l.ev[e] EXCEPT !.prevTE = event]
    [] OTHER -> l.ev[e]

NewList(l, event, before, after) ==
  [first |-> IF before = noEvent THEN event ELSE l.first,
   ev |-> [e \in TimerEvent |-> NewFields(l, event, before, after, e)]]

\* insertAnEvent writes there.
LEMMA InsertWrites ==
  ASSUME NEW l, NEW event
  PROVE  insertAnEvent(l, event) =
           NewList(l, event, Before(l, l.ev[event].atTimeMillis), TimerAfter(l, Before(l, l.ev[event].atTimeMillis)))
  BY DEF insertAnEvent, NewList, NewFields, Before, TimerAfter

\* The events the function stops between are the k-th and the one after it.
LEMMA StopsBetween ==
  ASSUME NEW l, NEW s \in Seq(TimerEvent), ListIs(l, s), l.ev \in [TimerEvent -> EventType], NEW t \in Int,
         NEW k \in 0..Len(s), \A i \in 1..Len(s) : l.ev[s[i]].atTimeMillis < t <=> i <= k,
         NEW before, before = Before(l, t), NEW after, after = TimerAfter(l, before)
  PROVE  before = (IF k = 0 THEN noEvent ELSE s[k]) /\ after = (IF k = Len(s) THEN noEvent ELSE s[k + 1])
  <1>1. Len(s) \in Nat /\ \A i \in 1..Len(s) : s[i] \in TimerEvent /\ s[i] # noEvent
    BY NamesDiffer DEF TimerNames
  <1>2. \A i \in 1..Len(s) : l.ev[s[i]].nextTE = IF i = Len(s) THEN noEvent ELSE s[i + 1]
    BY DEF ListIs, Chain
  <1>3. \A i \in 1..Len(s) : s[i] \in Passed(l, t) <=> i <= k
    BY <1>1 DEF ListIs, Exact, In, Passed
  <1>4. \A e \in Passed(l, t) : \E i \in 1..Len(s) : e = s[i] /\ i <= k
    BY <1>1 DEF ListIs, Exact, In, Passed
  <1>5. noEvent \notin Passed(l, t)
    BY NamesDiffer DEF TimerNames, Passed
  <1>6. CASE k = 0
    <2>1. Passed(l, t) = {}
      BY <1>1, <1>4, <1>6
    <2>2. before = noEvent /\ after = l.first
      BY <2>1 DEF Before, TimerAfter
    <2>3. l.first = IF s = << >> THEN noEvent ELSE s[1]
      BY DEF ListIs, Chain
    <2>4. s = << >> <=> Len(s) = 0
      BY <1>1
    <2> QED
      BY <1>1, <1>6, <2>2, <2>3, <2>4
  <1>7. CASE k # 0
    <2>1. k \in 1..Len(s) /\ s[k] \in Passed(l, t) /\ k <= k
      BY <1>1, <1>3, <1>7
    <2>2. l.ev[s[k]].nextTE \notin Passed(l, t)
      <3>1. CASE k = Len(s)
        BY <1>2, <1>5, <2>1, <3>1
      <3>2. CASE k # Len(s)
        <4>1. k + 1 \in 1..Len(s) /\ ~(k + 1 <= k)
          BY <1>1, <2>1, <3>2
        <4> QED
          BY <1>2, <1>3, <2>1, <3>2, <4>1
      <3> QED
        BY <3>1, <3>2
    <2>3. before \in Passed(l, t) /\ l.ev[before].nextTE \notin Passed(l, t)
      <3>1. before = CHOOSE e \in Passed(l, t) : l.ev[e].nextTE \notin Passed(l, t)
        BY <2>1 DEF Before
      <3> QED
        BY <2>1, <2>2, <3>1
    <2>4. PICK i \in 1..Len(s) : before = s[i] /\ i <= k
      BY <1>4, <2>3
    <2>5. i = k
      <3>1. SUFFICES ASSUME i # k PROVE FALSE
        OBVIOUS
      <3>2. i + 1 \in 1..Len(s) /\ i + 1 <= k /\ i # Len(s)
        BY <1>1, <2>1, <2>4, <3>1
      <3> QED
        BY <1>2, <1>3, <2>3, <2>4, <3>2
    <2>6. before = s[k] /\ before # noEvent
      BY <1>1, <2>4, <2>5
    <2> QED
      BY <1>2, <1>7, <2>1, <2>6 DEF TimerAfter
  <1> QED
    BY <1>6, <1>7

\* A list into which event was inserted.
InsertedAs(l, m, event) ==
  /\ m.first \in Pointer /\ m.ev \in [TimerEvent -> EventType]
  /\ \E r \in Seq(TimerEvent) : ListIs(m, r)
  /\ \A e \in TimerEvent : m.ev[e].where = IF e = event THEN "list" ELSE l.ev[e].where

\* insertAnEvent links an event that is not in the list at its place.
LEMMA InsertIs ==
  ASSUME NEW l, NEW s \in Seq(TimerEvent), ListIs(l, s), l.ev \in [TimerEvent -> EventType], NEW event \in TimerEvent,
         l.ev[event].where # "list", NEW m, m = insertAnEvent(l, event)
  PROVE  InsertedAs(l, m, event)
  <1>1. PICK t \in Int : t = l.ev[event].atTimeMillis
    BY DEF EventType
  <1>2. PICK k \in 0..Len(s) : \A i \in 1..Len(s) : l.ev[s[i]].atTimeMillis < t <=> i <= k
    BY PassedFirst DEF ListIs
  <1>3. PICK before : before = Before(l, t)
    OBVIOUS
  <1>4. PICK after : after = TimerAfter(l, before)
    OBVIOUS
  <1>5. before = (IF k = 0 THEN noEvent ELSE s[k]) /\ after = (IF k = Len(s) THEN noEvent ELSE s[k + 1])
    BY <1>2, <1>3, <1>4, StopsBetween
  <1>6. Len(s) \in Nat /\ \A i \in 1..Len(s) : s[i] \in TimerEvent /\ s[i] # noEvent /\ s[i] # event
    BY NamesDiffer DEF TimerNames, ListIs, Exact, In
  <1>7. before \in Pointer /\ after \in Pointer /\ event # before /\ event # after /\ event # noEvent
    <2>1. k # 0 => k \in 1..Len(s)
      BY <1>6
    <2>2. k # Len(s) => k + 1 \in 1..Len(s)
      BY <1>6
    <2> QED
      BY <1>5, <1>6, <2>1, <2>2, NamesDiffer DEF TimerNames, Pointer
  <1>20. before # noEvent => before # after
    <2>1. k # 0 => k \in 1..Len(s)
      BY <1>6
    <2>2. k # Len(s) => k + 1 \in 1..Len(s) /\ k + 1 # k
      BY <1>6
    <2>3. \A i, j \in 1..Len(s) : s[i] = s[j] => i = j
      BY DEF ListIs, Chain
    <2> QED
      BY <1>5, <1>6, <2>1, <2>2, <2>3
  <1>8. m = NewList(l, event, before, after)
    BY <1>1, <1>3, <1>4, InsertWrites
  <1>9. Between(l, m, event, before, after)
    <2>1. m.first = IF before = noEvent THEN event ELSE l.first
      BY <1>8 DEF NewList
    <2>2. \A e \in TimerEvent : m.ev[e] = NewFields(l, event, before, after, e)
      BY <1>8 DEF NewList
    <2>3. ASSUME NEW e \in TimerEvent
          PROVE  /\ m.ev[e] \in EventType
                 /\ m.ev[e].where = IF e = event THEN "list" ELSE l.ev[e].where
                 /\ m.ev[e].atTimeMillis = l.ev[e].atTimeMillis
                 /\ m.ev[e].nextTE = IF e = event THEN after ELSE IF e = before THEN event ELSE l.ev[e].nextTE
                 /\ m.ev[e].prevTE = IF e = event THEN before ELSE IF e = after /\ e # before THEN event ELSE l.ev[e].prevTE
      <3>1. l.ev[e] \in EventType
        OBVIOUS
      <3>2. CASE e = event
        <4>1. m.ev[e] = [l.ev[e] EXCEPT !.where = "list", !.nextTE = after, !.prevTE = before]
          BY <1>7, <2>2, <3>2 DEF NewFields
        <4> QED
          BY <1>7, <3>1, <3>2, <4>1 DEF EventType, Places
      <3>3. CASE e = before /\ e # event
        <4>1. m.ev[e] = [l.ev[e] EXCEPT !.nextTE = event]
          <5>1. e # noEvent /\ e # after
            BY <1>20, <3>3, NamesDiffer DEF TimerNames
          <5> QED
            BY <2>2, <3>3, <5>1 DEF NewFields
        <4> QED
          BY <1>7, <3>1, <3>3, <4>1 DEF EventType, Pointer
      <3>4. CASE e = after /\ e # event /\ e # before
        <4>1. m.ev[e] = [l.ev[e] EXCEPT !.prevTE = event]
          BY <1>7, <2>2, <3>4 DEF NewFields
        <4> QED
          BY <1>7, <3>1, <3>4, <4>1 DEF EventType, Pointer
      <3>5. CASE e # after /\ e # event /\ e # before
        <4>1. m.ev[e] = l.ev[e]
          BY <1>7, <2>2, <3>5 DEF NewFields
        <4> QED
          BY <3>1, <3>5, <4>1
      <3> QED
        BY <3>2, <3>3, <3>4, <3>5
    <2>4. m.ev \in [TimerEvent -> EventType]
      <3>1. \A e \in TimerEvent : m.ev[e] \in EventType
        BY <2>3
      <3>2. m.ev = [e \in TimerEvent |-> m.ev[e]]
        BY <1>8 DEF NewList
      <3> QED
        BY <3>1, <3>2
    <2> QED
      BY <2>1, <2>3, <2>4 DEF Between
  <1>10. \A i, j \in 1..Len(s) : s[i] = s[j] => i = j
    BY DEF ListIs, Chain
  <1>11. LinkedIn(l, m, s, k, event)
    <2>1. m.first = IF k = 0 THEN event ELSE l.first
      <3>1. before = noEvent <=> k = 0
        BY <1>5, <1>6
      <3> QED
        BY <1>9, <3>1 DEF Between
    <2>2. m.ev[event].nextTE = after /\ m.ev[event].prevTE = before
      BY <1>9 DEF Between
    <2>3. ASSUME NEW i \in 1..Len(s)
          PROVE /\ m.ev[s[i]].nextTE = IF i = k THEN event ELSE l.ev[s[i]].nextTE
                /\ m.ev[s[i]].prevTE = IF i = k + 1 THEN event ELSE l.ev[s[i]].prevTE
      <3>1. s[i] = before <=> i = k
        BY <1>5, <1>6, <1>10
      <3>2. s[i] = after <=> i = k + 1
        <4>1. k # Len(s) => k + 1 \in 1..Len(s)
          BY <1>6
        <4> QED
          BY <1>5, <1>6, <1>10, <4>1
      <3>3. i = k + 1 => i # k
        BY <1>6
      <3>4. s[i] \in TimerEvent /\ s[i] # event
        BY <1>6
      <3> QED
        BY <1>9, <3>1, <3>2, <3>3, <3>4 DEF Between
    <2> QED
      BY <1>5, <2>1, <2>2, <2>3 DEF LinkedIn
  <1>12. PICK r : r = With(s, k, event)
    OBVIOUS
  <1>13. Added(s, k, event, r)
    BY <1>12, WithIs
  <1>14. ~In(event, s) /\ Chain(l, s)
    BY <1>6 DEF In, ListIs
  <1>15. Chain(m, r)
    BY <1>11, <1>13, <1>14, ChainInsert
  <1>16. Exact(m.ev, r)
    <2>1. \A v : In(v, r) <=> v = event \/ In(v, s)
      BY <1>13, AddedIn
    <2> QED
      BY <1>9, <2>1 DEF Exact, Between, ListIs
  <1>17. Sorted(m.ev, r)
    <2>1. \A e \in TimerEvent : m.ev[e].atTimeMillis = l.ev[e].atTimeMillis /\ l.ev[e].atTimeMillis \in Int
      BY <1>9 DEF Between, EventType
    <2>2. /\ r \in Seq(TimerEvent) /\ Len(r) = Len(s) + 1
          /\ \A i \in 1..Len(r) : i <= k => i \in 1..Len(s) /\ r[i] = s[i]
          /\ \A i \in 1..Len(r) : i = k + 1 => r[i] = event
          /\ \A i \in 1..Len(r) : k + 1 < i => i - 1 \in 1..Len(s) /\ r[i] = s[i - 1]
      BY <1>13 DEF Added
    <2>3. \A i, j \in 1..Len(s) : i <= j => l.ev[s[i]].atTimeMillis <= l.ev[s[j]].atTimeMillis
      BY DEF ListIs, Sorted
    <2>4. SUFFICES ASSUME NEW i \in 1..Len(r), NEW j \in 1..Len(r), i <= j PROVE l.ev[r[i]].atTimeMillis <= l.ev[r[j]].atTimeMillis
      BY <2>1, <2>2 DEF Sorted
    <2>5. CASE j <= k
      <3>1. i <= k
        BY <1>6, <2>2, <2>4, <2>5
      <3> QED
        BY <2>2, <2>3, <2>4, <2>5, <3>1
    <2>6. CASE i <= k /\ j = k + 1
      <3>1. i \in 1..Len(s) /\ r[i] = s[i] /\ r[j] = event
        BY <2>2, <2>6
      <3>2. l.ev[s[i]].atTimeMillis < t
        BY <1>2, <2>6, <3>1
      <3> QED
        BY <1>1, <1>6, <2>1, <3>1, <3>2
    <2>7. CASE i <= k /\ k + 1 < j
      <3>1. i \in 1..Len(s) /\ r[i] = s[i] /\ j - 1 \in 1..Len(s) /\ r[j] = s[j - 1]
        BY <2>2, <2>7
      <3>2. i <= j - 1
        BY <1>6, <2>2, <2>7
      <3> QED
        BY <2>3, <3>1, <3>2
    <2>8. CASE i = k + 1 /\ j = k + 1
      BY <1>1, <2>1, <2>2, <2>8
    <2>9. CASE i = k + 1 /\ k + 1 < j
      <3>1. r[i] = event /\ j - 1 \in 1..Len(s) /\ r[j] = s[j - 1]
        BY <2>2, <2>9
      <3>2. ~(j - 1 <= k)
        BY <1>6, <2>2, <2>9
      <3>3. ~(l.ev[s[j - 1]].atTimeMillis < t) /\ s[j - 1] \in TimerEvent
        BY <1>2, <1>6, <3>1, <3>2
      <3> QED
        BY <1>1, <2>1, <3>1, <3>3
    <2>10. CASE k + 1 < i
      <3>1. k + 1 < j /\ i - 1 <= j - 1
        BY <1>6, <2>2, <2>4, <2>10
      <3> QED
        BY <2>2, <2>3, <2>10, <3>1
    <2> QED
      BY <1>6, <2>2, <2>4, <2>5, <2>6, <2>7, <2>8, <2>9, <2>10
  <1>18. r \in Seq(TimerEvent) /\ ListIs(m, r)
    BY <1>13, <1>15, <1>16, <1>17 DEF Added, ListIs
  <1>19. m.first \in Pointer
    BY <1>18 DEF ListIs, Chain, Pointer
  <1> QED
    BY <1>9, <1>18, <1>19 DEF InsertedAs, Between

-----------------------------------------------------------------------------
(* Events that leave the list *)

\* m is l when the k-th event of s has been taken out of it.
TakenOut(l, m, s, k) ==
  /\ LinkedOut(l, m, s, k)
  /\ m.ev[s[k]].where # "list"
  /\ \A e \in TimerEvent : e # s[k] => m.ev[e].where = l.ev[e].where /\ m.ev[e].atTimeMillis = l.ev[e].atTimeMillis

\* The rest is a list in the order of times.
LEMMA RestIsList ==
  ASSUME NEW l, NEW m, NEW s \in Seq(TimerEvent), ListIs(l, s), NEW k \in 1..Len(s), TakenOut(l, m, s, k)
  PROVE  \E r \in Seq(TimerEvent) : ListIs(m, r)
  <1>1. PICK r : r = Without(s, k)
    OBVIOUS
  <1>2. Removed(s, k, r)
    BY <1>1, WithoutIs
  <1>3. Chain(l, s) /\ LinkedOut(l, m, s, k)
    BY DEF ListIs, TakenOut
  <1>4. Chain(m, r)
    BY <1>2, <1>3, ChainRemove
  <1>5. \A i, j \in 1..Len(s) : s[i] = s[j] => i = j
    BY <1>3 DEF Chain
  <1>6. \A v : In(v, r) <=> In(v, s) /\ v # s[k]
    BY <1>2, <1>5, RemovedIn
  <1>7. Exact(m.ev, r)
    BY <1>6 DEF Exact, TakenOut, ListIs
  <1>8. Sorted(m.ev, r)
    <2>1. /\ r \in Seq(TimerEvent) /\ Len(r) \in Nat /\ Len(s) \in Nat /\ Len(r) = Len(s) - 1
          /\ \A i \in 1..Len(r) : i < k => i \in 1..Len(s) /\ r[i] = s[i]
          /\ \A i \in 1..Len(r) : ~(i < k) => i + 1 \in 1..Len(s) /\ r[i] = s[i + 1]
      BY <1>2 DEF Removed
    <2>2. \A i, j \in 1..Len(s) : i <= j => l.ev[s[i]].atTimeMillis <= l.ev[s[j]].atTimeMillis
      BY DEF ListIs, Sorted
    <2>3. \A i \in 1..Len(r) : r[i] \in TimerEvent /\ r[i] # s[k]
      <3>1. ASSUME NEW i \in 1..Len(r) PROVE In(r[i], r)
        BY DEF In
      <3> QED
        BY <1>6, <2>1, <3>1
    <2>4. \A i \in 1..Len(r) : m.ev[r[i]].atTimeMillis = l.ev[r[i]].atTimeMillis
      BY <2>3 DEF TakenOut
    <2>5. ASSUME NEW i \in 1..Len(r), NEW j \in 1..Len(r), i <= j PROVE l.ev[r[i]].atTimeMillis <= l.ev[r[j]].atTimeMillis
      <3>1. CASE i < k /\ j < k
        BY <2>1, <2>2, <2>5, <3>1
      <3>2. CASE i < k /\ ~(j < k)
        <4>1. i <= j + 1
          BY <2>1, <2>5
        <4> QED
          BY <2>1, <2>2, <3>2, <4>1
      <3>3. CASE ~(i < k) /\ ~(j < k)
        <4>1. i + 1 <= j + 1
          BY <2>1, <2>5
        <4> QED
          BY <2>1, <2>2, <3>3, <4>1
      <3>4. ~(~(i < k) /\ j < k)
        BY <2>1, <2>5
      <3> QED
        BY <3>1, <3>2, <3>3, <3>4
    <2> QED
      BY <2>4, <2>5 DEF Sorted
  <1> QED
    BY <1>2, <1>4, <1>7, <1>8 DEF Removed, ListIs

\* A list from which event was removed.
RemovedAs(l, m, event) ==
  /\ m.first \in Pointer /\ m.ev \in [TimerEvent -> EventType]
  /\ \E r \in Seq(TimerEvent) : ListIs(m, r)
  /\ m.ev[event].where # "list"
  /\ \A e \in TimerEvent : e # event => m.ev[e].where = l.ev[e].where

\* What TakeFirst writes.
Where(l, event) == IF l.ev[event].newThread THEN "thread" ELSE "tick"

TakenFields(l, event, next, where, e) ==
  CASE e = event -> [l.ev[e] EXCEPT !.where = where, !.nextTE = noEvent, !.prevTE = noEvent]
    [] e = next -> [l.ev[e] EXCEPT !.prevTE = noEvent]
    [] OTHER -> l.ev[e]

\* It is the first event that is taken.
LEMMA TakeWrites ==
  ASSUME NEW l
  PROVE  TakeFirst(l) = [first |-> l.ev[l.first].nextTE,
                         ev |-> [e \in TimerEvent |-> TakenFields(l, l.first, l.ev[l.first].nextTE, Where(l, l.first), e)]]
  BY DEF TakeFirst, TakenFields, Where

\* The tick takes the first event from the list, for its own thread or for the tick.
LEMMA TakeFirstIs ==
  ASSUME NEW l, NEW s \in Seq(TimerEvent), ListIs(l, s), l.ev \in [TimerEvent -> EventType], l.first # noEvent,
         NEW event, event = l.first, NEW m, m = TakeFirst(l)
  PROVE  /\ event \in TimerEvent /\ l.ev[event].where = "list" /\ RemovedAs(l, m, event)
         /\ m.ev[event].where = IF l.ev[event].newThread THEN "thread" ELSE "tick"
  <1>1. s # << >> /\ event = s[1] /\ Len(s) \in Nat /\ 1 \in 1..Len(s)
    BY DEF ListIs, Chain
  <1>2. event \in TimerEvent /\ \A i \in 1..Len(s) : s[i] \in TimerEvent /\ s[i] # noEvent
    BY <1>1, NamesDiffer DEF TimerNames
  <1>3. l.ev[event].where = "list"
    BY <1>1, <1>2 DEF ListIs, Exact, In
  <1>4. \A i, j \in 1..Len(s) : s[i] = s[j] => i = j
    BY DEF ListIs, Chain
  <1>14. 1 # Len(s) => 2 \in 1..Len(s)
    <2>1. PICK n \in Nat : n = Len(s)
      BY <1>1
    <2>2. 1 \in 1..n
      BY <1>1, <2>1
    <2>3. 1 # n => 2 \in 1..n
      BY <2>2
    <2> QED
      BY <2>1, <2>3
  <1>5. PICK next : next = l.ev[event].nextTE
    OBVIOUS
  <1>6. next = (IF 1 = Len(s) THEN noEvent ELSE s[2]) /\ next # event /\ next \in Pointer
    <2>1. next = IF 1 = Len(s) THEN noEvent ELSE s[1 + 1]
      BY <1>1, <1>5 DEF ListIs, Chain
    <2>2. 1 # Len(s) => 2 \in 1..Len(s) /\ s[2] # s[1] /\ 1 + 1 = 2
      BY <1>1, <1>4, <1>14
    <2> QED
      BY <1>1, <1>2, <2>1, <2>2 DEF Pointer
  <1>7. PICK where \in {"thread", "tick"} : where = Where(l, event)
    BY DEF Where
  <1>8. /\ m.first = next /\ m.ev = [e \in TimerEvent |-> m.ev[e]]
        /\ m.ev[event] = [l.ev[event] EXCEPT !.where = where, !.nextTE = noEvent, !.prevTE = noEvent]
        /\ next \in TimerEvent => m.ev[next] = [l.ev[next] EXCEPT !.prevTE = noEvent]
        /\ \A e \in TimerEvent : e # event /\ e # next => m.ev[e] = l.ev[e]
    <2>0. m = [first |-> next, ev |-> [e \in TimerEvent |-> TakenFields(l, event, next, where, e)]]
      BY <1>5, <1>7, TakeWrites
    <2>1. m.first = next /\ m.ev = [e \in TimerEvent |-> m.ev[e]]
      BY <2>0
    <2>5. \A e \in TimerEvent : m.ev[e] = TakenFields(l, event, next, where, e)
      BY <2>0
    <2>2. m.ev[event] = [l.ev[event] EXCEPT !.where = where, !.nextTE = noEvent, !.prevTE = noEvent]
      BY <1>2, <1>6, <2>5 DEF TakenFields
    <2>3. next \in TimerEvent => m.ev[next] = [l.ev[next] EXCEPT !.prevTE = noEvent]
      BY <1>2, <1>6, <2>5 DEF TakenFields
    <2>4. ASSUME NEW e \in TimerEvent, e # event, e # next PROVE m.ev[e] = l.ev[e]
      BY <2>4, <2>5 DEF TakenFields
    <2> QED
      BY <2>1, <2>2, <2>3, <2>4
  <1>9. ASSUME NEW e \in TimerEvent
        PROVE  /\ m.ev[e] \in EventType
               /\ m.ev[e].where = IF e = event THEN where ELSE l.ev[e].where
               /\ e # event => /\ m.ev[e].atTimeMillis = l.ev[e].atTimeMillis
                               /\ m.ev[e].nextTE = l.ev[e].nextTE
                               /\ m.ev[e].prevTE = IF e = next THEN noEvent ELSE l.ev[e].prevTE
    <2>1. l.ev[e] \in EventType
      OBVIOUS
    <2>2. CASE e = event
      BY <1>7, <1>8, <2>1, <2>2 DEF EventType, Places, Pointer
    <2>3. CASE e = next
      BY <1>6, <1>8, <2>1, <2>3 DEF EventType, Pointer
    <2>4. CASE e # event /\ e # next
      BY <1>8, <2>1, <2>4
    <2> QED
      BY <2>2, <2>3, <2>4
  <1>10. m.ev \in [TimerEvent -> EventType]
    BY <1>8, <1>9
  <1>11. l.ev[event].prevTE = noEvent
    BY <1>1 DEF ListIs, Chain
  <1>12. TakenOut(l, m, s, 1)
    <2>1. m.first = IF 1 = 1 THEN l.ev[s[1]].nextTE ELSE l.first
      BY <1>1, <1>5, <1>8
    <2>2. ASSUME NEW i \in 1..Len(s), i # 1
          PROVE  /\ m.ev[s[i]].nextTE = IF i = 1 - 1 THEN l.ev[s[1]].nextTE ELSE l.ev[s[i]].nextTE
                 /\ m.ev[s[i]].prevTE = IF i = 1 + 1 THEN l.ev[s[1]].prevTE ELSE l.ev[s[i]].prevTE
      <3>1. s[i] # event /\ s[i] \in TimerEvent /\ i # 1 - 1
        BY <1>1, <1>2, <1>4, <2>2
      <3>2. s[i] = next <=> i = 1 + 1
        BY <1>1, <1>2, <1>4, <1>6, <1>14, <2>2
      <3> QED
        BY <1>1, <1>9, <1>11, <3>1, <3>2
    <2>3. LinkedOut(l, m, s, 1)
      BY <2>1, <2>2 DEF LinkedOut
    <2>4. m.ev[s[1]].where # "list"
      BY <1>1, <1>2, <1>7, <1>9
    <2> QED
      BY <1>1, <1>9, <2>3, <2>4 DEF TakenOut
  <1>13. \E r \in Seq(TimerEvent) : ListIs(m, r)
    BY <1>1, <1>12, RestIsList
  <1> QED
    BY <1>2, <1>3, <1>6, <1>7, <1>8, <1>9, <1>10, <1>13 DEF RemovedAs, Where

\* tem_cancel takes an event of the list out of it.
LEMMA UnlinkedIs ==
  ASSUME NEW l, NEW s \in Seq(TimerEvent), ListIs(l, s), l.ev \in [TimerEvent -> EventType],
         NEW event \in TimerEvent, l.ev[event].where = "list", NEW m, m = Unlinked(l, event)
  PROVE  RemovedAs(l, m, event) /\ m.ev[event].where = "free"
  <1>1. PICK k \in 1..Len(s) : s[k] = event
    BY DEF ListIs, Exact, In
  <1>2. Len(s) \in Nat /\ \A i \in 1..Len(s) : s[i] \in TimerEvent /\ s[i] # noEvent
    BY NamesDiffer DEF TimerNames
  <1>4. \A i, j \in 1..Len(s) : s[i] = s[j] => i = j
    BY DEF ListIs, Chain
  <1>5. PICK next, prev : next = l.ev[event].nextTE /\ prev = l.ev[event].prevTE
    OBVIOUS
  <1>6. next = (IF k = Len(s) THEN noEvent ELSE s[k + 1]) /\ prev = (IF k = 1 THEN noEvent ELSE s[k - 1])
    BY <1>1, <1>5 DEF ListIs, Chain
  <1>7. /\ k # Len(s) => k + 1 \in 1..Len(s) /\ k + 1 # k
        /\ k # 1 => k - 1 \in 1..Len(s) /\ k - 1 # k /\ k - 1 # k + 1
    BY <1>2
  <1>8. /\ next \in Pointer /\ prev \in Pointer /\ next # event /\ prev # event
        /\ next # noEvent => next # prev
    BY <1>1, <1>2, <1>4, <1>6, <1>7 DEF Pointer
  <1>9. /\ m.first = IF prev = noEvent THEN next ELSE l.first
        /\ m.ev = [e \in TimerEvent |-> m.ev[e]]
        /\ m.ev[event] = Blank
        /\ prev \in TimerEvent => m.ev[prev] = [l.ev[prev] EXCEPT !.nextTE = next]
        /\ next \in TimerEvent => m.ev[next] = [l.ev[next] EXCEPT !.prevTE = prev]
        /\ \A e \in TimerEvent : e # event /\ e # next /\ e # prev => m.ev[e] = l.ev[e]
    <2>1. m.first = IF prev = noEvent THEN next ELSE l.first
      BY <1>5 DEF Unlinked
    <2>2. m.ev = [e \in TimerEvent |-> m.ev[e]]
      BY <1>5 DEF Unlinked
    <2>3. m.ev[event] = Blank
      BY <1>5, <1>8 DEF Unlinked
    <2>4. prev \in TimerEvent => m.ev[prev] = [l.ev[prev] EXCEPT !.nextTE = next]
      BY <1>5, <1>8, NamesDiffer DEF Unlinked, TimerNames
    <2>5. next \in TimerEvent => m.ev[next] = [l.ev[next] EXCEPT !.prevTE = prev]
      BY <1>5, <1>8, NamesDiffer DEF Unlinked, TimerNames
    <2>6. ASSUME NEW e \in TimerEvent, e # event, e # next, e # prev PROVE m.ev[e] = l.ev[e]
      BY <1>5, <2>6 DEF Unlinked
    <2> QED
      BY <2>1, <2>2, <2>3, <2>4, <2>5, <2>6
  <1>10. Blank \in EventType /\ Blank.where = "free"
    BY DEF Blank, EventType, Places, Pointer
  <1>11. ASSUME NEW e \in TimerEvent
         PROVE  /\ m.ev[e] \in EventType
                /\ m.ev[e].where = IF e = event THEN "free" ELSE l.ev[e].where
                /\ e # event => /\ m.ev[e].atTimeMillis = l.ev[e].atTimeMillis
                                /\ m.ev[e].nextTE = IF e = prev THEN next ELSE l.ev[e].nextTE
                                /\ m.ev[e].prevTE = IF e = next THEN prev ELSE l.ev[e].prevTE
    <2>1. l.ev[e] \in EventType
      OBVIOUS
    <2>2. CASE e = event
      BY <1>9, <1>10, <2>2
    <2>3. CASE e = prev
      <3>1. e # event /\ e # next
        BY <1>8, <2>3, NamesDiffer DEF TimerNames
      <3> QED
        BY <1>8, <1>9, <2>1, <2>3, <3>1 DEF EventType
    <2>4. CASE e = next
      <3>1. e # event /\ e # prev
        BY <1>8, <2>4, NamesDiffer DEF TimerNames
      <3> QED
        BY <1>8, <1>9, <2>1, <2>4, <3>1 DEF EventType
    <2>5. CASE e # event /\ e # next /\ e # prev
      BY <1>9, <2>1, <2>5
    <2> QED
      BY <2>2, <2>3, <2>4, <2>5
  <1>12. m.ev \in [TimerEvent -> EventType]
    BY <1>9, <1>11
  <1>13. TakenOut(l, m, s, k)
    <2>1. m.first = IF k = 1 THEN l.ev[s[k]].nextTE ELSE l.first
      BY <1>1, <1>2, <1>5, <1>6, <1>7, <1>9
    <2>2. ASSUME NEW i \in 1..Len(s), i # k
          PROVE  /\ m.ev[s[i]].nextTE = IF i = k - 1 THEN l.ev[s[k]].nextTE ELSE l.ev[s[i]].nextTE
                 /\ m.ev[s[i]].prevTE = IF i = k + 1 THEN l.ev[s[k]].prevTE ELSE l.ev[s[i]].prevTE
      <3>1. s[i] # event /\ s[i] \in TimerEvent
        BY <1>1, <1>2, <1>4, <2>2
      <3>2. s[i] = next <=> i = k + 1
        BY <1>2, <1>4, <1>6, <1>7
      <3>3. s[i] = prev <=> i = k - 1
        BY <1>2, <1>4, <1>6, <1>7
      <3> QED
        BY <1>1, <1>5, <1>11, <3>1, <3>2, <3>3
    <2>3. LinkedOut(l, m, s, k)
      BY <2>1, <2>2 DEF LinkedOut
    <2>4. m.ev[s[k]].where # "list"
      BY <1>1, <1>11
    <2> QED
      BY <1>1, <1>11, <2>3, <2>4 DEF TakenOut
  <1>14. \E r \in Seq(TimerEvent) : ListIs(m, r)
    BY <1>13, RestIsList
  <1>15. m.first \in Pointer
    BY <1>14 DEF ListIs, Chain, Pointer
  <1> QED
    BY <1>11, <1>12, <1>14, <1>15 DEF RemovedAs

-----------------------------------------------------------------------------
(* What keeps the parts of the invariant *)

\* A list has its first event and its fields, and nothing more.
LEMMA SameList ==
  ASSUME NEW l, NEW m, l.first = m.first, l.ev = m.ev, NEW s, ListIs(m, s)
  PROVE  ListIs(l, s)
  BY DEF ListIs, Chain

\* The manager's list becomes one that is well formed.
LEMMA BecomesList ==
  ASSUME NEW m, \E r \in Seq(TimerEvent) : ListIs(m, r), ListBecomes(m)
  PROVE  ListInv'
  <1>1. PICK r \in Seq(TimerEvent) : ListIs(m, r)
    OBVIOUS
  <1>2. PICK l : l = TheList'
    OBVIOUS
  <1>3. l.first = m.first /\ l.ev = m.ev
    BY <1>2 DEF TheList, ListBecomes
  <1>4. ListIs(l, r)
    BY <1>1, <1>3, SameList
  <1>5. ListIs(TheList, r)'
    BY <1>2, <1>4
  <1> QED
    BY <1>5 DEF ListInv

\* An event outside the list may change.
LEMMA ChangeOutside ==
  ASSUME NEW l, NEW s \in Seq(TimerEvent), ListIs(l, s), l.ev \in [TimerEvent -> EventType],
         NEW e \in TimerEvent, l.ev[e].where # "list", NEW v \in EventType, v.where # "list",
         NEW m, m.first = l.first, m.ev = [l.ev EXCEPT ![e] = v]
  PROVE  ListIs(m, s)
  <1>1. \A i \in 1..Len(s) : s[i] \in TimerEvent /\ s[i] # e
    BY DEF ListIs, Exact, In
  <1>2. \A i \in 1..Len(s) : m.ev[s[i]] = l.ev[s[i]]
    BY <1>1
  <1>3. Chain(m, s)
    BY <1>2 DEF ListIs, Chain
  <1>4. Sorted(m.ev, s)
    BY <1>2 DEF ListIs, Sorted
  <1>5. Exact(m.ev, s)
    <2>1. ASSUME NEW f \in TimerEvent PROVE In(f, s) <=> m.ev[f].where = "list"
      <3>1. CASE f = e
        BY <1>1, <3>1 DEF In
      <3>2. CASE f # e
        BY <3>2 DEF ListIs, Exact
      <3> QED
        BY <3>1, <3>2
    <2> QED
      BY <2>1 DEF Exact
  <1> QED
    BY <1>3, <1>4, <1>5 DEF ListIs

\* So may one of the manager's events.
LEMMA OutsideStep ==
  ASSUME TypeInv, ListInv, NEW e \in TimerEvent, timerEvents[e].where # "list", NEW v \in EventType, v.where # "list",
         timerEvents' = [timerEvents EXCEPT ![e] = v], UNCHANGED <<firstTE, timerDevice>>
  PROVE  ListInv'
  <1>1. SUFFICES ASSUME timerDevice' # "stopped" PROVE \E s \in Seq(TimerEvent) : ListIs(TheList, s)'
    BY DEF ListInv
  <1>2. PICK s \in Seq(TimerEvent) : ListIs(TheList, s)
    BY <1>1 DEF ListInv
  <1>3. PICK l, m : l = TheList /\ m = TheList'
    OBVIOUS
  <1>4. ListIs(l, s) /\ l.ev \in [TimerEvent -> EventType] /\ l.ev[e].where # "list" /\ m.first = l.first /\ m.ev = [l.ev EXCEPT ![e] = v]
    BY <1>2, <1>3 DEF TheList, TypeInv
  <1>5. ListIs(m, s)
    BY <1>4, ChangeOutside
  <1> QED
    BY <1>3, <1>5

\* A step that takes no new event away from its client, and lets no client begin to add.
LEMMA KeepsAdd ==
  ASSUME AddInv, \A c \in TimerClient : Adding(c)' => Adding(c) /\ clientEvent'[c] = clientEvent[c],
         \A e \in TimerEvent : timerEvents[e].where = "new" => timerEvents'[e].where = "new"
  PROVE  AddInv'
  BY DEF AddInv

\* A step that leaves the events of the handles it keeps in the list.
LEMMA KeepsHandle ==
  ASSUME HandleInv,
         \A c \in TimerClient : timerHandle'[c] # noEvent => timerHandle'[c] = timerHandle[c] /\ timerEvents'[timerHandle[c]].where = "list",
         \A c \in TimerClient : clientPc'[c] \in {"cancelLock", "unlink"} => timerHandle'[c] \in {noEvent, clientEvent'[c]}
  PROVE  HandleInv'
  BY DEF HandleInv

\* A step that neither begins nor ends a handler in the tick.
LEMMA KeepsTick ==
  ASSUME TickInv, tickPc' = "handler" <=> tickPc = "handler",
         \A e \in TimerEvent : timerEvents'[e].where = "tick" <=> timerEvents[e].where = "tick"
  PROVE  TickInv'
  BY DEF TickInv

-----------------------------------------------------------------------------
(* The tick *)

\* The times keep their order when they move.
LEMMA EarlierIs ==
  /\ \A t \in Int : Earlier(t) \in Int
  /\ \A t, u \in Int : t <= u => Earlier(t) <= Earlier(u)
  BY TimerAssumption DEF Earlier, TimerLongPast

\* The time moves.
LEMMA CallbackStep ==
  ASSUME TimerInv, timerCallbackFunction
  PROVE  TimerInv'
  <1> USE DEF TimerInv
  <1>1. ASSUME NEW e \in TimerEvent
        PROVE  /\ timerEvents'[e] \in EventType /\ timerEvents'[e].where = timerEvents[e].where
               /\ timerEvents'[e].nextTE = timerEvents[e].nextTE /\ timerEvents'[e].prevTE = timerEvents[e].prevTE
               /\ timerEvents[e].where = "list" => timerEvents'[e].atTimeMillis = Earlier(timerEvents[e].atTimeMillis)
    <2>1. timerEvents[e] \in EventType /\ timerEvents[e].atTimeMillis \in Int
      BY DEF TypeInv, EventType
    <2>2. CASE timerEvents[e].where = "free"
      <3>1. timerEvents'[e] = timerEvents[e]
        BY <2>2 DEF timerCallbackFunction
      <3> QED
        BY <2>1, <2>2, <3>1
    <2>3. CASE timerEvents[e].where # "free"
      <3>1. PICK t \in Int : t = Earlier(timerEvents[e].atTimeMillis)
        BY <2>1, EarlierIs
      <3>2. timerEvents'[e] = [timerEvents[e] EXCEPT !.atTimeMillis = t]
        BY <2>3, <3>1 DEF timerCallbackFunction
      <3> QED
        BY <2>1, <3>1, <3>2 DEF EventType
    <2> QED
      BY <2>2, <2>3
  <1>2. TypeInv'
    <2>1. timerEvents' \in [TimerEvent -> EventType]
      <3>1. timerEvents' = [e \in TimerEvent |-> timerEvents'[e]]
        BY DEF timerCallbackFunction
      <3>2. \A e \in TimerEvent : timerEvents'[e] \in EventType
        BY <1>1
      <3> QED
        BY <3>1, <3>2
    <2> QED
      BY <2>1 DEF TypeInv, timerCallbackFunction
  <1>3. ListInv'
    <2>1. PICK s \in Seq(TimerEvent) : ListIs(TheList, s)
      BY DEF ListInv, timerCallbackFunction
    <2>2. \A i \in 1..Len(s) : s[i] \in TimerEvent /\ timerEvents[s[i]].where = "list" /\ timerEvents[s[i]].atTimeMillis \in Int
      BY <2>1 DEF ListIs, Exact, In, TheList, TypeInv, EventType
    <2>3. /\ \A i \in 1..Len(s) : timerEvents[s[i]].nextTE = IF i = Len(s) THEN noEvent ELSE s[i + 1]
          /\ \A i \in 1..Len(s) : timerEvents[s[i]].prevTE = IF i = 1 THEN noEvent ELSE s[i - 1]
          /\ \A i, j \in 1..Len(s) : s[i] = s[j] => i = j
          /\ firstTE = IF s = << >> THEN noEvent ELSE s[1]
      BY <2>1 DEF ListIs, Chain, TheList
    <2>4. Chain(TheList, s)'
      BY <1>1, <2>2, <2>3 DEF Chain, TheList, timerCallbackFunction
    <2>5. \A i, j \in 1..Len(s) : i <= j => timerEvents[s[i]].atTimeMillis <= timerEvents[s[j]].atTimeMillis
      BY <2>1 DEF ListIs, Sorted, TheList
    <2>6. ASSUME NEW i \in 1..Len(s), NEW j \in 1..Len(s), i <= j PROVE timerEvents'[s[i]].atTimeMillis <= timerEvents'[s[j]].atTimeMillis
      <3>1. PICK t, u \in Int : t = timerEvents[s[i]].atTimeMillis /\ u = timerEvents[s[j]].atTimeMillis
        BY <2>2
      <3>2. t <= u
        BY <2>5, <2>6, <3>1
      <3>3. Earlier(t) <= Earlier(u)
        BY <3>2, EarlierIs
      <3>4. timerEvents'[s[i]].atTimeMillis = Earlier(t) /\ timerEvents'[s[j]].atTimeMillis = Earlier(u)
        BY <1>1, <2>2, <3>1
      <3> QED
        BY <3>3, <3>4
    <2>7. Sorted(TheList.ev, s)'
      BY <2>6 DEF Sorted, TheList
    <2>8. Exact(TheList.ev, s)'
      <3>1. \A e \in TimerEvent : In(e, s) <=> timerEvents[e].where = "list"
        BY <2>1 DEF ListIs, Exact, TheList
      <3> QED
        BY <1>1, <3>1 DEF Exact, TheList
    <2> QED
      BY <2>4, <2>7, <2>8 DEF ListInv, ListIs
  <1>4. TickInv'
    BY <1>1, KeepsTick DEF timerCallbackFunction
  <1>5. AddInv'
    BY <1>1, KeepsAdd DEF timerCallbackFunction, Adding
  <1>6. HandleInv'
    <2>1. \A c \in TimerClient : timerHandle[c] # noEvent => timerHandle[c] \in TimerEvent /\ timerEvents[timerHandle[c]].where = "list"
      BY DEF HandleInv, TypeInv, Pointer
    <2> QED
      BY <1>1, <2>1, KeepsHandle DEF timerCallbackFunction, HandleInv
  <1>7. StopInv'
    BY DEF StopInv, timerCallbackFunction
  <1> QED
    BY <1>2, <1>3, <1>4, <1>5, <1>6, <1>7

\* Steps that leave the events as they are, or nearly so, keep the list.
LEMMA SameEvents ==
  ASSUME ListInv, timerDevice' # "stopped" => timerDevice # "stopped", UNCHANGED <<firstTE, timerEvents>>
  PROVE  ListInv'
  <1>1. TheList' = TheList
    BY DEF TheList
  <1> QED
    BY <1>1 DEF ListInv

\* The handles are of events in the list.
LEMMA HandlesListed ==
  ASSUME TypeInv, HandleInv
  PROVE  \A c \in TimerClient : timerHandle[c] # noEvent => timerHandle[c] \in TimerEvent /\ timerEvents[timerHandle[c]].where = "list"
  BY DEF HandleInv, TypeInv, Pointer

\* The tick takes and leaves listLock.
LEMMA TickLockStep ==
  ASSUME TimerInv, TickLock \/ TickUnlock
  PROVE  TimerInv'
  <1>1. /\ UNCHANGED <<firstTE, timerEvents, clientPc, clientEvent, timerHandle, timerDevice>>
        /\ tickPc # "handler" /\ tickPc' \in {"loop", "idle"} /\ tickPc # "idle"
    BY DEF TickLock, TickUnlock
  <1>2. TypeInv'
    BY <1>1 DEF TimerInv, TypeInv
  <1>3. ListInv'
    BY <1>1, SameEvents DEF TimerInv
  <1>4. TickInv'
    BY <1>1, KeepsTick DEF TimerInv
  <1>5. AddInv'
    BY <1>1, KeepsAdd DEF TimerInv, Adding
  <1>6. HandleInv'
    BY <1>1 DEF TimerInv, HandleInv
  <1>7. StopInv'
    BY <1>1 DEF TimerInv, StopInv
  <1> QED
    BY <1>2, <1>3, <1>4, <1>5, <1>6, <1>7 DEF TimerInv

\* The tick takes the first event.
LEMMA TickTakeStep ==
  ASSUME TimerInv, TickTake
  PROVE  TimerInv'
  <1>1. timerDevice # "stopped"
    BY DEF TimerInv, StopInv, TickTake
  <1>2. PICK s \in Seq(TimerEvent) : ListIs(TheList, s)
    BY <1>1 DEF TimerInv, ListInv
  <1>3. PICK l, m, event : l = TheList /\ m = TakeFirst(TheList) /\ event = firstTE
    OBVIOUS
  <1>4. l.first = firstTE /\ l.ev = timerEvents
    BY <1>3 DEF TheList
  <1>5. ListIs(l, s) /\ l.ev \in [TimerEvent -> EventType] /\ l.first # noEvent /\ event = l.first /\ m = TakeFirst(l)
    BY <1>2, <1>3, <1>4 DEF TimerInv, TypeInv, TickTake, Due
  <1>6. /\ event \in TimerEvent /\ l.ev[event].where = "list" /\ RemovedAs(l, m, event)
        /\ m.ev[event].where = IF l.ev[event].newThread THEN "thread" ELSE "tick"
    BY <1>5, TakeFirstIs
  <1>7. firstTE' = m.first /\ timerEvents' = m.ev /\ ListBecomes(m)
    BY <1>3 DEF TickTake, ListBecomes
  <1>8. /\ firstTE' \in Pointer /\ timerEvents' \in [TimerEvent -> EventType] /\ \E r \in Seq(TimerEvent) : ListIs(m, r)
        /\ \A e \in TimerEvent : e # event => timerEvents'[e].where = timerEvents[e].where
        /\ timerEvents[event].where = "list"
        /\ timerEvents'[event].where = IF timerEvents[event].newThread THEN "thread" ELSE "tick"
    BY <1>4, <1>6, <1>7 DEF RemovedAs
  <1>9. \A c \in TimerClient : timerHandle'[c] = IF timerHandle[c] = event THEN noEvent ELSE timerHandle[c]
    BY <1>3 DEF TickTake
  <1>10. TypeInv'
    <2>1. timerHandle' \in [TimerClient -> Pointer]
      BY DEF TimerInv, TypeInv, TickTake, Pointer
    <2> QED
      BY <1>8, <2>1 DEF TimerInv, TypeInv, TickTake
  <1>11. ListInv'
    BY <1>7, <1>8, BecomesList
  <1>12. TickInv'
    <2>1. \A e \in TimerEvent : timerEvents[e].where # "tick"
      BY DEF TimerInv, TickInv, TickTake
    <2>2. tickPc' = IF timerEvents[event].newThread THEN "loop" ELSE "handler"
      BY <1>3 DEF TickTake
    <2>3. timerEvents[event].newThread \in BOOLEAN
      BY <1>6 DEF TimerInv, TypeInv, EventType
    <2>4. CASE timerEvents[event].newThread
      <3>1. \A e \in TimerEvent : timerEvents'[e].where # "tick"
        BY <1>8, <2>1, <2>4
      <3> QED
        BY <2>2, <2>4, <3>1 DEF TickInv
    <2>5. CASE ~timerEvents[event].newThread
      <3>1. \A e \in TimerEvent : timerEvents'[e].where = "tick" <=> e = event
        BY <1>8, <2>1, <2>5
      <3> QED
        BY <1>6, <2>2, <2>5, <3>1 DEF TickInv
    <2> QED
      BY <2>3, <2>4, <2>5
  <1>13. AddInv'
    BY <1>8, KeepsAdd DEF TimerInv, Adding, TickTake
  <1>14. HandleInv'
    <2>1. \A c \in TimerClient : timerHandle'[c] # noEvent => timerHandle'[c] = timerHandle[c] /\ timerHandle[c] \in TimerEvent /\ timerHandle[c] # event
      BY <1>9 DEF TimerInv, TypeInv, Pointer
    <2>2. \A c \in TimerClient : timerHandle'[c] # noEvent => timerHandle'[c] = timerHandle[c] /\ timerEvents'[timerHandle[c]].where = "list"
      BY <1>8, <2>1, HandlesListed DEF TimerInv
    <2>3. \A c \in TimerClient : clientPc'[c] \in {"cancelLock", "unlink"} => timerHandle'[c] \in {noEvent, clientEvent'[c]}
      BY <1>9 DEF TimerInv, HandleInv, TickTake
    <2> QED
      BY <2>2, <2>3, KeepsHandle DEF TimerInv
  <1>15. StopInv'
    BY <1>1 DEF TimerInv, StopInv, TickTake
  <1> QED
    BY <1>10, <1>11, <1>12, <1>13, <1>14, <1>15 DEF TimerInv

-----------------------------------------------------------------------------
(* The handlers *)

\* The times a handler may ask for are numbers.
LEMMA ResultsAreTimes ==
  ASSUME TypeInv, NEW e \in TimerEvent, NEW t \in HandlerResults(e)
  PROVE  t \in Int
  <1>1. timerEvents[e].atTimeMillis \in Int /\ timerEvents[e].lo \in Nat /\ timerEvents[e].hi \in Nat
    BY DEF TypeInv, EventType
  <1>2. \A u \in NextTimes(e) : u \in Int
    <2>1. CASE timerEvents[e].lo = 0
      BY <1>1, <2>1 DEF NextTimes, timerStop
    <2>2. CASE timerEvents[e].lo # 0 /\ timerEvents[e].lo = timerEvents[e].hi
      BY <1>1, <2>2 DEF NextTimes
    <2>3. CASE timerEvents[e].lo # 0 /\ timerEvents[e].lo # timerEvents[e].hi
      <3>1. NextTimes(e) = {timerEvents[e].atTimeMillis + i : i \in timerEvents[e].lo .. timerEvents[e].hi - 1}
        BY <2>3 DEF NextTimes
      <3> QED
        BY <1>1, <3>1
    <2> QED
      BY <2>1, <2>2, <2>3
  <1> QED
    BY <1>2, TimerAssumption DEF HandlerResults, timerStop

\* The blank fields are those of a free event.
LEMMA BlankIs == Blank \in EventType /\ Blank.where = "free"
  BY DEF Blank, EventType, Places, Pointer

\* A handler in the tick returns.
LEMMA DoOneEventStep ==
  ASSUME TimerInv, NEW event \in TimerEvent, NEW time \in HandlerResults(event), doOneEvent(event, time)
  PROVE  TimerInv'
  <1>1. timerDevice # "stopped" /\ time \in Int /\ timerEvents[event].where = "tick" /\ tickPc = "handler"
    BY ResultsAreTimes DEF TimerInv, StopInv, doOneEvent
  <1>2. \A e \in TimerEvent : timerEvents[e].where = "tick" => e = event
    BY <1>1 DEF TimerInv, TickInv
  <1>3. /\ firstTE' \in Pointer /\ timerEvents' \in [TimerEvent -> EventType] /\ ListInv'
        /\ timerEvents'[event].where \in {"list", "free"}
        /\ \A e \in TimerEvent : e # event => timerEvents'[e].where = timerEvents[e].where
    <2>1. CASE Again(time)
      <3>1. PICK s \in Seq(TimerEvent) : ListIs(TheList, s)
        BY <1>1 DEF TimerInv, ListInv
      <3>2. PICK v : v = [timerEvents[event] EXCEPT !.atTimeMillis = time]
        OBVIOUS
      <3>3. v \in EventType /\ v.where = "tick"
        BY <1>1, <3>2 DEF TimerInv, TypeInv, EventType
      <3>4. PICK o, l : o = TheList /\ l = [first |-> firstTE, ev |-> [timerEvents EXCEPT ![event].atTimeMillis = time]]
        OBVIOUS
      <3>5. l.ev = [timerEvents EXCEPT ![event] = v] /\ l.first = firstTE /\ o.first = firstTE /\ o.ev = timerEvents
        BY <3>2, <3>4 DEF TheList
      <3>6. l.ev \in [TimerEvent -> EventType] /\ l.ev[event].where = "tick" /\ timerEvents \in [TimerEvent -> EventType]
        BY <3>3, <3>5 DEF TimerInv, TypeInv
      <3>7. ListIs(o, s) /\ o.ev \in [TimerEvent -> EventType] /\ o.ev[event].where # "list" /\ v.where # "list" /\ l.first = o.first /\ l.ev = [o.ev EXCEPT ![event] = v]
        BY <1>1, <3>1, <3>3, <3>4, <3>5, <3>6
      <3>8. ListIs(l, s)
        BY <3>3, <3>7, ChangeOutside
      <3>9. PICK m : m = insertAnEvent(l, event)
        OBVIOUS
      <3>10. l.ev[event].where # "list"
        BY <3>6
      <3>11. InsertedAs(l, m, event)
        BY <3>6, <3>8, <3>9, <3>10, InsertIs
      <3>12. ListBecomes(m)
        BY <2>1, <3>4, <3>9 DEF doOneEvent
      <3>13. ListInv'
        BY <3>11, <3>12, BecomesList DEF InsertedAs
      <3>14. \A e \in TimerEvent : e # event => l.ev[e].where = timerEvents[e].where
        BY <3>5, <3>6
      <3> QED
        BY <3>11, <3>12, <3>13, <3>14 DEF InsertedAs, ListBecomes
    <2>2. CASE ~Again(time)
      <3>1. timerEvents' = [timerEvents EXCEPT ![event] = Blank] /\ firstTE' = firstTE /\ timerDevice' = timerDevice
        BY <2>2 DEF doOneEvent
      <3>2. ListInv'
        BY <1>1, <3>1, BlankIs, OutsideStep DEF TimerInv
      <3> QED
        BY <3>1, <3>2, BlankIs DEF TimerInv, TypeInv
    <2> QED
      BY <2>1, <2>2
  <1>4. \A c \in TimerClient : clientPc'[c] = "awake" \/ clientPc'[c] = clientPc[c]
    BY DEF doOneEvent, Woken
  <1>5. /\ clientPc' \in [TimerClient -> ClientPlaces] /\ tickPc' = "loop"
        /\ UNCHANGED <<clientEvent, timerHandle, timerDevice>>
    BY DEF TimerInv, TypeInv, ClientPlaces, doOneEvent, Woken
  <1>6. TypeInv'
    BY <1>3, <1>5 DEF TimerInv, TypeInv
  <1>7. TickInv'
    <2>1. \A e \in TimerEvent : timerEvents'[e].where # "tick"
      BY <1>2, <1>3
    <2> QED
      BY <1>5, <2>1 DEF TickInv
  <1>8. AddInv'
    BY <1>1, <1>3, <1>4, <1>5, KeepsAdd DEF TimerInv, Adding
  <1>9. HandleInv'
    <2>1. \A c \in TimerClient : timerHandle'[c] # noEvent => timerHandle'[c] = timerHandle[c] /\ timerEvents'[timerHandle[c]].where = "list"
      BY <1>1, <1>3, <1>5, HandlesListed DEF TimerInv
    <2>2. \A c \in TimerClient : clientPc'[c] \in {"cancelLock", "unlink"} => timerHandle'[c] \in {noEvent, clientEvent'[c]}
      BY <1>4, <1>5 DEF TimerInv, HandleInv
    <2> QED
      BY <2>1, <2>2, KeepsHandle DEF TimerInv
  <1>10. StopInv'
    BY <1>1, <1>4, <1>5 DEF TimerInv, StopInv, Outside
  <1> QED
    BY <1>3, <1>6, <1>7, <1>8, <1>9, <1>10 DEF TimerInv

\* A handler in a thread of its own returns.
LEMMA EventThreadStep ==
  ASSUME TimerInv, NEW event \in TimerEvent, NEW time \in HandlerResults(event), eventThreadFunc(event, time)
  PROVE  TimerInv'
  <1>1. time \in Int /\ timerEvents[event].where = "thread" /\ timerEvents[event] \in EventType
    BY ResultsAreTimes DEF TimerInv, TypeInv, eventThreadFunc
  <1>2. PICK v : v = IF Again(time) THEN [timerEvents[event] EXCEPT !.atTimeMillis = time, !.where = "insert"] ELSE Blank
    OBVIOUS
  <1>3. v \in EventType /\ v.where \in {"insert", "free"}
    BY <1>1, <1>2, BlankIs DEF EventType, Places
  <1>4. timerEvents' = [timerEvents EXCEPT ![event] = v] /\ UNCHANGED <<firstTE, listLock, tickPc, clientPc, clientEvent, timerHandle, timerDevice>>
    BY <1>2 DEF eventThreadFunc
  <1>5. timerEvents' \in [TimerEvent -> EventType]
    BY <1>3, <1>4 DEF TimerInv, TypeInv
  <1>6. timerEvents'[event].where \in {"insert", "free"} /\ \A e \in TimerEvent : e # event => timerEvents'[e].where = timerEvents[e].where
    BY <1>3, <1>4 DEF TimerInv, TypeInv
  <1>7. TypeInv'
    BY <1>4, <1>5 DEF TimerInv, TypeInv
  <1>8. ListInv'
    BY <1>1, <1>3, <1>4, OutsideStep DEF TimerInv
  <1>9. TickInv'
    BY <1>1, <1>4, <1>6, KeepsTick DEF TimerInv
  <1>10. AddInv'
    BY <1>1, <1>4, <1>6, KeepsAdd DEF TimerInv, Adding
  <1>11. HandleInv'
    <2>1. \A c \in TimerClient : timerHandle'[c] # noEvent => timerHandle'[c] = timerHandle[c] /\ timerEvents'[timerHandle[c]].where = "list"
      BY <1>1, <1>4, <1>6, HandlesListed DEF TimerInv
    <2> QED
      BY <1>4, <2>1, KeepsHandle DEF TimerInv, HandleInv
  <1>12. StopInv'
    BY <1>4 DEF TimerInv, StopInv
  <1> QED
    BY <1>7, <1>8, <1>9, <1>10, <1>11, <1>12 DEF TimerInv

\* An event thread puts its event back into the list.
LEMMA EventThreadInsertsStep ==
  ASSUME TimerInv, ~TimerUndefined, NEW event \in TimerEvent, EventThreadInserts(event)
  PROVE  TimerInv'
  <1>1. timerEvents[event].where = "insert"
    BY DEF EventThreadInserts
  <1>2. timerDevice # "stopped"
    <2>1. Inserting # {}
      BY <1>1 DEF Inserting
    <2> QED
      BY <2>1 DEF TimerUndefined
  <1>3. PICK s \in Seq(TimerEvent) : ListIs(TheList, s)
    BY <1>2 DEF TimerInv, ListInv
  <1>4. PICK l, m : l = TheList /\ m = insertAnEvent(TheList, event)
    OBVIOUS
  <1>5. l.first = firstTE /\ l.ev = timerEvents
    BY <1>4 DEF TheList
  <1>6. ListIs(l, s) /\ l.ev \in [TimerEvent -> EventType] /\ l.ev[event].where # "list" /\ m = insertAnEvent(l, event)
    BY <1>1, <1>3, <1>4, <1>5 DEF TimerInv, TypeInv
  <1>7. InsertedAs(l, m, event)
    BY <1>6, InsertIs
  <1>8. ListBecomes(m) /\ UNCHANGED <<listLock, tickPc, clientPc, clientEvent, timerHandle, timerDevice>>
    BY <1>4 DEF EventThreadInserts
  <1>9. /\ firstTE' \in Pointer /\ timerEvents' \in [TimerEvent -> EventType]
        /\ \A e \in TimerEvent : timerEvents'[e].where = IF e = event THEN "list" ELSE timerEvents[e].where
    BY <1>5, <1>7, <1>8 DEF InsertedAs, ListBecomes
  <1>10. TypeInv'
    BY <1>8, <1>9 DEF TimerInv, TypeInv
  <1>11. ListInv'
    BY <1>7, <1>8, BecomesList DEF InsertedAs
  <1>12. TickInv'
    BY <1>1, <1>8, <1>9, KeepsTick DEF TimerInv
  <1>13. AddInv'
    BY <1>1, <1>8, <1>9, KeepsAdd DEF TimerInv, Adding
  <1>14. HandleInv'
    <2>1. \A c \in TimerClient : timerHandle'[c] # noEvent => timerHandle'[c] = timerHandle[c] /\ timerEvents'[timerHandle[c]].where = "list"
      BY <1>1, <1>8, <1>9, HandlesListed DEF TimerInv
    <2> QED
      BY <1>8, <2>1, KeepsHandle DEF TimerInv, HandleInv
  <1>15. StopInv'
    BY <1>8 DEF TimerInv, StopInv
  <1> QED
    BY <1>10, <1>11, <1>12, <1>13, <1>14, <1>15 DEF TimerInv

-----------------------------------------------------------------------------
(* The clients *)

\* A client makes an event.
LEMMA MakeStep ==
  ASSUME TimerInv, NEW c \in TimerClient, NEW at \in Int, NEW lo \in Nat, NEW hi \in Nat, NEW newThread \in BOOLEAN,
         NEW sleeper \in BOOLEAN, Make(c, at, lo, hi, newThread, sleeper)
  PROVE  TimerInv'
  <1>1. PICK v : v = [Blank EXCEPT !.where = "new", !.atTimeMillis = at, !.lo = lo, !.hi = hi, !.newThread = newThread,
                                   !.sleeper = IF sleeper THEN c ELSE noEvent]
    OBVIOUS
  <1>2. v \in EventType /\ v.where = "new"
    BY <1>1 DEF Blank, EventType, Places, Pointer
  <1>3. PICK e \in TimerEvent :
          /\ timerEvents[e].where = "free" /\ timerEvents' = [timerEvents EXCEPT ![e] = v]
          /\ clientEvent' = [clientEvent EXCEPT ![c] = e]
    BY <1>1 DEF Make
  <1>4. /\ clientPc[c] = "out" /\ timerDevice = "running" /\ clientPc' = [clientPc EXCEPT ![c] = "addLock"]
        /\ UNCHANGED <<firstTE, listLock, tickPc, timerHandle, timerDevice>>
    BY DEF Make
  <1>5. /\ timerEvents' \in [TimerEvent -> EventType] /\ timerEvents'[e].where = "new"
        /\ \A f \in TimerEvent : f # e => timerEvents'[f].where = timerEvents[f].where
    BY <1>2, <1>3 DEF TimerInv, TypeInv
  <1>6. /\ clientPc' \in [TimerClient -> ClientPlaces] /\ clientEvent' \in [TimerClient -> Pointer]
        /\ clientPc'[c] = "addLock" /\ clientEvent'[c] = e
        /\ \A d \in TimerClient : d # c => clientPc'[d] = clientPc[d] /\ clientEvent'[d] = clientEvent[d]
    BY <1>3, <1>4 DEF TimerInv, TypeInv, ClientPlaces, Pointer
  <1>7. TypeInv'
    BY <1>4, <1>5, <1>6 DEF TimerInv, TypeInv
  <1>8. ListInv'
    BY <1>2, <1>3, <1>4, OutsideStep DEF TimerInv
  <1>9. TickInv'
    BY <1>3, <1>4, <1>5, KeepsTick DEF TimerInv
  <1>10. AddInv'
    <2>1. \A d \in TimerClient : d # c => (Adding(d)' <=> Adding(d))
      BY <1>6 DEF Adding
    <2>2. \A d \in TimerClient : Adding(d) => clientEvent[d] \in TimerEvent /\ clientEvent[d] # e /\ timerEvents'[clientEvent[d]].where = "new"
      BY <1>3, <1>5 DEF TimerInv, AddInv
    <2>3. ASSUME NEW d \in TimerClient, Adding(d)'
          PROVE  /\ clientEvent'[d] \in TimerEvent /\ timerEvents'[clientEvent'[d]].where = "new"
                 /\ \A g \in TimerClient : Adding(g)' /\ clientEvent'[g] = clientEvent'[d] => g = d
      <3>1. CASE d = c
        BY <1>5, <1>6, <2>1, <2>2, <3>1
      <3>2. CASE d # c
        BY <1>6, <2>1, <2>2, <2>3, <3>2 DEF TimerInv, AddInv
      <3> QED
        BY <3>1, <3>2
    <2> QED
      BY <2>3 DEF AddInv
  <1>11. HandleInv'
    <2>1. \A d \in TimerClient : timerHandle'[d] # noEvent => timerHandle'[d] = timerHandle[d] /\ timerEvents'[timerHandle[d]].where = "list"
      BY <1>3, <1>4, <1>5, HandlesListed DEF TimerInv
    <2>2. \A d \in TimerClient : clientPc'[d] \in {"cancelLock", "unlink"} => timerHandle'[d] \in {noEvent, clientEvent'[d]}
      BY <1>4, <1>6 DEF TimerInv, HandleInv
    <2> QED
      BY <2>1, <2>2, KeepsHandle DEF TimerInv
  <1>12. StopInv'
    BY <1>4 DEF TimerInv, StopInv
  <1> QED
    BY <1>7, <1>8, <1>9, <1>10, <1>11, <1>12 DEF TimerInv

\* The intervals are at least the resolution.
LEMMA ResolutionIs == \A i \in Nat : AtLeastResolution(i) \in Nat
  BY TimerAssumption DEF AtLeastResolution

\* The functions that add an event make it.
LEMMA AddStep ==
  ASSUME TimerInv, NEW c \in TimerClient, TimerAdd(c)
  PROVE  TimerInv'
  <1>1. PICK newThread \in BOOLEAN :
          \/ \E t \in TimerDelays : tem_addOneShotAbsolute(c, t, newThread)
          \/ \E i \in 0 .. TimerMaxInterval : tem_addRepetitive(c, i, newThread)
          \/ \E i, max \in 0 .. TimerMaxInterval : tem_addRandom(c, i, max, newThread)
    BY DEF TimerAdd, tem_addOneShotRelative
  <1>2. FALSE \in BOOLEAN /\ 0 \in Nat /\ \A i \in 0 .. TimerMaxInterval : i \in Nat
    BY TimerAssumption
  <1>3. ASSUME NEW t \in TimerDelays, tem_addOneShotAbsolute(c, t, newThread) PROVE TimerInv'
    <2>1. t \in Int
      BY TimerAssumption
    <2>2. Make(c, t, 0, 0, newThread, FALSE)
      BY <1>3 DEF tem_addOneShotAbsolute
    <2> QED
      BY <1>2, <2>1, <2>2, MakeStep
  <1>4. ASSUME NEW i \in 0 .. TimerMaxInterval, tem_addRepetitive(c, i, newThread) PROVE TimerInv'
    <2>1. PICK n \in Nat : n = AtLeastResolution(i)
      BY <1>2, ResolutionIs
    <2>2. Make(c, n, n, n, newThread, FALSE)
      BY <1>4, <2>1 DEF tem_addRepetitive
    <2>3. n \in Int
      OBVIOUS
    <2> QED
      BY <1>2, <2>2, <2>3, MakeStep
  <1>5. ASSUME NEW i \in 0 .. TimerMaxInterval, NEW max \in 0 .. TimerMaxInterval, tem_addRandom(c, i, max, newThread) PROVE TimerInv'
    <2>1. PICK lo, hi \in Nat : lo = AtLeastResolution(i) /\ hi = AtLeastResolution(max)
      BY <1>2, ResolutionIs
    <2>2. PICK n \in lo .. hi - 1 : Make(c, n, lo, hi, newThread, FALSE)
      BY <1>5, <2>1 DEF tem_addRandom
    <2>3. n \in Int
      BY <2>2
    <2> QED
      BY <1>2, <2>2, <2>3, MakeStep
  <1> QED
    BY <1>1, <1>3, <1>4, <1>5

\* So does tem_sleep.
LEMMA SleepStep ==
  ASSUME TimerInv, NEW c \in TimerClient, NEW ms \in TimerDelays, tem_sleep(c, ms)
  PROVE  TimerInv'
  <1>1. ms \in Int /\ FALSE \in BOOLEAN /\ TRUE \in BOOLEAN /\ 0 \in Nat
    BY TimerAssumption
  <1>2. Make(c, ms, 0, 0, FALSE, TRUE)
    BY DEF tem_sleep
  <1> QED
    BY <1>1, <1>2, MakeStep

\* A client's call that leaves the events alone.
LEMMA ClientMoves ==
  ASSUME TimerInv, NEW c \in TimerClient, tem_cancel(c) \/ ClientLock(c) \/ SleepReturns(c)
  PROVE  TimerInv'
  <1>1. UNCHANGED <<firstTE, timerEvents, tickPc, timerHandle, timerDevice>>
    BY DEF tem_cancel, ClientLock, SleepReturns
  <1>2. \A d \in TimerClient : d # c => clientPc'[d] = clientPc[d] /\ clientEvent'[d] = clientEvent[d]
    BY DEF TimerInv, TypeInv, tem_cancel, ClientLock, SleepReturns
  <1>3. /\ clientPc' \in [TimerClient -> ClientPlaces] /\ clientEvent' \in [TimerClient -> Pointer]
        /\ \/ clientPc'[c] = "cancelLock" /\ clientEvent'[c] = timerHandle[c] /\ timerDevice = "running"
           \/ clientPc[c] = "addLock" /\ clientPc'[c] = "link" /\ clientEvent'[c] = clientEvent[c]
           \/ clientPc[c] = "cancelLock" /\ clientPc'[c] = "unlink" /\ clientEvent'[c] = clientEvent[c]
           \/ clientPc'[c] = "out"
    <2>1. CASE tem_cancel(c)
      BY <2>1 DEF TimerInv, TypeInv, tem_cancel, ClientPlaces
    <2>2. CASE ClientLock(c)
      BY <2>2 DEF TimerInv, TypeInv, ClientLock, ClientPlaces
    <2>3. CASE SleepReturns(c)
      BY <2>3 DEF TimerInv, TypeInv, SleepReturns, ClientPlaces
    <2> QED
      BY <2>1, <2>2, <2>3
  <1>4. TypeInv'
    BY <1>1, <1>3 DEF TimerInv, TypeInv
  <1>5. ListInv'
    BY <1>1, SameEvents DEF TimerInv
  <1>6. TickInv'
    BY <1>1, KeepsTick DEF TimerInv
  <1>7. AddInv'
    <2>1. ASSUME NEW d \in TimerClient, Adding(d)' PROVE Adding(d) /\ clientEvent'[d] = clientEvent[d]
      <3>1. CASE d = c
        BY <1>3, <2>1, <3>1 DEF Adding
      <3>2. CASE d # c
        BY <1>2, <2>1, <3>2 DEF Adding
      <3> QED
        BY <3>1, <3>2
    <2> QED
      BY <1>1, <2>1, KeepsAdd DEF TimerInv
  <1>8. HandleInv'
    <2>1. \A d \in TimerClient : timerHandle'[d] # noEvent => timerHandle'[d] = timerHandle[d] /\ timerEvents'[timerHandle[d]].where = "list"
      BY <1>1, HandlesListed DEF TimerInv
    <2>2. ASSUME NEW d \in TimerClient, clientPc'[d] \in {"cancelLock", "unlink"} PROVE timerHandle'[d] \in {noEvent, clientEvent'[d]}
      <3>1. CASE d = c
        BY <1>1, <1>3, <2>2, <3>1 DEF TimerInv, HandleInv
      <3>2. CASE d # c
        BY <1>1, <1>2, <2>2, <3>2 DEF TimerInv, HandleInv
      <3> QED
        BY <3>1, <3>2
    <2> QED
      BY <2>1, <2>2, KeepsHandle DEF TimerInv
  <1>9. StopInv'
    BY <1>1, <1>2, <1>3 DEF TimerInv, StopInv, Outside
  <1> QED
    BY <1>4, <1>5, <1>6, <1>7, <1>8, <1>9 DEF TimerInv

\* A client inserts the event it has made.
LEMMA ClientInsertsStep ==
  ASSUME TimerInv, NEW c \in TimerClient, ClientInserts(c)
  PROVE  TimerInv'
  <1>1. PICK event : event = clientEvent[c]
    OBVIOUS
  <1>2. event \in TimerEvent /\ timerEvents[event].where = "new" /\ clientPc[c] = "link" /\ Adding(c)
    BY <1>1 DEF TimerInv, AddInv, Adding, ClientInserts
  <1>3. timerDevice = "running"
    BY <1>2 DEF TimerInv, StopInv, Outside
  <1>4. PICK s \in Seq(TimerEvent) : ListIs(TheList, s)
    BY <1>3 DEF TimerInv, ListInv
  <1>5. PICK l, m : l = TheList /\ m = insertAnEvent(TheList, event)
    OBVIOUS
  <1>6. l.first = firstTE /\ l.ev = timerEvents
    BY <1>5 DEF TheList
  <1>7. ListIs(l, s) /\ l.ev \in [TimerEvent -> EventType] /\ l.ev[event].where # "list" /\ m = insertAnEvent(l, event)
    BY <1>2, <1>4, <1>5, <1>6 DEF TimerInv, TypeInv
  <1>8. InsertedAs(l, m, event)
    BY <1>2, <1>7, InsertIs
  <1>9. ListBecomes(m) /\ UNCHANGED <<tickPc, timerDevice>>
    BY <1>1, <1>5 DEF ClientInserts
  <1>10. /\ firstTE' \in Pointer /\ timerEvents' \in [TimerEvent -> EventType]
         /\ \A e \in TimerEvent : timerEvents'[e].where = IF e = event THEN "list" ELSE timerEvents[e].where
    BY <1>6, <1>8, <1>9 DEF InsertedAs, ListBecomes
  <1>11. PICK p \in {"asleep", "out"}, h \in {event, timerHandle[c]} :
           clientPc' = [clientPc EXCEPT ![c] = p] /\ timerHandle' = [timerHandle EXCEPT ![c] = h]
    BY <1>1 DEF ClientInserts
  <1>12. clientEvent' = [clientEvent EXCEPT ![c] = noEvent]
    BY DEF ClientInserts
  <1>13. /\ clientPc' \in [TimerClient -> ClientPlaces] /\ clientEvent' \in [TimerClient -> Pointer] /\ timerHandle' \in [TimerClient -> Pointer]
         /\ clientPc'[c] \in {"asleep", "out"} /\ timerHandle'[c] = h
         /\ \A d \in TimerClient : d # c => clientPc'[d] = clientPc[d] /\ clientEvent'[d] = clientEvent[d] /\ timerHandle'[d] = timerHandle[d]
    BY <1>2, <1>11, <1>12 DEF TimerInv, TypeInv, ClientPlaces, Pointer
  <1>14. TypeInv'
    BY <1>9, <1>10, <1>13 DEF TimerInv, TypeInv
  <1>15. ListInv'
    BY <1>8, <1>9, BecomesList DEF InsertedAs
  <1>16. TickInv'
    BY <1>2, <1>9, <1>10, KeepsTick DEF TimerInv
  <1>17. AddInv'
    <2>1. \A d \in TimerClient : Adding(d)' => d # c /\ Adding(d) /\ clientEvent'[d] = clientEvent[d]
      BY <1>13 DEF Adding
    <2>2. \A d \in TimerClient : Adding(d)' => clientEvent'[d] \in TimerEvent /\ clientEvent'[d] # event
      BY <1>1, <1>2, <2>1 DEF TimerInv, AddInv
    <2> QED
      BY <1>10, <2>1, <2>2 DEF TimerInv, AddInv
  <1>18. HandleInv'
    <2>1. \A d \in TimerClient : timerHandle[d] # noEvent => timerHandle[d] \in TimerEvent /\ timerHandle[d] # event /\ timerEvents'[timerHandle[d]].where = "list"
      BY <1>2, <1>10, HandlesListed DEF TimerInv
    <2>2. timerEvents'[event].where = "list"
      BY <1>2, <1>10
    <2>3. \A d \in TimerClient : clientPc'[d] \in {"cancelLock", "unlink"} => timerHandle'[d] \in {noEvent, clientEvent'[d]}
      BY <1>13 DEF TimerInv, HandleInv
    <2>4. ASSUME NEW d \in TimerClient, timerHandle'[d] # noEvent PROVE timerEvents'[timerHandle'[d]].where = "list"
      BY <1>13, <2>1, <2>2, <2>4
    <2>5. ASSUME NEW d \in TimerClient, NEW g \in TimerClient, timerHandle'[d] # noEvent, timerHandle'[g] = timerHandle'[d] PROVE g = d
      <3>1. event # noEvent
        BY <1>2, NamesDiffer DEF TimerNames
      <3>2. \A x, y \in TimerClient : timerHandle[x] # noEvent /\ timerHandle[y] = timerHandle[x] => y = x
        BY DEF TimerInv, HandleInv
      <3>3. CASE d = c /\ g # c
        BY <1>13, <2>1, <2>5, <3>1, <3>2, <3>3
      <3>4. CASE d # c /\ g = c
        BY <1>13, <2>1, <2>5, <3>1, <3>2, <3>4
      <3>5. CASE d # c /\ g # c
        BY <1>13, <2>5, <3>2, <3>5
      <3> QED
        BY <3>3, <3>4, <3>5
    <2> QED
      BY <2>3, <2>4, <2>5 DEF HandleInv
  <1>19. StopInv'
    BY <1>3, <1>9 DEF StopInv
  <1> QED
    BY <1>14, <1>15, <1>16, <1>17, <1>18, <1>19 DEF TimerInv

\* A client takes the event it cancels out of the list.
LEMMA ClientUnlinksStep ==
  ASSUME TimerInv, ~TimerUndefined, NEW c \in TimerClient, ClientUnlinks(c)
  PROVE  TimerInv'
  <1>1. PICK event : event = clientEvent[c]
    OBVIOUS
  <1>2. clientPc[c] = "unlink" /\ timerHandle[c] # noEvent
    BY DEF ClientUnlinks, TimerUndefined
  <1>3. event \in TimerEvent /\ timerHandle[c] = event /\ timerEvents[event].where = "list"
    BY <1>1, <1>2, HandlesListed DEF TimerInv, HandleInv
  <1>4. timerDevice = "running"
    BY <1>2 DEF TimerInv, StopInv, Outside
  <1>5. PICK s \in Seq(TimerEvent) : ListIs(TheList, s)
    BY <1>4 DEF TimerInv, ListInv
  <1>6. PICK l, m : l = TheList /\ m = Unlinked(TheList, event)
    OBVIOUS
  <1>7. l.first = firstTE /\ l.ev = timerEvents
    BY <1>6 DEF TheList
  <1>8. ListIs(l, s) /\ l.ev \in [TimerEvent -> EventType] /\ l.ev[event].where = "list" /\ m = Unlinked(l, event)
    BY <1>3, <1>5, <1>6, <1>7 DEF TimerInv, TypeInv
  <1>9. RemovedAs(l, m, event) /\ m.ev[event].where = "free"
    BY <1>3, <1>8, UnlinkedIs
  <1>10. ListBecomes(m) /\ UNCHANGED <<tickPc, timerDevice>>
    BY <1>1, <1>6 DEF ClientUnlinks
  <1>11. /\ firstTE' \in Pointer /\ timerEvents' \in [TimerEvent -> EventType] /\ timerEvents'[event].where = "free"
         /\ \A e \in TimerEvent : e # event => timerEvents'[e].where = timerEvents[e].where
    BY <1>7, <1>9, <1>10 DEF RemovedAs, ListBecomes
  <1>12. /\ clientPc' = [clientPc EXCEPT ![c] = "out"] /\ timerHandle' = [timerHandle EXCEPT ![c] = noEvent]
         /\ clientEvent' = [clientEvent EXCEPT ![c] = noEvent]
    BY DEF ClientUnlinks
  <1>13. /\ clientPc' \in [TimerClient -> ClientPlaces] /\ clientEvent' \in [TimerClient -> Pointer] /\ timerHandle' \in [TimerClient -> Pointer]
         /\ clientPc'[c] = "out" /\ timerHandle'[c] = noEvent
         /\ \A d \in TimerClient : d # c => clientPc'[d] = clientPc[d] /\ clientEvent'[d] = clientEvent[d] /\ timerHandle'[d] = timerHandle[d]
    BY <1>12 DEF TimerInv, TypeInv, ClientPlaces, Pointer
  <1>14. TypeInv'
    BY <1>10, <1>11, <1>13 DEF TimerInv, TypeInv
  <1>15. ListInv'
    BY <1>9, <1>10, BecomesList DEF RemovedAs
  <1>16. TickInv'
    BY <1>3, <1>10, <1>11, KeepsTick DEF TimerInv
  <1>17. AddInv'
    <2>1. \A d \in TimerClient : Adding(d)' => Adding(d) /\ clientEvent'[d] = clientEvent[d]
      BY <1>13 DEF Adding
    <2> QED
      BY <1>3, <1>11, <2>1, KeepsAdd DEF TimerInv
  <1>18. HandleInv'
    <2>1. ASSUME NEW d \in TimerClient, timerHandle'[d] # noEvent PROVE timerHandle'[d] = timerHandle[d] /\ timerEvents'[timerHandle[d]].where = "list"
      <3>1. d # c /\ timerHandle'[d] = timerHandle[d] /\ timerHandle[d] # noEvent
        BY <1>13, <2>1
      <3>2. timerHandle[d] # event
        BY <1>2, <1>3, <3>1 DEF TimerInv, HandleInv
      <3> QED
        BY <1>11, <3>1, <3>2, HandlesListed DEF TimerInv
    <2>2. \A d \in TimerClient : clientPc'[d] \in {"cancelLock", "unlink"} => timerHandle'[d] \in {noEvent, clientEvent'[d]}
      BY <1>13 DEF TimerInv, HandleInv
    <2> QED
      BY <2>1, <2>2, KeepsHandle DEF TimerInv
  <1>19. StopInv'
    BY <1>4, <1>10 DEF StopInv
  <1> QED
    BY <1>14, <1>15, <1>16, <1>17, <1>18, <1>19 DEF TimerInv

-----------------------------------------------------------------------------
(* The shutdown *)

\* The device is stopped.
LEMMA TimerShutdownStep ==
  ASSUME TimerInv, tem_shutdown
  PROVE  TimerInv'
  <1>1. /\ UNCHANGED <<firstTE, timerEvents, tickPc, clientPc, clientEvent, timerHandle>>
        /\ timerDevice = "running" /\ timerDevice' = "stopping" /\ \A c \in TimerClient : clientPc[c] \in Outside
    BY DEF tem_shutdown, Outside
  <1>2. TypeInv' /\ TickInv' /\ AddInv' /\ HandleInv' /\ StopInv'
    <2>1. TypeInv'
      BY <1>1 DEF TimerInv, TypeInv
    <2>2. TickInv'
      BY <1>1, KeepsTick DEF TimerInv
    <2>3. AddInv'
      BY <1>1, KeepsAdd DEF TimerInv, Adding
    <2>4. HandleInv'
      BY <1>1 DEF TimerInv, HandleInv
    <2>5. StopInv'
      BY <1>1 DEF StopInv
    <2> QED
      BY <2>1, <2>2, <2>3, <2>4, <2>5
  <1>3. ListInv'
    BY <1>1, SameEvents DEF TimerInv
  <1> QED
    BY <1>2, <1>3 DEF TimerInv

\* The events of the list are freed.
LEMMA FreesStep ==
  ASSUME TimerInv, ShutdownFrees
  PROVE  TimerInv'
  <1>1. /\ UNCHANGED <<firstTE, tickPc, clientPc, clientEvent>> /\ timerDevice = "stopping" /\ timerDevice' = "stopped" /\ tickPc = "idle"
        /\ \A e \in TimerEvent : timerEvents'[e] = IF timerEvents[e].where = "list" THEN Blank ELSE timerEvents[e]
        /\ timerHandle' = [c \in TimerClient |-> noEvent]
    BY DEF ShutdownFrees
  <1>2. TypeInv'
    <2>1. timerEvents' \in [TimerEvent -> EventType]
      BY BlankIs DEF TimerInv, TypeInv, ShutdownFrees
    <2>2. timerHandle' \in [TimerClient -> Pointer]
      BY <1>1 DEF Pointer
    <2> QED
      BY <1>1, <2>1, <2>2 DEF TimerInv, TypeInv
  <1>3. ListInv'
    BY <1>1 DEF ListInv
  <1>4. TickInv'
    BY <1>1, BlankIs, KeepsTick DEF TimerInv
  <1>5. AddInv'
    BY <1>1, KeepsAdd DEF TimerInv, Adding
  <1>6. HandleInv'
    BY <1>1 DEF HandleInv
  <1>7. StopInv'
    BY <1>1 DEF TimerInv, StopInv
  <1> QED
    BY <1>2, <1>3, <1>4, <1>5, <1>6, <1>7 DEF TimerInv

-----------------------------------------------------------------------------
(* The theorems *)

\* The empty list is well formed.
LEMMA TimerInitInv ==
  ASSUME tem_startup
  PROVE  TimerInv
  <1>1. TypeInv
    BY BlankIs DEF TypeInv, tem_startup, Pointer, ClientPlaces
  <1>2. \A e \in TimerEvent : timerEvents[e].where = "free"
    BY BlankIs DEF tem_startup
  <1>3. ListInv
    <2>1. PICK s \in Seq(TimerEvent) : s = << >>
      BY EmptySeq
    <2>2. Len(s) = 0 /\ \A i \in 1..Len(s) : FALSE
      BY <2>1
    <2>3. Chain(TheList, s)
      BY <2>1, <2>2 DEF Chain, TheList, tem_startup
    <2>4. Sorted(TheList.ev, s)
      BY <2>2 DEF Sorted
    <2>5. Exact(TheList.ev, s)
      BY <1>2, <2>2 DEF Exact, In, TheList
    <2> QED
      BY <2>3, <2>4, <2>5 DEF ListInv, ListIs
  <1>4. TickInv /\ AddInv /\ HandleInv /\ StopInv
    BY <1>2 DEF TickInv, AddInv, Adding, HandleInv, StopInv, tem_startup
  <1> QED
    BY <1>1, <1>3, <1>4 DEF TimerInv

\* Every step keeps the invariant.
LEMMA TimerNextInv ==
  ASSUME TimerInv, [TimerNext]_timerVars
  PROVE  TimerInv'
  <1>1. CASE TimerNext
    <2>0. ~TimerUndefined
      BY <1>1 DEF TimerNext
    <2>1. CASE timerCallbackFunction
      BY <2>1, CallbackStep
    <2>2. CASE TickLock \/ TickUnlock
      BY <2>2, TickLockStep
    <2>3. CASE TickTake
      BY <2>3, TickTakeStep
    <2>4. CASE TimerHandlers
      BY <2>4, DoOneEventStep DEF TimerHandlers
    <2>5. ASSUME NEW e \in TimerEvent, NEW time \in HandlerResults(e), eventThreadFunc(e, time) PROVE TimerInv'
      BY <2>5, EventThreadStep
    <2>6. ASSUME NEW e \in TimerEvent, EventThreadInserts(e) PROVE TimerInv'
      BY <2>0, <2>6, EventThreadInsertsStep
    <2>7. ASSUME NEW c \in TimerClient, TimerAdd(c) PROVE TimerInv'
      BY <2>7, AddStep
    <2>8. ASSUME NEW c \in TimerClient, NEW ms \in TimerDelays, tem_sleep(c, ms) PROVE TimerInv'
      BY <2>8, SleepStep
    <2>9. ASSUME NEW c \in TimerClient, tem_cancel(c) \/ ClientLock(c) \/ SleepReturns(c) PROVE TimerInv'
      BY <2>9, ClientMoves
    <2>10. ASSUME NEW c \in TimerClient, ClientInserts(c) PROVE TimerInv'
      BY <2>10, ClientInsertsStep
    <2>11. ASSUME NEW c \in TimerClient, ClientUnlinks(c) PROVE TimerInv'
      BY <2>0, <2>11, ClientUnlinksStep
    <2>12. CASE tem_shutdown
      BY <2>12, TimerShutdownStep
    <2>13. CASE ShutdownFrees
      BY <2>13, FreesStep
    <2>14. TimerSleepers \subseteq TimerClient
      BY TimerAssumption
    <2> QED
      BY <1>1, <2>1, <2>2, <2>3, <2>4, <2>5, <2>6, <2>7, <2>8, <2>9, <2>10, <2>11, <2>12, <2>13, <2>14 DEF TimerNext
  <1>2. CASE UNCHANGED timerVars
    <2>1. UNCHANGED <<firstTE, timerEvents, tickPc, clientPc, clientEvent, timerHandle, timerDevice>>
      BY <1>2 DEF timerVars
    <2>2. TypeInv' /\ HandleInv' /\ StopInv'
      BY <2>1 DEF TimerInv, TypeInv, HandleInv, StopInv
    <2>3. ListInv'
      BY <2>1, SameEvents DEF TimerInv
    <2>4. TickInv'
      BY <2>1, KeepsTick DEF TimerInv
    <2>5. AddInv'
      BY <2>1, KeepsAdd DEF TimerInv, Adding
    <2> QED
      BY <2>2, <2>3, <2>4, <2>5 DEF TimerInv
  <1> QED
    BY <1>1, <1>2

\* The invariant of timer.c: while the manager runs its pointers are those of one list in the order of times,
\* and every event outside the list belongs to the tick, to a thread of its own or to the client that makes it.
THEOREM TimerInvariance == TimerSpec => []TimerInv
  <1>1. tem_startup => TimerInv
    BY TimerInitInv
  <1>2. TimerInv /\ [TimerNext]_timerVars => TimerInv'
    BY TimerNextInv
  <1> QED
    BY <1>1, <1>2, PTL DEF TimerSpec

\* The invariant says what the run checks.
LEMMA InvIsSound ==
  ASSUME TimerInv
  PROVE  TimerListSound
  <1>1. SUFFICES ASSUME timerDevice # "stopped"
                 PROVE  /\ Listed = {} <=> firstTE = noEvent
                        /\ firstTE # noEvent => firstTE \in Listed /\ timerEvents[firstTE].prevTE = noEvent
                        /\ \A e \in Listed :
                             LET next == timerEvents[e].nextTE
                                 prev == timerEvents[e].prevTE
                             IN /\ next # noEvent =>
                                     /\ next \in Listed /\ timerEvents[next].prevTE = e
                                     /\ timerEvents[e].atTimeMillis <= timerEvents[next].atTimeMillis
                                /\ prev = noEvent <=> e = firstTE
                                /\ prev # noEvent => prev \in Listed /\ timerEvents[prev].nextTE = e
                        /\ Cardinality({e \in TimerEvent : timerEvents[e].where = "tick"}) = IF tickPc = "handler" THEN 1 ELSE 0
                        /\ \A c \in TimerClient : timerHandle[c] # noEvent => timerHandle[c] \in Listed
    BY DEF TimerListSound
  <1>2. PICK s \in Seq(TimerEvent) : ListIs(TheList, s)
    BY <1>1 DEF TimerInv, ListInv
  <1>3. /\ \A i, j \in 1..Len(s) : s[i] = s[j] => i = j
        /\ firstTE = IF s = << >> THEN noEvent ELSE s[1]
        /\ \A i \in 1..Len(s) : timerEvents[s[i]].nextTE = IF i = Len(s) THEN noEvent ELSE s[i + 1]
        /\ \A i \in 1..Len(s) : timerEvents[s[i]].prevTE = IF i = 1 THEN noEvent ELSE s[i - 1]
        /\ \A i, j \in 1..Len(s) : i <= j => timerEvents[s[i]].atTimeMillis <= timerEvents[s[j]].atTimeMillis
    BY <1>2 DEF ListIs, Chain, Sorted, TheList
  <1>4. \A e : e \in Listed <=> \E i \in 1..Len(s) : s[i] = e
    BY <1>2 DEF ListIs, Exact, In, TheList, Listed
  <1>5. Len(s) \in Nat /\ (s = << >> <=> Len(s) = 0) /\ \A i \in 1..Len(s) : s[i] \in TimerEvent /\ s[i] # noEvent
    BY NamesDiffer DEF TimerNames
  <1>6. Len(s) # 0 => 1 \in 1..Len(s)
    BY <1>5
  <1>7. Listed = {} <=> firstTE = noEvent
    <2>1. CASE Len(s) = 0
      BY <1>3, <1>4, <1>5, <2>1
    <2>2. CASE Len(s) # 0
      <3>1. firstTE = s[1] /\ s[1] # noEvent
        BY <1>3, <1>5, <1>6, <2>2
      <3>2. s[1] \in Listed
        BY <1>4, <1>6, <2>2
      <3> QED
        BY <3>1, <3>2
    <2> QED
      BY <2>1, <2>2
  <1>8. firstTE # noEvent => firstTE \in Listed /\ timerEvents[firstTE].prevTE = noEvent
    BY <1>3, <1>4, <1>5, <1>6
  <1>9. ASSUME NEW e \in Listed, NEW next, NEW prev, next = timerEvents[e].nextTE, prev = timerEvents[e].prevTE
        PROVE  /\ next # noEvent =>
                    /\ next \in Listed /\ timerEvents[next].prevTE = e
                    /\ timerEvents[e].atTimeMillis <= timerEvents[next].atTimeMillis
               /\ prev = noEvent <=> e = firstTE
               /\ prev # noEvent => prev \in Listed /\ timerEvents[prev].nextTE = e
    <2>1. PICK i \in 1..Len(s) : s[i] = e
      BY <1>4
    <2>2. next = (IF i = Len(s) THEN noEvent ELSE s[i + 1]) /\ prev = (IF i = 1 THEN noEvent ELSE s[i - 1])
      BY <1>3, <1>9, <2>1
    <2>3. ASSUME next # noEvent
          PROVE  next \in Listed /\ timerEvents[next].prevTE = e /\ timerEvents[e].atTimeMillis <= timerEvents[next].atTimeMillis
      <3>1. PICK j \in 1..Len(s) : j = i + 1 /\ i <= j /\ j # 1 /\ j - 1 = i /\ next = s[j]
        BY <1>5, <2>2, <2>3
      <3> QED
        BY <1>3, <1>4, <2>1, <3>1
    <2>4. ASSUME i # 1 PROVE prev \in Listed /\ prev # noEvent /\ timerEvents[prev].nextTE = e
      <3>1. PICK j \in 1..Len(s) : j = i - 1 /\ j # Len(s) /\ j + 1 = i
        BY <1>5, <2>4
      <3>2. prev = s[j]
        BY <2>2, <2>4, <3>1
      <3> QED
        BY <1>3, <1>4, <1>5, <2>1, <3>1, <3>2
    <2>5. e = firstTE <=> i = 1
      BY <1>3, <1>5, <1>6, <2>1
    <2> QED
      BY <2>2, <2>3, <2>4, <2>5
  <1>10. Cardinality({e \in TimerEvent : timerEvents[e].where = "tick"}) = IF tickPc = "handler" THEN 1 ELSE 0
    <2>1. CASE tickPc = "handler"
      <3>1. PICK e \in TimerEvent : \A f \in TimerEvent : timerEvents[f].where = "tick" <=> f = e
        BY <2>1 DEF TimerInv, TickInv
      <3>2. {f \in TimerEvent : timerEvents[f].where = "tick"} = {e}
        BY <3>1
      <3>3. Cardinality({e}) = 1
        BY FS_Singleton
      <3> QED
        BY <2>1, <3>2, <3>3
    <2>2. CASE tickPc # "handler"
      <3>1. {f \in TimerEvent : timerEvents[f].where = "tick"} = {}
        BY <2>2 DEF TimerInv, TickInv
      <3>2. Cardinality({}) = 0
        BY FS_EmptySet
      <3> QED
        BY <2>2, <3>1, <3>2
    <2> QED
      BY <2>1, <2>2
  <1>11. \A c \in TimerClient : timerHandle[c] # noEvent => timerHandle[c] \in Listed
    BY HandlesListed DEF TimerInv, Listed
  <1> QED
    BY <1>7, <1>8, <1>9, <1>10, <1>11

\* For any number of events, clients and times: none of the events that wait is lost from the list of timer.c,
\* none that runs or was freed is reached through it, the order of times is kept by insertAnEvent whatever
\* handlers and clients ask for, at most one handler runs in the tick, and tem_cancel unlinks what is linked.
THEOREM ListSound == TimerSpec => []TimerListSound
  <1>1. TimerInv => TimerListSound
    BY InvIsSound
  <1> QED
    BY <1>1, TimerInvariance, PTL
=============================================================================
