-------------------------- MODULE ThreadPoolProofs --------------------------
(***************************************************************************)
(* Proofs about ThreadPool, for any number of threads and callers.         *)
(*                                                                         *)
(* Each of the two linked lists is the sequence of its threads.  Inv says  *)
(* where every thread is; it holds with spurious wakeups and whenever the  *)
(* pool is destroyed.  TaskInv says what a thread and the caller it works  *)
(* for know of each other; it needs waits that end by a signal only and a  *)
(* pool that is not destroyed while it is used.                            *)
(***************************************************************************)
EXTENDS ThreadPool, SequenceTheorems, FiniteSetTheorems, NaturalsInduction, TLAPS

-----------------------------------------------------------------------------
(* The inductive invariant *)

WorkerPlace == {"unborn", "loop", "sleep", "awake", "call", "run", "finish", "joinSleep", "cleanup", "relist",
                "test", "exit"}
CallerPlace == {"idle", "assign", "ran", "joinSleep", "refused", "joined", "failed"}
OwnerPlace == {"create", "up", "available", "join", "unlocked", "done"}

PlaceInv ==
  /\ wpc \in [Worker -> WorkerPlace] /\ cpc \in [Caller -> CallerPlace] /\ opc \in OwnerPlace
  /\ isShuttingDown <=> opc \notin {"create", "up"}
  /\ handle \in [Caller -> Worker \cup {NULL}]

\* What the owner has done: a freed thread has left its main loop, and both happen
\* only when the pool is shut down.
OwnerInv ==
  /\ \A w \in freed : wpc[w] = "exit"
  /\ ~isShuttingDown => freed = {} /\ \A w \in Worker : wpc[w] # "exit"

\* The join state of a thread is a finished one only while it waits for the join.
StateInv == \A w \in Worker : state[w] \notin {"RUNNING_UNJOINED", "RUNNING_JOINED"} => wpc[w] = "joinSleep"

\* A thread has work between threadPool_runThread and its return to the available list.
Working(w) == threadFunc[w] # NULL \/ wpc[w] \in {"run", "finish", "joinSleep", "cleanup", "relist"}

\* threadPool_runThread has handed the thread out and has yet to give it a function.
Assigned(c, w) == cpc[c] = "assign" /\ handle[c] = w

In(w, s) == \E i \in 1..Len(s) : s[i] = w

\* The list that starts at first and is linked by nx consists of the threads of s.
ChainIs(nx, first, s) ==
  /\ s \in Seq(Worker)
  /\ \A i, j \in 1..Len(s) : s[i] = s[j] => i = j
  /\ first = IF s = << >> THEN NULL ELSE s[1]
  /\ \A i \in 1..Len(s) : nx[s[i]] = IF i = Len(s) THEN NULL ELSE s[i + 1]

\* The same list, backwards.
BackIs(pv, s) == \A i \in 1..Len(s) : pv[s[i]] = IF i = 1 THEN NULL ELSE s[i - 1]

\* Every thread is in the list a of available threads, in the list u of threads in
\* use, or freed.
ListInv(a, u) ==
  /\ ChainIs(next, firstAvailableThread, a) /\ ChainIs(next, firstThreadInUse, u)
  /\ \A w \in Worker : ~(In(w, a) /\ In(w, u))
  /\ \A w \in Worker : wpc[w] = "unborn" <=> ~In(w, a) /\ ~In(w, u) /\ w \notin freed
  /\ opc = "join" => a # << >>
  /\ opc \in {"unlocked", "done"} => a = << >> /\ u = << >>

\* Until the pool is shut down the lists are linked both ways, and a thread that works
\* or will work for a caller is in the second one.
UseInv(a, u) ==
  ~isShuttingDown =>
    /\ BackIs(prev, a) /\ BackIs(prev, u)
    /\ \A w \in Worker : wpc[w] = "unborn" => prev[w] = NULL
    /\ \A w \in Worker : Working(w) => In(w, u)
    /\ \A w \in Worker : wpc[w] = "relist" => threadFunc[w] = NULL
    /\ \A c \in Caller, w \in Worker :
         Assigned(c, w) => /\ In(w, u) /\ ~Working(w)
                           /\ \A d \in Caller : Assigned(d, w) => d = c

Base == TypeOK /\ PlaceInv /\ OwnerInv /\ StateInv

Inv == Base /\ \E a, u \in Seq(Worker) : ListInv(a, u) /\ UseInv(a, u)

-----------------------------------------------------------------------------
(* The lists as sequences *)

\* A set of numbers has a least one.
LEMMA LeastNumber ==
  ASSUME NEW T \in SUBSET Nat, T # {}
  PROVE  \E k \in T : \A j \in T : ~(j < k)
  <1>1. \A x, y \in T : y < x => <<y, x>> \in OpToRel(<, Nat)
    BY Zenon DEF OpToRel
  <1> QED
    BY <1>1, NatLessThanWellFounded, WFMin, Zenon

MaxLength == Cardinality(Worker)

\* Different threads are no more than there are.
LEMMA LengthBound ==
  ASSUME NEW first, NEW s, ChainIs(next, first, s)
  PROVE  Len(s) \in 0..MaxLength /\ MaxLength \in Nat
  <1>1. s \in Seq(Worker) /\ Len(s) \in Nat
    BY DEF ChainIs
  <1>2. s \in [1..Len(s) -> Worker]
    BY <1>1
  <1>3. s \in Injection(1..Len(s), Worker)
    BY <1>2 DEF ChainIs, Injection, IsInjective
  <1>4. Cardinality(1..Len(s)) <= Cardinality(Worker)
    BY <1>3, FS_Injection, ThreadPoolAssumption
  <1>5. Cardinality(1..Len(s)) = Len(s)
    BY <1>1, FS_Interval, SMTT(30)
  <1>6. Cardinality(Worker) \in Nat
    BY FS_CardinalityType, ThreadPoolAssumption
  <1> QED
    BY <1>1, <1>4, <1>5, <1>6 DEF MaxLength

\* What the recursive definition in ThreadAt says of a function.
Follows(f, first, n) ==
  f = [k \in 1..n |-> IF k = 1 THEN first ELSE IF f[k - 1] = NULL THEN NULL ELSE next[f[k - 1]]]

\* ThreadAt is the value of such a function, if there is one.
LEMMA ThreadAtFollows ==
  ASSUME NEW first, NEW n, NEW g, Follows(g, first, n)
  PROVE  \E f : Follows(f, first, n) /\ ThreadAt(first, n) = f[n]
  BY DEF ThreadAt, Follows

\* The n-th thread of the list is the n-th element of the sequence, or NULL past its end.
LEMMA ThreadAtIs ==
  ASSUME NEW first, NEW s, ChainIs(next, first, s), NEW n \in 1..(MaxLength + 1)
  PROVE  ThreadAt(first, n) = IF n <= Len(s) THEN s[n] ELSE NULL
  <1> DEFINE f == [k \in 1..n |-> IF k <= Len(s) THEN s[k] ELSE NULL]
  <1>1. Len(s) \in 0..MaxLength /\ MaxLength \in Nat /\ s \in Seq(Worker)
    BY LengthBound DEF ChainIs
  <1>2. NULL \notin Worker /\ \A i \in 1..Len(s) : s[i] \in Worker
    BY <1>1, ThreadPoolAssumption
  <1>3. ASSUME NEW k \in 1..n
        PROVE  f[k] = IF k = 1 THEN first ELSE IF f[k - 1] = NULL THEN NULL ELSE next[f[k - 1]]
    <2>1. CASE k = 1
      BY <1>1, <2>1 DEF ChainIs
    <2>2. CASE k # 1
      <3>1. k - 1 \in 1..n
        BY <1>1, <2>2
      <3>2. CASE k - 1 <= Len(s)
        <4>1. f[k - 1] = s[k - 1] /\ s[k - 1] # NULL /\ k - 1 \in 1..Len(s)
          BY <1>1, <1>2, <3>1, <3>2
        <4>2. next[s[k - 1]] = IF k - 1 = Len(s) THEN NULL ELSE s[k]
          BY <1>1, <4>1 DEF ChainIs
        <4>3. f[k] = IF k - 1 = Len(s) THEN NULL ELSE s[k]
          BY <1>1, <3>2
        <4> QED
          BY <2>2, <4>1, <4>2, <4>3
      <3>3. CASE ~(k - 1 <= Len(s))
        BY <1>1, <2>2, <3>1, <3>3
      <3> QED
        BY <3>2, <3>3
    <2> QED
      BY <2>1, <2>2
  <1>4. Follows(f, first, n)
    BY <1>3 DEF Follows
  <1>5. PICK g : Follows(g, first, n) /\ ThreadAt(first, n) = g[n]
    <2> HIDE DEF f
    <2> QED
      BY <1>4, ThreadAtFollows
  <1> HIDE DEF f
  <1>6. \A k \in 1..n : g[k] = f[k]
    <2> DEFINE T == {k \in 1..n : g[k] # f[k]}
    <2> SUFFICES ASSUME T # {}
                 PROVE  FALSE
      OBVIOUS
    <2>1. T \subseteq Nat
      BY <1>1
    <2>2. \E k \in T : \A j \in T : ~(j < k)
      <3> HIDE DEF T
      <3> QED
        BY <2>1, LeastNumber, Zenon
    <2>3. PICK k \in T : \A j \in T : ~(j < k)
      BY <2>2
    <2>4. k \in 1..n /\ g[k] # f[k]
      BY <2>3
    <2>5. k # 1 => g[k - 1] = f[k - 1] /\ k - 1 \in 1..n
      <3>1. SUFFICES ASSUME k # 1 PROVE g[k - 1] = f[k - 1] /\ k - 1 \in 1..n
        OBVIOUS
      <3>2. k - 1 \in 1..n /\ k - 1 < k
        BY <1>1, <2>4, <3>1
      <3> QED
        BY <2>3, <3>2
    <2>6. g[k] = IF k = 1 THEN first ELSE IF g[k - 1] = NULL THEN NULL ELSE next[g[k - 1]]
      BY <1>5, <2>4 DEF Follows
    <2>7. f[k] = IF k = 1 THEN first ELSE IF f[k - 1] = NULL THEN NULL ELSE next[f[k - 1]]
      BY <1>3, <2>4
    <2> QED
      BY <2>4, <2>5, <2>6, <2>7
  <1>7. n \in 1..n
    BY <1>1
  <1> QED
    BY <1>5, <1>6, <1>7 DEF f

\* The members of the list are the threads of the sequence, and it ends.
LEMMA MembersAre ==
  ASSUME NEW first, NEW s, ChainIs(next, first, s)
  PROVE  /\ \A w : w \in Members(first) <=> w \in Worker /\ In(w, s)
         /\ ThreadAt(first, Cardinality(Worker) + 1) = NULL
  <1>1. Len(s) \in 0..MaxLength /\ MaxLength \in Nat /\ s \in Seq(Worker)
    BY LengthBound DEF ChainIs
  <1>2. NULL \notin Worker /\ \A i \in 1..Len(s) : s[i] \in Worker
    BY <1>1, ThreadPoolAssumption
  <1>3. \A n \in 1..(MaxLength + 1) : ThreadAt(first, n) = IF n <= Len(s) THEN s[n] ELSE NULL
    BY ThreadAtIs
  <1>4. ThreadAt(first, Cardinality(Worker) + 1) = NULL
    BY <1>1, <1>3 DEF MaxLength
  <1>5. ASSUME NEW w, w \in Members(first) PROVE w \in Worker /\ In(w, s)
    <2>1. PICK n \in 1..(MaxLength + 1) : w = ThreadAt(first, n) /\ w # NULL
      BY <1>5 DEF Members, MaxLength
    <2>2. n <= Len(s) /\ w = s[n]
      BY <1>3, <2>1
    <2> QED
      BY <1>1, <1>2, <2>1, <2>2 DEF In
  <1>6. ASSUME NEW w \in Worker, In(w, s) PROVE w \in Members(first)
    <2>1. PICK n \in 1..Len(s) : s[n] = w
      BY <1>6 DEF In
    <2>2. n \in 1..(MaxLength + 1) /\ ThreadAt(first, n) = w /\ w # NULL
      BY <1>1, <1>2, <1>3, <2>1
    <2> QED
      BY <2>2 DEF Members, MaxLength
  <1> QED
    BY <1>4, <1>5, <1>6

-----------------------------------------------------------------------------
(* Steps that leave the lists as they are *)

Kept(a, u) == Base' /\ ListInv(a, u)' /\ UseInv(a, u)'

\* Threads and callers are different, and NULL is none of them.
LEMMA Names == NULL \notin Worker /\ NULL \notin Caller
  BY ThreadPoolAssumption

\* The lists do not change, and no thread is born or ends.
LEMMA SameLists ==
  ASSUME NEW a, NEW u, ListInv(a, u), UNCHANGED <<firstAvailableThread, firstThreadInUse, next, freed, opc>>,
         \A w \in Worker : wpc'[w] = "unborn" <=> wpc[w] = "unborn"
  PROVE  ListInv(a, u)'
  BY DEF ListInv, ChainIs

\* No thread that was available begins to work.
LEMMA SameUse ==
  ASSUME NEW a, NEW u, UseInv(a, u), UNCHANGED <<isShuttingDown, prev>>,
         \A w \in Worker : wpc'[w] = "unborn" => wpc[w] = "unborn",
         \A w \in Worker : Working(w)' => Working(w),
         \A w \in Worker : wpc'[w] = "relist" => threadFunc'[w] = NULL \/ (wpc[w] = "relist" /\ threadFunc'[w] = threadFunc[w]),
         \A c \in Caller, w \in Worker : Assigned(c, w)' => Assigned(c, w)
  PROVE  UseInv(a, u)'
  BY DEF UseInv, BackIs

\* One worker goes to another place.
LEMMA WorkerMoved ==
  ASSUME wpc \in [Worker -> WorkerPlace], NEW w \in Worker, NEW to \in WorkerPlace, wpc' = [wpc EXCEPT ![w] = to]
  PROVE  wpc' \in [Worker -> WorkerPlace] /\ wpc'[w] = to /\ \A v \in Worker : v # w => wpc'[v] = wpc[v]
  OBVIOUS

\* One caller goes to another place.
LEMMA CallerMoved ==
  ASSUME cpc \in [Caller -> CallerPlace], NEW c \in Caller, NEW to \in CallerPlace, cpc' = [cpc EXCEPT ![c] = to]
  PROVE  cpc' \in [Caller -> CallerPlace] /\ cpc'[c] = to /\ \A d \in Caller : d # c => cpc'[d] = cpc[d]
  OBVIOUS

Inside == {"run", "finish", "joinSleep", "cleanup"}

\* A step of a thread's main loop changes nothing of the pool; it runs a function only
\* when it has one, and clears it before it goes back to the list.
LEMMA WorkerFrame ==
  ASSUME Base, NEW a, NEW u, ListInv(a, u), UseInv(a, u), NEW w \in Worker, NEW to \in WorkerPlace,
         wpc' = [wpc EXCEPT ![w] = to], wpc[w] \notin {"unborn", "exit", "relist"}, to # "unborn", to = "exit" => isShuttingDown,
         to \in Inside \cup {"relist"} => wpc[w] \in Inside \/ threadFunc[w] # NULL,
         \/ to # "relist" /\ threadFunc' = threadFunc
         \/ to = "relist" /\ threadFunc' = [threadFunc EXCEPT ![w] = NULL],
         UNCHANGED <<firstAvailableThread, firstThreadInUse, next, prev, isShuttingDown, freed, opc, cpc, handle>>
  PROVE  PlaceInv' /\ OwnerInv' /\ ListInv(a, u)' /\ UseInv(a, u)'
  <1>1. wpc' \in [Worker -> WorkerPlace] /\ wpc'[w] = to /\ \A v \in Worker : v # w => wpc'[v] = wpc[v]
    BY WorkerMoved DEF Base, PlaceInv
  <1>2. threadFunc' \in [Worker -> Caller \cup {NULL}] /\ \A v \in Worker : v # w => threadFunc'[v] = threadFunc[v]
    BY DEF Base, TypeOK
  <1>3. to = "relist" => threadFunc'[w] = NULL
    BY DEF Base, TypeOK
  <1>4. PlaceInv'
    BY <1>1 DEF Base, PlaceInv
  <1>5. OwnerInv'
    BY <1>1 DEF Base, OwnerInv
  <1>6. ListInv(a, u)'
    BY <1>1, SameLists
  <1>7. \A v \in Worker : Working(v)' => Working(v)
    <2>1. Working(w)' => Working(w)
      BY <1>1, <1>3 DEF Working, Inside
    <2>2. \A v \in Worker : v # w => (Working(v)' => Working(v))
      BY <1>1, <1>2 DEF Working
    <2> QED
      BY <2>1, <2>2
  <1>8. \A v \in Worker : wpc'[v] = "relist" => threadFunc'[v] = NULL \/ (wpc[v] = "relist" /\ threadFunc'[v] = threadFunc[v])
    <2>1. ASSUME NEW v \in Worker, wpc'[v] = "relist", v # w
          PROVE  wpc[v] = "relist" /\ threadFunc'[v] = threadFunc[v]
      BY <1>1, <1>2, <2>1
    <2> QED
      BY <1>1, <1>3, <2>1
  <1>9. \A v \in Worker : wpc'[v] = "unborn" => wpc[v] = "unborn"
    BY <1>1
  <1>10. \A c \in Caller, v \in Worker : Assigned(c, v)' => Assigned(c, v)
    BY DEF Assigned
  <1>11. UseInv(a, u)'
    BY <1>7, <1>8, <1>9, <1>10, SameUse
  <1> QED
    BY <1>4, <1>5, <1>6, <1>11

\* A step of a caller that is not given a thread changes nothing of the pool.
LEMMA CallerFrame ==
  ASSUME Base, NEW a, NEW u, ListInv(a, u), UseInv(a, u), NEW c \in Caller, NEW to \in CallerPlace,
         cpc' = [cpc EXCEPT ![c] = to], to # "assign",
         handle' = handle \/ handle' = [handle EXCEPT ![c] = NULL],
         UNCHANGED <<firstAvailableThread, firstThreadInUse, next, prev, isShuttingDown, freed, opc, wpc, threadFunc>>
  PROVE  PlaceInv' /\ OwnerInv' /\ ListInv(a, u)' /\ UseInv(a, u)'
  <1>1. cpc' \in [Caller -> CallerPlace] /\ cpc'[c] = to /\ \A d \in Caller : d # c => cpc'[d] = cpc[d]
    BY CallerMoved DEF Base, PlaceInv
  <1>2. handle' \in [Caller -> Worker \cup {NULL}] /\ \A d \in Caller : d # c => handle'[d] = handle[d]
    BY DEF Base, PlaceInv
  <1>3. PlaceInv'
    BY <1>1, <1>2 DEF Base, PlaceInv
  <1>4. OwnerInv'
    BY DEF Base, OwnerInv
  <1>5. ListInv(a, u)'
    BY SameLists
  <1>6. \A d \in Caller, v \in Worker : Assigned(d, v)' => Assigned(d, v)
    BY <1>1, <1>2 DEF Assigned
  <1>7. \A v \in Worker : Working(v)' => Working(v)
    BY DEF Working
  <1>8. UseInv(a, u)'
    BY <1>6, <1>7, SameUse
  <1> QED
    BY <1>3, <1>4, <1>5, <1>8

-----------------------------------------------------------------------------
(* threadPoolThread_mainLoop *)

\* A step that changes none of the variables of the invariant.
LEMMA AllSame ==
  ASSUME Base, NEW a, NEW u, ListInv(a, u), UseInv(a, u),
         UNCHANGED <<firstAvailableThread, firstThreadInUse, next, prev, detached, isShuttingDown,
                       threadListMutex, threadFunc, threadFuncResult, state, startWaiting, joinWaiting,
                       wpc, cpc, handle, runs, got, opc, freed>>
  PROVE  Kept(a, u)
  <1>1. TypeOK' /\ PlaceInv' /\ OwnerInv' /\ StateInv'
    BY DEF Base, TypeOK, PlaceInv, OwnerInv, StateInv
  <1>2. ListInv(a, u)'
    BY SameLists
  <1>3. UseInv(a, u)'
    BY SameUse DEF Working, Assigned
  <1> QED
    BY <1>1, <1>2, <1>3 DEF Kept, Base

\* The start condition was signalled, or the wait ended by itself.
LEMMA LoopWokenStep ==
  ASSUME Base, NEW a, NEW u, ListInv(a, u), UseInv(a, u), UNCHANGED detached, NEW w \in Worker, LoopWoken(w)
  PROVE  Kept(a, u)
  <1>1. /\ wpc[w] = "sleep" /\ wpc' = [wpc EXCEPT ![w] = "awake"]
        /\ UNCHANGED <<firstAvailableThread, firstThreadInUse, next, prev, detached, isShuttingDown,
                       threadListMutex, threadFunc, threadFuncResult, state, startWaiting, joinWaiting,
                       cpc, handle, runs, got, opc, freed, crashed>>
    BY DEF LoopWoken, WorkerGoto, lists, fields, sleep, callers
  <1>4. PlaceInv' /\ OwnerInv' /\ ListInv(a, u)' /\ UseInv(a, u)'
    BY <1>1, WorkerFrame DEF WorkerPlace, Inside
  <1>5. TypeOK'
    BY <1>1 DEF Base, TypeOK
  <1>6. StateInv'
    BY <1>1 DEF Base, StateInv, PlaceInv, TypeOK
  <1> QED
    BY <1>4, <1>5, <1>6 DEF Kept, Base

\* After the wait the thread looks whether the pool is shut down.
LEMMA LoopTestShutdownStep ==
  ASSUME Base, NEW a, NEW u, ListInv(a, u), UseInv(a, u), UNCHANGED detached, NEW w \in Worker, LoopTestShutdown(w)
  PROVE  Kept(a, u)
  <1>1. /\ wpc[w] = "awake" /\ wpc' = [wpc EXCEPT ![w] = IF isShuttingDown THEN "exit" ELSE "call"]
        /\ UNCHANGED <<firstAvailableThread, firstThreadInUse, next, prev, detached, isShuttingDown,
                       threadListMutex, threadFunc, threadFuncResult, state, startWaiting, joinWaiting,
                       cpc, handle, runs, got, opc, freed, crashed>>
    BY DEF LoopTestShutdown, WorkerGoto, lists, fields, sleep, callers
  <1>2. PICK to \in WorkerPlace : to = (IF isShuttingDown THEN "exit" ELSE "call") /\ wpc' = [wpc EXCEPT ![w] = to]
    BY <1>1 DEF WorkerPlace
  <1>4. PlaceInv' /\ OwnerInv' /\ ListInv(a, u)' /\ UseInv(a, u)'
    BY <1>1, <1>2, WorkerFrame DEF WorkerPlace, Inside
  <1>5. TypeOK'
    BY <1>1 DEF Base, TypeOK
  <1>6. StateInv'
    BY <1>1 DEF Base, StateInv, PlaceInv, TypeOK
  <1> QED
    BY <1>4, <1>5, <1>6 DEF Kept, Base

\* At the end of the loop it does the same.
LEMMA LoopTestStep ==
  ASSUME Base, NEW a, NEW u, ListInv(a, u), UseInv(a, u), UNCHANGED detached, NEW w \in Worker, LoopTest(w)
  PROVE  Kept(a, u)
  <1>1. /\ wpc[w] = "test" /\ wpc' = [wpc EXCEPT ![w] = IF isShuttingDown THEN "exit" ELSE "loop"]
        /\ UNCHANGED <<firstAvailableThread, firstThreadInUse, next, prev, detached, isShuttingDown,
                       threadListMutex, threadFunc, threadFuncResult, state, startWaiting, joinWaiting,
                       cpc, handle, runs, got, opc, freed, crashed>>
    BY DEF LoopTest, WorkerGoto, lists, fields, sleep, callers
  <1>2. PICK to \in WorkerPlace : to = (IF isShuttingDown THEN "exit" ELSE "loop") /\ wpc' = [wpc EXCEPT ![w] = to]
    BY <1>1 DEF WorkerPlace
  <1>4. PlaceInv' /\ OwnerInv' /\ ListInv(a, u)' /\ UseInv(a, u)'
    BY <1>1, <1>2, WorkerFrame DEF WorkerPlace, Inside
  <1>5. TypeOK'
    BY <1>1 DEF Base, TypeOK
  <1>6. StateInv'
    BY <1>1 DEF Base, StateInv, PlaceInv, TypeOK
  <1> QED
    BY <1>4, <1>5, <1>6 DEF Kept, Base

\* A thread sleeps when it has no function.
LEMMA LoopStartStep ==
  ASSUME Base, NEW a, NEW u, ListInv(a, u), UseInv(a, u), UNCHANGED detached, NEW w \in Worker, LoopStart(w)
  PROVE  Kept(a, u)
  <1>1. /\ wpc[w] = "loop"
        /\ \/ wpc' = [wpc EXCEPT ![w] = "sleep"] /\ startWaiting' = startWaiting \cup {w}
           \/ wpc' = [wpc EXCEPT ![w] = "awake"] /\ startWaiting' = startWaiting
        /\ UNCHANGED <<firstAvailableThread, firstThreadInUse, next, prev, detached, isShuttingDown,
                       threadListMutex, threadFunc, threadFuncResult, state, joinWaiting, cpc, handle,
                       runs, got, opc, freed, crashed>>
    BY DEF LoopStart, WorkerGoto, lists, fields, sleep, callers
  <1>2. PICK to \in WorkerPlace : to \in {"sleep", "awake"} /\ wpc' = [wpc EXCEPT ![w] = to]
    BY <1>1 DEF WorkerPlace
  <1>4. PlaceInv' /\ OwnerInv' /\ ListInv(a, u)' /\ UseInv(a, u)'
    BY <1>1, <1>2, WorkerFrame DEF WorkerPlace, Inside
  <1>5. TypeOK'
    BY <1>1 DEF Base, TypeOK
  <1>6. StateInv'
    BY <1>1 DEF Base, StateInv, PlaceInv, TypeOK
  <1> QED
    BY <1>4, <1>5, <1>6 DEF Kept, Base

\* The function has returned; a detached one has told its caller.
LEMMA LoopFunctionReturnsStep ==
  ASSUME Base, NEW a, NEW u, ListInv(a, u), UseInv(a, u), UNCHANGED detached, NEW w \in Worker, LoopFunctionReturns(w)
  PROVE  Kept(a, u)
  <1>1. /\ wpc[w] = "run" /\ wpc' = [wpc EXCEPT ![w] = IF detached THEN "cleanup" ELSE "finish"]
        /\ threadFuncResult' = [threadFuncResult EXCEPT ![w] = threadFunc[w]]
        /\ got' = (IF detached THEN [got EXCEPT ![threadFunc[w]] = threadFunc[w]] ELSE got)
        /\ UNCHANGED <<firstAvailableThread, firstThreadInUse, next, prev, detached, isShuttingDown,
                       threadListMutex, threadFunc, state, startWaiting, joinWaiting, cpc, handle, runs,
                       opc, freed, crashed>>
    BY DEF LoopFunctionReturns, WorkerGoto, lists, fields, sleep, callers
  <1>2. PICK to \in WorkerPlace : to \in {"cleanup", "finish"} /\ wpc' = [wpc EXCEPT ![w] = to]
    BY <1>1 DEF WorkerPlace
  <1>3. threadFuncResult' \in [Worker -> Caller \cup {NULL}] /\ got' \in [Caller -> Caller \cup {NULL}]
    BY <1>1 DEF Base, TypeOK
  <1>4. PlaceInv' /\ OwnerInv' /\ ListInv(a, u)' /\ UseInv(a, u)'
    BY <1>1, <1>2, WorkerFrame DEF WorkerPlace, Inside
  <1>5. TypeOK'
    BY <1>1, <1>3 DEF Base, TypeOK
  <1>6. StateInv'
    BY <1>1 DEF Base, StateInv, PlaceInv, TypeOK
  <1> QED
    BY <1>4, <1>5, <1>6 DEF Kept, Base

\* The join state becomes a finished one, and the thread sleeps until it is joined.
LEMMA LoopFinishStep ==
  ASSUME Base, NEW a, NEW u, ListInv(a, u), UseInv(a, u), UNCHANGED detached, NEW w \in Worker, LoopFinish(w)
  PROVE  Kept(a, u)
  <1>1. /\ wpc[w] = "finish" /\ wpc' = [wpc EXCEPT ![w] = "joinSleep"]
        /\ state' = [state EXCEPT ![w] = IF @ = "RUNNING_JOINED" THEN "FINISHED_JOINED" ELSE "FINISHED_UNJOINED"]
        /\ \E waiting \in Signalled(joinWaiting[w]) : joinWaiting' = [joinWaiting EXCEPT ![w] = waiting \cup {w}]
        /\ UNCHANGED <<firstAvailableThread, firstThreadInUse, next, prev, detached, isShuttingDown,
                       threadListMutex, threadFunc, threadFuncResult, startWaiting, cpc, handle, runs,
                       got, opc, freed, crashed>>
    BY DEF LoopFinish, WorkerGoto, lists, fields, sleep, callers
  <1>2. state' \in [Worker -> JoinState]
    BY <1>1 DEF Base, TypeOK, JoinState
  <1>3. joinWaiting' \in [Worker -> SUBSET (Worker \cup Caller)]
    BY <1>1 DEF Base, TypeOK, Signalled
  <1>4. PlaceInv' /\ OwnerInv' /\ ListInv(a, u)' /\ UseInv(a, u)'
    BY <1>1, <1>2, WorkerFrame DEF WorkerPlace, Inside
  <1>5. TypeOK'
    BY <1>1, <1>2, <1>3 DEF Base, TypeOK
  <1>6. StateInv'
    BY <1>1 DEF Base, StateInv, PlaceInv, TypeOK
  <1> QED
    BY <1>4, <1>5, <1>6 DEF Kept, Base

\* The thread has been joined, or the wait ended by itself: the join state is reset.
LEMMA LoopJoinedStep ==
  ASSUME Base, NEW a, NEW u, ListInv(a, u), UseInv(a, u), UNCHANGED detached, NEW w \in Worker, LoopJoined(w)
  PROVE  Kept(a, u)
  <1>1. /\ wpc[w] = "joinSleep" /\ wpc' = [wpc EXCEPT ![w] = "cleanup"]
        /\ state' = [state EXCEPT ![w] = "RUNNING_UNJOINED"]
        /\ UNCHANGED <<firstAvailableThread, firstThreadInUse, next, prev, detached, isShuttingDown,
                       threadListMutex, threadFunc, threadFuncResult, startWaiting, joinWaiting, cpc,
                       handle, runs, got, opc, freed, crashed>>
    BY DEF LoopJoined, WorkerGoto, lists, fields, sleep, callers
  <1>2. state' \in [Worker -> JoinState]
    BY <1>1 DEF Base, TypeOK, JoinState
  <1>4. PlaceInv' /\ OwnerInv' /\ ListInv(a, u)' /\ UseInv(a, u)'
    BY <1>1, <1>2, WorkerFrame DEF WorkerPlace, Inside
  <1>5. TypeOK'
    BY <1>1, <1>2 DEF Base, TypeOK
  <1>6. StateInv'
    BY <1>1 DEF Base, StateInv, PlaceInv, TypeOK
  <1> QED
    BY <1>4, <1>5, <1>6 DEF Kept, Base

\* The function is cleared.
LEMMA LoopCleanupStep ==
  ASSUME Base, NEW a, NEW u, ListInv(a, u), UseInv(a, u), UNCHANGED detached, NEW w \in Worker, LoopCleanup(w)
  PROVE  Kept(a, u)
  <1>1. /\ wpc[w] = "cleanup" /\ wpc' = [wpc EXCEPT ![w] = "relist"]
        /\ threadFunc' = [threadFunc EXCEPT ![w] = NULL]
        /\ UNCHANGED <<firstAvailableThread, firstThreadInUse, next, prev, detached, isShuttingDown,
                       threadListMutex, threadFuncResult, state, startWaiting, joinWaiting, cpc, handle,
                       runs, got, opc, freed, crashed>>
    BY DEF LoopCleanup, WorkerGoto, lists, fields, sleep, callers
  <1>4. PlaceInv' /\ OwnerInv' /\ ListInv(a, u)' /\ UseInv(a, u)'
    BY <1>1, WorkerFrame DEF WorkerPlace, Inside
  <1>5. TypeOK'
    BY <1>1 DEF Base, TypeOK
  <1>6. StateInv'
    BY <1>1 DEF Base, StateInv, PlaceInv, TypeOK
  <1> QED
    BY <1>4, <1>5, <1>6 DEF Kept, Base

\* A thread with a function calls it; one without ends the process.
LEMMA LoopCallStep ==
  ASSUME Base, NEW a, NEW u, ListInv(a, u), UseInv(a, u), UNCHANGED detached, NEW w \in Worker, LoopCall(w)
  PROVE  Kept(a, u)
  <1>1. CASE threadFunc[w] # NULL
    <2>1. /\ wpc[w] = "call" /\ wpc' = [wpc EXCEPT ![w] = "run"]
          /\ runs' = [runs EXCEPT ![threadFunc[w]] = @ + 1]
          /\ UNCHANGED <<firstAvailableThread, firstThreadInUse, next, prev, detached, isShuttingDown,
                       threadListMutex, threadFunc, threadFuncResult, state, startWaiting, joinWaiting,
                       cpc, handle, got, opc, freed>>
      BY <1>1 DEF LoopCall, WorkerGoto, lists, fields, sleep
    <2>2. PlaceInv' /\ OwnerInv' /\ ListInv(a, u)' /\ UseInv(a, u)'
      BY <1>1, <2>1, WorkerFrame DEF WorkerPlace, Inside
    <2>3. runs' \in [Caller -> Nat]
      BY <1>1, <2>1 DEF Base, TypeOK
    <2>4. TypeOK'
      BY <2>1, <2>3 DEF Base, TypeOK
    <2>5. StateInv'
      BY <2>1 DEF Base, StateInv, PlaceInv, TypeOK
    <2> QED
      BY <2>2, <2>4, <2>5 DEF Kept, Base
  <1>2. CASE threadFunc[w] = NULL
    <2>1. UNCHANGED <<firstAvailableThread, firstThreadInUse, next, prev, detached, isShuttingDown,
                       threadListMutex, threadFunc, threadFuncResult, state, startWaiting, joinWaiting,
                       wpc, cpc, handle, runs, got, opc, freed>>
      BY <1>2 DEF LoopCall, lists, fields, sleep, callers
    <2> QED
      BY <2>1, AllSame
  <1> QED
    BY <1>1, <1>2

-----------------------------------------------------------------------------
(* threadPool_runThread, when it finds no thread, and threadPoolThread_join *)

\* threadPool_runThread returns an error and has changed nothing.
LEMMA RunFailsStep ==
  ASSUME Base, NEW a, NEW u, ListInv(a, u), UseInv(a, u), UNCHANGED detached, NEW c \in Caller, RunFails(c)
  PROVE  Kept(a, u)
  <1>1. /\ cpc[c] = "idle" /\ cpc' = [cpc EXCEPT ![c] = "failed"]
        /\ UNCHANGED <<firstAvailableThread, firstThreadInUse, next, prev, detached, isShuttingDown,
                       threadListMutex, threadFunc, threadFuncResult, state, startWaiting, joinWaiting,
                       wpc, handle, runs, got, opc, freed, crashed>>
    BY DEF RunFails, CallerGoto, lists, fields, sleep
  <1>4. PlaceInv' /\ OwnerInv' /\ ListInv(a, u)' /\ UseInv(a, u)'
    BY <1>1, CallerFrame DEF CallerPlace
  <1>5. cpc' \in [Caller -> CallerPlace] /\ \A d \in Caller : d # c => cpc'[d] = cpc[d] /\ handle'[d] = handle[d]
    BY <1>1 DEF Base, PlaceInv, CallerPlace
  <1>6. TypeOK'
    BY <1>1, <1>5 DEF Base, TypeOK, PlaceInv
  <1>7. StateInv'
    BY <1>1 DEF Base, StateInv, PlaceInv, TypeOK
  <1> QED
    BY <1>4, <1>6, <1>7 DEF Kept, Base

\* A caller sleeps until the function of its thread has returned.
LEMMA JoinWaitStep ==
  ASSUME Base, NEW a, NEW u, ListInv(a, u), UseInv(a, u), UNCHANGED detached, NEW c \in Caller, JoinWait(c)
  PROVE  Kept(a, u)
  <1>1. /\ cpc[c] = "ran" /\ cpc' = [cpc EXCEPT ![c] = "joinSleep"]
        /\ state[handle[c]] = "RUNNING_UNJOINED" /\ state' = [state EXCEPT ![handle[c]] = "RUNNING_JOINED"]
        /\ joinWaiting' = [joinWaiting EXCEPT ![handle[c]] = @ \cup {c}]
        /\ UNCHANGED <<firstAvailableThread, firstThreadInUse, next, prev, detached, isShuttingDown,
                       threadListMutex, threadFunc, threadFuncResult, startWaiting, wpc, handle, runs,
                       got, opc, freed, crashed>>
    BY DEF JoinWait, CallerGoto, lists, fields, sleep
  <1>2. handle[c] \in Worker
    BY <1>1 DEF Base, TypeOK
  <1>3. state' \in [Worker -> JoinState] /\ joinWaiting' \in [Worker -> SUBSET (Worker \cup Caller)]
    BY <1>1, <1>2 DEF Base, TypeOK, JoinState
  <1>4. PlaceInv' /\ OwnerInv' /\ ListInv(a, u)' /\ UseInv(a, u)'
    BY <1>1, CallerFrame DEF CallerPlace
  <1>5. cpc' \in [Caller -> CallerPlace] /\ \A d \in Caller : d # c => cpc'[d] = cpc[d] /\ handle'[d] = handle[d]
    BY <1>1 DEF Base, PlaceInv, CallerPlace
  <1>6. TypeOK'
    BY <1>1, <1>5, <1>2, <1>3 DEF Base, TypeOK, PlaceInv
  <1>7. StateInv'
    BY <1>1 DEF Base, StateInv, PlaceInv, TypeOK
  <1> QED
    BY <1>4, <1>6, <1>7 DEF Kept, Base

\* A second join, or one of a detached thread, is refused.
LEMMA JoinRefusedStep ==
  ASSUME Base, NEW a, NEW u, ListInv(a, u), UseInv(a, u), UNCHANGED detached, NEW c \in Caller, JoinRefused(c)
  PROVE  Kept(a, u)
  <1>1. /\ cpc[c] = "ran" /\ cpc' = [cpc EXCEPT ![c] = "refused"]
        /\ UNCHANGED <<firstAvailableThread, firstThreadInUse, next, prev, detached, isShuttingDown,
                       threadListMutex, threadFunc, threadFuncResult, state, startWaiting, joinWaiting,
                       wpc, handle, runs, got, opc, freed, crashed>>
    BY DEF JoinRefused, CallerGoto, lists, fields, sleep
  <1>4. PlaceInv' /\ OwnerInv' /\ ListInv(a, u)' /\ UseInv(a, u)'
    BY <1>1, CallerFrame DEF CallerPlace
  <1>5. cpc' \in [Caller -> CallerPlace] /\ \A d \in Caller : d # c => cpc'[d] = cpc[d] /\ handle'[d] = handle[d]
    BY <1>1 DEF Base, PlaceInv, CallerPlace
  <1>6. TypeOK'
    BY <1>1, <1>5 DEF Base, TypeOK, PlaceInv
  <1>7. StateInv'
    BY <1>1 DEF Base, StateInv, PlaceInv, TypeOK
  <1> QED
    BY <1>4, <1>6, <1>7 DEF Kept, Base

\* The client is through with this thread.
LEMMA CallerNextStep ==
  ASSUME Base, NEW a, NEW u, ListInv(a, u), UseInv(a, u), UNCHANGED detached, NEW c \in Caller, CallerNext(c)
  PROVE  Kept(a, u)
  <1>1. /\ cpc' = [cpc EXCEPT ![c] = "idle"] /\ handle' = [handle EXCEPT ![c] = NULL]
        /\ runs' = [runs EXCEPT ![c] = 0] /\ got' = [got EXCEPT ![c] = NULL]
        /\ UNCHANGED <<firstAvailableThread, firstThreadInUse, next, prev, detached, isShuttingDown,
                       threadListMutex, threadFunc, threadFuncResult, state, startWaiting, joinWaiting,
                       wpc, opc, freed, crashed>>
    BY DEF CallerNext, lists, fields, sleep
  <1>3. runs' \in [Caller -> Nat] /\ got' \in [Caller -> Caller \cup {NULL}] /\ cpc'[c] = "idle"
    BY <1>1 DEF Base, TypeOK, PlaceInv
  <1>4. PlaceInv' /\ OwnerInv' /\ ListInv(a, u)' /\ UseInv(a, u)'
    BY <1>1, CallerFrame DEF CallerPlace
  <1>5. cpc' \in [Caller -> CallerPlace] /\ \A d \in Caller : d # c => cpc'[d] = cpc[d] /\ handle'[d] = handle[d]
    BY <1>1 DEF Base, PlaceInv, CallerPlace
  <1>6. TypeOK'
    BY <1>1, <1>5, <1>3 DEF Base, TypeOK, PlaceInv
  <1>7. StateInv'
    BY <1>1 DEF Base, StateInv, PlaceInv, TypeOK
  <1> QED
    BY <1>4, <1>6, <1>7 DEF Kept, Base

\* The result is fetched, which completes the join, of a thread that sleeps until then.
LEMMA CollectStep ==
  ASSUME Base, NEW a, NEW u, ListInv(a, u), UseInv(a, u), UNCHANGED detached, NEW c \in Caller, NEW from \in {"ran", "joinSleep"},
         state[handle[c]] \notin {"RUNNING_UNJOINED", "RUNNING_JOINED"}, Collect(c, from)
  PROVE  Kept(a, u)
  <1>1. /\ cpc[c] = from /\ cpc' = [cpc EXCEPT ![c] = "joined"]
        /\ got' = [got EXCEPT ![c] = threadFuncResult[handle[c]]]
        /\ state' = [state EXCEPT ![handle[c]] = "COMPLETE"]
        /\ \E waiting \in Signalled(joinWaiting[handle[c]]) :
             joinWaiting' = [joinWaiting EXCEPT ![handle[c]] = waiting]
        /\ UNCHANGED <<firstAvailableThread, firstThreadInUse, next, prev, detached, isShuttingDown,
                       threadListMutex, threadFunc, threadFuncResult, startWaiting, wpc, handle, runs,
                       opc, freed, crashed>>
    BY DEF Collect, CallerGoto, lists, fields, sleep
  <1>2. handle[c] \in Worker
    BY <1>1 DEF Base, TypeOK
  <1>3. /\ state' \in [Worker -> JoinState] /\ joinWaiting' \in [Worker -> SUBSET (Worker \cup Caller)]
        /\ got' \in [Caller -> Caller \cup {NULL}]
    BY <1>1, <1>2 DEF Base, TypeOK, JoinState, Signalled
  <1>4. PlaceInv' /\ OwnerInv' /\ ListInv(a, u)' /\ UseInv(a, u)'
    BY <1>1, CallerFrame DEF CallerPlace
  <1>5. cpc' \in [Caller -> CallerPlace] /\ \A d \in Caller : d # c => cpc'[d] = cpc[d] /\ handle'[d] = handle[d]
    BY <1>1 DEF Base, PlaceInv, CallerPlace
  <1>6. TypeOK'
    BY <1>1, <1>5, <1>3 DEF Base, TypeOK, PlaceInv
  <1>7. StateInv'
    BY <1>1, <1>2 DEF Base, StateInv, PlaceInv, TypeOK
  <1> QED
    BY <1>4, <1>6, <1>7 DEF Kept, Base

\* A caller whose thread has finished fetches the result.
LEMMA JoinFinishedStep ==
  ASSUME Base, NEW a, NEW u, ListInv(a, u), UseInv(a, u), UNCHANGED detached, NEW c \in Caller, JoinFinished(c)
  PROVE  Kept(a, u)
  <1>1. Collect(c, "ran") /\ state[handle[c]] \notin {"RUNNING_UNJOINED", "RUNNING_JOINED"}
    BY DEF JoinFinished
  <1> QED
    BY <1>1, CollectStep

\* So does one that has been woken; if its thread has not finished, the assert fails.
LEMMA JoinWokenStep ==
  ASSUME Base, NEW a, NEW u, ListInv(a, u), UseInv(a, u), UNCHANGED detached, NEW c \in Caller, JoinWoken(c)
  PROVE  Kept(a, u)
  <1>1. CASE state[handle[c]] = "FINISHED_JOINED"
    <2>1. Collect(c, "joinSleep") /\ state[handle[c]] \notin {"RUNNING_UNJOINED", "RUNNING_JOINED"}
      BY <1>1 DEF JoinWoken
    <2> QED
      BY <2>1, CollectStep
  <1>2. CASE state[handle[c]] # "FINISHED_JOINED"
    <2>1. UNCHANGED <<firstAvailableThread, firstThreadInUse, next, prev, detached, isShuttingDown,
                       threadListMutex, threadFunc, threadFuncResult, state, startWaiting, joinWaiting,
                       wpc, cpc, handle, runs, got, opc, freed>>
      BY <1>2 DEF JoinWoken, lists, fields, sleep, callers
    <2> QED
      BY <2>1, AllSame
  <1> QED
    BY <1>1, <1>2

\* The thread that was handed out gets its function; nobody else was given it.
LEMMA RunAssignStep ==
  ASSUME Base, NEW a, NEW u, ListInv(a, u), UseInv(a, u), UNCHANGED detached, NEW c \in Caller, RunAssign(c)
  PROVE  Kept(a, u)
  <1>1. /\ cpc[c] = "assign" /\ cpc' = [cpc EXCEPT ![c] = "ran"]
        /\ threadFunc' = [threadFunc EXCEPT ![handle[c]] = c] /\ startWaiting' = startWaiting \ {handle[c]}
        /\ UNCHANGED <<firstAvailableThread, firstThreadInUse, next, prev, detached, isShuttingDown,
                       threadListMutex, threadFuncResult, state, joinWaiting, wpc, handle, runs, got,
                       opc, freed, crashed>>
    BY DEF RunAssign, CallerGoto, lists
  <1>2. PICK w \in Worker : w = handle[c]
    BY <1>1 DEF Base, TypeOK
  <1>3. cpc' \in [Caller -> CallerPlace] /\ cpc'[c] = "ran" /\ \A d \in Caller : d # c => cpc'[d] = cpc[d]
    BY <1>1, CallerMoved DEF Base, PlaceInv, CallerPlace
  <1>4. threadFunc' \in [Worker -> Caller \cup {NULL}] /\ \A v \in Worker : v # w => threadFunc'[v] = threadFunc[v]
    BY <1>1, <1>2 DEF Base, TypeOK
  <1>5. TypeOK'
    BY <1>1, <1>2, <1>3, <1>4 DEF Base, TypeOK
  <1>6. PlaceInv'
    BY <1>1, <1>3 DEF Base, PlaceInv
  <1>7. OwnerInv' /\ StateInv'
    BY <1>1 DEF Base, OwnerInv, StateInv
  <1>8. ListInv(a, u)'
    BY <1>1, SameLists
  <1>9. UseInv(a, u)'
    <2> SUFFICES ASSUME ~isShuttingDown PROVE UseInv(a, u)'
      BY <1>1 DEF UseInv
    <2>1. Assigned(c, w) /\ In(w, u) /\ ~Working(w) /\ \A d \in Caller : Assigned(d, w) => d = c
      BY <1>1, <1>2 DEF Assigned, UseInv
    <2>2. \A v \in Worker : v # w => (Working(v)' <=> Working(v))
      BY <1>1, <1>4 DEF Working
    <2>3. \A v \in Worker : Working(v)' => In(v, u)
      BY <2>1, <2>2 DEF UseInv
    <2>4. \A v \in Worker : wpc'[v] = "relist" => threadFunc'[v] = NULL
      <3>1. wpc[w] # "relist"
        BY <2>1 DEF Working
      <3> QED
        BY <1>1, <1>4, <3>1 DEF UseInv
    <2>5. \A d \in Caller, v \in Worker : Assigned(d, v)' => Assigned(d, v) /\ v # w
      BY <1>1, <1>3, <2>1 DEF Assigned
    <2>6. \A d \in Caller, v \in Worker :
            Assigned(d, v)' => In(v, u) /\ ~Working(v)' /\ \A f \in Caller : Assigned(f, v)' => f = d
      BY <2>2, <2>5 DEF UseInv
    <2>7. BackIs(prev, a)' /\ BackIs(prev, u)' /\ \A v \in Worker : wpc'[v] = "unborn" => prev'[v] = NULL
      BY <1>1 DEF UseInv, BackIs
    <2> QED
      BY <2>3, <2>4, <2>6, <2>7 DEF UseInv
  <1> QED
    BY <1>5, <1>6, <1>7, <1>8, <1>9 DEF Kept, Base

-----------------------------------------------------------------------------
(* Insertion and removal *)

FieldSet(h, f, p, v) ==
  h \in [Worker -> Worker \cup {NULL}] /\ \A x \in Worker : h[x] = IF x = p THEN v ELSE f[x]

\* p->field = v, for a pointer that may be NULL.
LEMMA SetFieldIs ==
  ASSUME NEW f \in [Worker -> Worker \cup {NULL}], NEW p \in Worker \cup {NULL}, NEW v \in Worker \cup {NULL}
  PROVE  FieldSet(SetField(f, p, v), f, p, v)
  BY Names DEF SetField, FieldSet

SameOn(f, g, s) == \A i \in 1..Len(s) : g[s[i]] = f[s[i]]
Prepended(g, w, s, r) == ChainIs(g, w, r) /\ \A v : In(v, r) <=> v = w \/ In(v, s)
TakenOut(g, first, w, s, r) == ChainIs(g, first, r) /\ \A v : In(v, r) <=> In(v, s) /\ v # w

\* The list that started at first starts at first2 without w.
NewFirst(f, w, first, first2) == first2 = IF first = w THEN f[w] ELSE first

\* The pointers g lead past the k-th element of s, and are otherwise those of f.
SkipOne(f, g, s, k) ==
  /\ k # 1 => g[s[k - 1]] = f[s[k]]
  /\ \A i \in 1..Len(s) : i # k /\ i # k - 1 => g[s[i]] = f[s[i]]

\* A thread is put in front of a list.
LEMMA ChainPrepend ==
  ASSUME NEW f, NEW first, NEW s, ChainIs(f, first, s), NEW w \in Worker, ~In(w, s),
         NEW g, g[w] = first, SameOn(f, g, s),
         NEW r, r = <<w>> \o s
  PROVE  Prepended(g, w, s, r)
  <1>1. s \in Seq(Worker) /\ Len(s) \in Nat
    BY DEF ChainIs
  <1>2. /\ r \in Seq(Worker) /\ Len(r) = Len(s) + 1 /\ r # << >>
        /\ r[1] = w /\ \A i \in 1..Len(s) : r[i + 1] = s[i]
    BY <1>1
  <1>3. \A i \in 1..Len(r) : i # 1 => i - 1 \in 1..Len(s) /\ r[i] = s[i - 1]
    <2>1. ASSUME NEW i \in 1..Len(r), i # 1 PROVE i - 1 \in 1..Len(s) /\ r[(i - 1) + 1] = s[i - 1] /\ (i - 1) + 1 = i
      BY <1>1, <1>2, <2>1
    <2> QED
      BY <2>1
  <1>4. \A i, j \in 1..Len(r) : r[i] = r[j] => i = j
    <2>1. ASSUME NEW i \in 1..Len(r), NEW j \in 1..Len(r), r[i] = r[j], i # 1, j # 1 PROVE i = j
      <3>0. i - 1 \in 1..Len(s) /\ j - 1 \in 1..Len(s) /\ s[i - 1] = s[j - 1]
        BY <1>3, <2>1
      <3>1. i - 1 = j - 1
        BY <3>0 DEF ChainIs
      <3> QED
        BY <1>2, <3>1
    <2>2. \A i \in 1..Len(r) : i # 1 => r[i] # w
      BY <1>3 DEF In
    <2> QED
      BY <1>2, <2>1, <2>2
  <1>5. \A i \in 1..Len(r) : g[r[i]] = IF i = Len(r) THEN NULL ELSE r[i + 1]
    <2>1. g[r[1]] = IF 1 = Len(r) THEN NULL ELSE r[1 + 1]
      <3>1. CASE s = << >>
        BY <1>2, <3>1 DEF ChainIs
      <3>2. CASE s # << >>
        <4>1. Len(s) # 0 /\ 1 \in 1..Len(s)
          BY <1>1, <3>2, EmptySeq
        <4> QED
          BY <1>1, <1>2, <3>2, <4>1 DEF ChainIs
      <3> QED
        BY <3>1, <3>2
    <2>2. ASSUME NEW i \in 1..Len(r), i # 1 PROVE g[r[i]] = IF i = Len(r) THEN NULL ELSE r[i + 1]
      <3>1. PICK j \in 1..Len(s) : j = i - 1 /\ r[i] = s[j]
        BY <1>3, <2>2
      <3>2. g[s[j]] = IF j = Len(s) THEN NULL ELSE s[j + 1]
        BY <3>1 DEF ChainIs, SameOn
      <3>3. (j = Len(s) <=> i = Len(r)) /\ (j # Len(s) => j + 1 \in 1..Len(s) /\ i = j + 1)
        BY <1>1, <1>2, <3>1
      <3>4. j # Len(s) => r[i + 1] = s[j + 1]
        BY <1>2, <3>3
      <3> QED
        BY <3>1, <3>2, <3>3, <3>4
    <2> QED
      BY <2>1, <2>2
  <1>6. ChainIs(g, w, r)
    BY <1>2, <1>4, <1>5 DEF ChainIs
  <1>7. ASSUME NEW v PROVE In(v, r) <=> v = w \/ In(v, s)
    <2>1. ASSUME In(v, r) PROVE v = w \/ In(v, s)
      BY <1>2, <1>3, <2>1 DEF In
    <2>2. ASSUME v = w PROVE In(v, r)
      <3>1. 1 \in 1..Len(r)
        BY <1>1, <1>2
      <3> QED
        BY <1>2, <2>2, <3>1 DEF In
    <2>3. ASSUME In(v, s) PROVE In(v, r)
      <3>1. PICK i \in 1..Len(s) : s[i] = v
        BY <2>3 DEF In
      <3>2. i + 1 \in 1..Len(r) /\ r[i + 1] = v
        BY <1>1, <1>2, <3>1
      <3> QED
        BY <3>2 DEF In
    <2> QED
      BY <2>1, <2>2, <2>3
  <1> QED
    BY <1>6, <1>7 DEF Prepended

\* The same, for the pointers back.
LEMMA BackPrepend ==
  ASSUME NEW s \in Seq(Worker), NEW p, BackIs(p, s), NEW w \in Worker, NEW q, q[w] = NULL,
         \A i \in 1..Len(s) : q[s[i]] = IF i = 1 THEN w ELSE p[s[i]],
         NEW r, r = <<w>> \o s
  PROVE  BackIs(q, r)
  <1>1. Len(s) \in Nat /\ r \in Seq(Worker) /\ Len(r) = Len(s) + 1 /\ r[1] = w
    OBVIOUS
  <1>2. \A i \in 1..Len(s) : r[i + 1] = s[i]
    OBVIOUS
  <1>3. ASSUME NEW i \in 1..Len(r) PROVE q[r[i]] = IF i = 1 THEN NULL ELSE r[i - 1]
    <2>1. CASE i = 1
      BY <1>1, <2>1
    <2>2. CASE i # 1
      <3>1. PICK j \in 1..Len(s) : j = i - 1
        BY <1>1, <2>2
      <3>2. r[i] = s[j]
        BY <1>2, <3>1
      <3>3. CASE j = 1
        BY <1>1, <2>2, <3>1, <3>2, <3>3
      <3>4. CASE j # 1
        <4>1. PICK k \in 1..Len(s) : k = j - 1 /\ r[k + 1] = s[k] /\ k + 1 = j
          BY <1>1, <1>2, <3>4
        <4>2. q[s[j]] = p[s[j]] /\ p[s[j]] = s[j - 1]
          BY <3>1, <3>4 DEF BackIs
        <4> QED
          BY <2>2, <3>1, <3>2, <4>1, <4>2
      <3> QED
        BY <3>3, <3>4
    <2> QED
      BY <2>1, <2>2
  <1> QED
    BY <1>3 DEF BackIs

\* The sequence without its k-th element.
Without(s, k) == [i \in 1..(Len(s) - 1) |-> IF i < k THEN s[i] ELSE s[i + 1]]

\* What the elements of such a sequence are.
Removed(s, k, r) ==
  /\ r \in Seq(Worker) /\ Len(r) \in Nat /\ Len(s) \in Nat /\ Len(r) = Len(s) - 1
  /\ \A i \in 1..Len(r) : i < k => i \in 1..Len(s) /\ r[i] = s[i]
  /\ \A i \in 1..Len(r) : ~(i < k) => i + 1 \in 1..Len(s) /\ r[i] = s[i + 1]

\* Those before the k-th stay where they are, those after it move up.
LEMMA WithoutIs ==
  ASSUME NEW s \in Seq(Worker), NEW k \in 1..Len(s), NEW r, r = Without(s, k)
  PROVE  Removed(s, k, r)
  <1>1. Len(s) \in Nat /\ Len(s) - 1 \in Nat
    OBVIOUS
  <1>2. \A i \in 1..(Len(s) - 1) : i \in 1..Len(s) /\ i + 1 \in 1..Len(s) /\ r[i] = IF i < k THEN s[i] ELSE s[i + 1]
    BY <1>1 DEF Without
  <1>3. r \in [1..(Len(s) - 1) -> Worker]
    BY <1>1, <1>2 DEF Without
  <1>4. r \in Seq(Worker) /\ Len(r) = Len(s) - 1
    BY <1>1, <1>3, SeqDef, LenProperties
  <1> QED
    BY <1>1, <1>2, <1>4 DEF Removed

\* A thread is taken out of a list: its neighbour in front is linked to the one behind it.
LEMMA ChainRemove ==
  ASSUME NEW f, NEW first, NEW s, ChainIs(f, first, s), NEW k \in 1..Len(s), NEW w, w = s[k],
         NEW g, SkipOne(f, g, s, k), NEW first2, NewFirst(f, w, first, first2), NEW r, r = Without(s, k)
  PROVE  TakenOut(g, first2, w, s, r)
  <1> USE DEF SkipOne, NewFirst
  <1>0. s \in Seq(Worker)
    BY DEF ChainIs
  <1>1. /\ r \in Seq(Worker) /\ Len(r) \in Nat /\ Len(s) \in Nat /\ Len(r) = Len(s) - 1
        /\ \A i \in 1..Len(r) : i < k => i \in 1..Len(s) /\ r[i] = s[i]
        /\ \A i \in 1..Len(r) : ~(i < k) => i + 1 \in 1..Len(s) /\ r[i] = s[i + 1]
    <2>1. Removed(s, k, r)
      BY <1>0, WithoutIs
    <2> QED
      BY <2>1 DEF Removed
  <1>2. \A i, j \in 1..Len(s) : s[i] = s[j] => i = j
    BY DEF ChainIs
  <1>3. \A i \in 1..Len(s) : f[s[i]] = IF i = Len(s) THEN NULL ELSE s[i + 1]
    BY DEF ChainIs
  <1>4. \A i, j \in 1..Len(r) : r[i] = r[j] => i = j
    <2>1. ASSUME NEW i \in 1..Len(r), NEW j \in 1..Len(r), r[i] = r[j] PROVE i = j
      <3>1. CASE i < k /\ j < k
        <4>1. i \in 1..Len(s) /\ j \in 1..Len(s) /\ s[i] = s[j]
          BY <1>1, <2>1, <3>1
        <4> QED
          BY <1>2, <4>1
      <3>2. CASE i < k /\ ~(j < k)
        <4>1. i = j + 1
          BY <1>1, <1>2, <2>1, <3>2
        <4> QED
          BY <1>1, <3>2, <4>1
      <3>3. CASE ~(i < k) /\ j < k
        <4>1. i + 1 = j
          BY <1>1, <1>2, <2>1, <3>3
        <4> QED
          BY <1>1, <3>3, <4>1
      <3>4. CASE ~(i < k) /\ ~(j < k)
        <4>1. i + 1 = j + 1
          BY <1>1, <1>2, <2>1, <3>4
        <4> QED
          BY <4>1
      <3> QED
        BY <3>1, <3>2, <3>3, <3>4
    <2> QED
      BY <2>1
  <1>5. first2 = IF r = << >> THEN NULL ELSE r[1]
    <2>1. s # << >> /\ first = s[1] /\ 1 \in 1..Len(s)
      BY <1>0, <1>1 DEF ChainIs
    <2>2. first = w <=> k = 1
      BY <1>2, <2>1
    <2>3. r = << >> <=> Len(r) = 0
      BY <1>1
    <2>4. CASE k = 1
      <3>1. first2 = IF 1 = Len(s) THEN NULL ELSE s[1 + 1]
        BY <1>3, <2>1, <2>2, <2>4
      <3>2. Len(r) # 0 => r[1] = s[1 + 1]
        BY <1>1, <2>4
      <3> QED
        BY <1>1, <2>3, <3>1, <3>2
    <2>5. CASE k # 1
      <3>1. Len(r) # 0 /\ 1 \in 1..Len(r) /\ 1 < k
        BY <1>1, <2>5
      <3>2. r[1] = s[1]
        BY <1>1, <3>1
      <3> QED
        BY <2>1, <2>2, <2>3, <2>5, <3>1, <3>2
    <2> QED
      BY <2>4, <2>5
  <1>6. ASSUME NEW i \in 1..Len(r) PROVE g[r[i]] = IF i = Len(r) THEN NULL ELSE r[i + 1]
    <2>1. CASE i < k - 1
      <3>1. i \in 1..Len(s) /\ r[i] = s[i] /\ i # k /\ i # k - 1 /\ i # Len(s) /\ i < k
        BY <1>1, <2>1
      <3>2. g[s[i]] = s[i + 1]
        BY <1>3, <3>1
      <3>3. i # Len(r) /\ i + 1 \in 1..Len(r) /\ i + 1 < k
        BY <1>1, <2>1
      <3>4. r[i + 1] = s[i + 1]
        BY <1>1, <3>3
      <3> QED
        BY <3>1, <3>2, <3>3, <3>4
    <2>2. CASE i = k - 1
      <3>1. i \in 1..Len(s) /\ r[i] = s[i] /\ k # 1 /\ i < k
        BY <1>1, <2>2
      <3>2. g[s[k - 1]] = IF k = Len(s) THEN NULL ELSE s[k + 1]
        BY <1>3, <3>1
      <3>3. (k = Len(s) <=> i = Len(r)) /\ i + 1 = k
        BY <1>1, <2>2
      <3>4. i # Len(r) => r[k] = s[k + 1]
        BY <1>1, <3>3
      <3> QED
        BY <2>2, <3>1, <3>2, <3>3, <3>4
    <2>3. CASE ~(i < k)
      <3>1. PICK j \in 1..Len(s) : j = i + 1 /\ r[i] = s[j] /\ j # k /\ j # k - 1
        BY <1>1, <2>3
      <3>2. g[s[j]] = IF j = Len(s) THEN NULL ELSE s[j + 1]
        BY <1>3, <3>1
      <3>3. (j = Len(s) <=> i = Len(r)) /\ (i # Len(r) => i + 1 \in 1..Len(r) /\ ~(i + 1 < k))
        BY <1>1, <2>3, <3>1
      <3>4. i # Len(r) => r[i + 1] = s[(i + 1) + 1]
        BY <1>1, <3>3
      <3> QED
        BY <3>1, <3>2, <3>3, <3>4
    <2>4. i < k - 1 \/ i = k - 1 \/ ~(i < k)
      BY <1>1
    <2> QED
      BY <2>1, <2>2, <2>3, <2>4
  <1>7. ASSUME NEW v PROVE In(v, r) <=> In(v, s) /\ v # w
    <2>1. ASSUME In(v, r) PROVE In(v, s) /\ v # w
      <3>1. PICK i \in 1..Len(r) : r[i] = v
        BY <2>1 DEF In
      <3>2. PICK j \in 1..Len(s) : s[j] = v /\ j # k
        <4>1. CASE i < k
          BY <1>1, <3>1, <4>1
        <4>2. CASE ~(i < k)
          <5>1. i + 1 \in 1..Len(s) /\ s[i + 1] = v /\ i + 1 # k
            BY <1>1, <3>1, <4>2
          <5> QED
            BY <5>1
        <4> QED
          BY <4>1, <4>2
      <3> QED
        BY <1>2, <3>2 DEF In
    <2>2. ASSUME In(v, s), v # w PROVE In(v, r)
      <3>1. PICK j \in 1..Len(s) : s[j] = v /\ j # k
        BY <2>2 DEF In
      <3>2. CASE j < k
        <4>1. j \in 1..Len(r) /\ r[j] = v
          BY <1>1, <3>1, <3>2
        <4> QED
          BY <4>1 DEF In
      <3>3. CASE ~(j < k)
        <4>1. PICK i \in 1..Len(r) : i = j - 1 /\ ~(i < k)
          BY <1>1, <3>1, <3>3
        <4>2. r[i] = s[i + 1] /\ i + 1 = j
          BY <1>1, <4>1
        <4> QED
          BY <3>1, <4>2 DEF In
      <3> QED
        BY <3>2, <3>3
    <2> QED
      BY <2>1, <2>2
  <1> QED
    BY <1>1, <1>4, <1>5, <1>6, <1>7 DEF ChainIs, TakenOut

\* The same, for the pointers back.
LEMMA BackRemove ==
  ASSUME NEW s \in Seq(Worker), NEW p, BackIs(p, s), NEW k \in 1..Len(s),
         NEW q, k # Len(s) => q[s[k + 1]] = p[s[k]],
         \A i \in 1..Len(s) : i # k /\ i # k + 1 => q[s[i]] = p[s[i]],
         NEW r, r = Without(s, k)
  PROVE  BackIs(q, r)
  <1>1. /\ r \in Seq(Worker) /\ Len(r) \in Nat /\ Len(s) \in Nat /\ Len(r) = Len(s) - 1
        /\ \A i \in 1..Len(r) : i < k => i \in 1..Len(s) /\ r[i] = s[i]
        /\ \A i \in 1..Len(r) : ~(i < k) => i + 1 \in 1..Len(s) /\ r[i] = s[i + 1]
    <2>1. Removed(s, k, r)
      BY WithoutIs
    <2> QED
      BY <2>1 DEF Removed
  <1>2. \A i \in 1..Len(s) : p[s[i]] = IF i = 1 THEN NULL ELSE s[i - 1]
    BY DEF BackIs
  <1>3. ASSUME NEW i \in 1..Len(r) PROVE q[r[i]] = IF i = 1 THEN NULL ELSE r[i - 1]
    <2>1. CASE i < k
      <3>1. i \in 1..Len(s) /\ r[i] = s[i] /\ i # k /\ i # k + 1
        BY <1>1, <2>1
      <3>2. q[s[i]] = IF i = 1 THEN NULL ELSE s[i - 1]
        BY <1>2, <3>1
      <3>3. i # 1 => i - 1 \in 1..Len(r) /\ i - 1 < k
        BY <1>1, <2>1
      <3>4. i # 1 => r[i - 1] = s[i - 1]
        BY <1>1, <3>3
      <3> QED
        BY <3>1, <3>2, <3>4
    <2>2. CASE i = k
      <3>1. k # Len(s) /\ r[i] = s[k + 1]
        BY <1>1, <2>2
      <3>2. q[s[k + 1]] = IF k = 1 THEN NULL ELSE s[k - 1]
        BY <1>2, <3>1
      <3>3. i # 1 => i - 1 \in 1..Len(r) /\ i - 1 < k
        BY <1>1, <2>2
      <3>4. i # 1 => r[i - 1] = s[i - 1]
        BY <1>1, <3>3
      <3> QED
        BY <2>2, <3>1, <3>2, <3>4
    <2>3. CASE k < i
      <3>1. PICK j \in 1..Len(s) : j = i + 1 /\ r[i] = s[j] /\ j # k /\ j # k + 1 /\ j # 1
        BY <1>1, <2>3
      <3>2. q[s[j]] = s[j - 1]
        BY <1>2, <3>1
      <3>3. i # 1 /\ i - 1 \in 1..Len(r) /\ ~(i - 1 < k)
        BY <1>1, <2>3
      <3>4. r[i - 1] = s[(i - 1) + 1] /\ (i - 1) + 1 = j - 1
        BY <1>1, <3>1, <3>3
      <3> QED
        BY <3>1, <3>2, <3>3, <3>4
    <2>4. i < k \/ i = k \/ k < i
      BY <1>1
    <2> QED
      BY <2>1, <2>2, <2>3, <2>4
  <1> QED
    BY <1>3 DEF BackIs

\* Two lists without a common thread, linked both ways.
Linked(nx, pv, x, s, y, t) ==
  /\ ChainIs(nx, x, s) /\ BackIs(pv, s) /\ ChainIs(nx, y, t) /\ BackIs(pv, t)
  /\ \A w \in Worker : ~(In(w, s) /\ In(w, t))

\* A list whose pointers do not change.
LEMMA ChainSame ==
  ASSUME NEW f, NEW first, NEW s, ChainIs(f, first, s), NEW g, \A i \in 1..Len(s) : g[s[i]] = f[s[i]]
  PROVE  ChainIs(g, first, s)
  BY DEF ChainIs

\* The same, for the pointers back.
LEMMA BackSame ==
  ASSUME NEW p, NEW s, BackIs(p, s), NEW q, \A i \in 1..Len(s) : q[s[i]] = p[s[i]]
  PROVE  BackIs(q, s)
  BY DEF BackIs

\* The elements and the first element of a list.
LEMMA ChainElements ==
  ASSUME NEW f, NEW x, NEW s, ChainIs(f, x, s)
  PROVE  /\ s \in Seq(Worker) /\ Len(s) \in Nat
         /\ \A i \in 1..Len(s) : s[i] \in Worker /\ In(s[i], s)
         /\ \A i, j \in 1..Len(s) : s[i] = s[j] => i = j
         /\ (s = << >> <=> x = NULL) /\ (s = << >> <=> Len(s) = 0)
         /\ Len(s) # 0 => 1 \in 1..Len(s) /\ x = s[1]
         /\ \A w \in Worker : w = x => In(w, s)
  <1>1. s \in Seq(Worker) /\ Len(s) \in Nat /\ \A i, j \in 1..Len(s) : s[i] = s[j] => i = j
    BY DEF ChainIs
  <1>2. \A i \in 1..Len(s) : s[i] \in Worker /\ In(s[i], s)
    BY <1>1 DEF In
  <1>3. s = << >> <=> Len(s) = 0
    BY <1>1
  <1>4. Len(s) # 0 => 1 \in 1..Len(s) /\ x = s[1]
    BY <1>1, <1>3 DEF ChainIs
  <1>5. s = << >> <=> x = NULL
    BY <1>2, <1>3, <1>4, Names DEF ChainIs
  <1>6. \A w \in Worker : w = x => In(w, s)
    BY <1>2, <1>3, <1>4, <1>5, Names
  <1> QED
    BY <1>1, <1>2, <1>3, <1>4, <1>5, <1>6

\* How the pointers f forwards and p backwards become g and q when w is put before y...
InsertedAt(f, p, w, y, g, q) ==
  /\ \A v \in Worker : g[v] = IF v = w THEN y ELSE f[v]
  /\ \A v \in Worker : q[v] = IF v = w THEN NULL ELSE IF v = y THEN w ELSE p[v]

\* ... after it was taken out of the list it was in.
MovedTo(f, p, w, y, g, q) ==
  /\ \A v \in Worker : g[v] = IF v = w THEN y ELSE IF v = p[w] THEN f[w] ELSE f[v]
  /\ \A v \in Worker : q[v] = IF v = w THEN NULL ELSE IF v = y THEN w ELSE IF v = f[w] THEN p[w] ELSE p[v]

Inserted(g, q, x, s, w, t, r) ==
  Linked(g, q, x, s, w, r) /\ r \in Seq(Worker) /\ \A v : In(v, r) <=> v = w \/ In(v, t)

Transferred(g, q, x, s, w, t, r) ==
  /\ r \in Seq(Worker) /\ \A v : In(v, r) <=> v = w \/ In(v, t)
  /\ \E s2 \in Seq(Worker) : Linked(g, q, x, s2, w, r) /\ \A v : In(v, s2) <=> In(v, s) /\ v # w

\* A new thread is put in front of one of the two lists.
LEMMA Insert ==
  ASSUME NEW f, NEW p, NEW x, NEW s, NEW y, NEW t, Linked(f, p, x, s, y, t), NEW w \in Worker, ~In(w, s), ~In(w, t),
         NEW g, NEW q, InsertedAt(f, p, w, y, g, q), NEW r, r = <<w>> \o t
  PROVE  Inserted(g, q, x, s, w, t, r)
  <1>0. /\ \A v \in Worker : g[v] = IF v = w THEN y ELSE f[v]
        /\ \A v \in Worker : q[v] = IF v = w THEN NULL ELSE IF v = y THEN w ELSE p[v]
    BY DEF InsertedAt
  <1>1. /\ ChainIs(f, x, s) /\ BackIs(p, s) /\ ChainIs(f, y, t) /\ BackIs(p, t)
        /\ \A v \in Worker : ~(In(v, s) /\ In(v, t))
    BY DEF Linked
  <1>2. \A i \in 1..Len(s) : s[i] \in Worker /\ In(s[i], s)
    BY <1>1, ChainElements
  <1>3. /\ t \in Seq(Worker) /\ Len(t) \in Nat
        /\ \A i \in 1..Len(t) : t[i] \in Worker /\ In(t[i], t)
        /\ \A i, j \in 1..Len(t) : t[i] = t[j] => i = j
        /\ Len(t) # 0 => 1 \in 1..Len(t) /\ y = t[1]
        /\ \A v \in Worker : v = y => In(v, t)
    BY <1>1, ChainElements
  <1>4. \A i \in 1..Len(s) : g[s[i]] = f[s[i]] /\ q[s[i]] = p[s[i]]
    BY <1>0, <1>1, <1>2, <1>3
  <1>5. ChainIs(g, x, s)
    BY <1>1, <1>4, ChainSame
  <1>6. BackIs(q, s)
    BY <1>1, <1>4, BackSame
  <1>7. \A i \in 1..Len(t) : t[i] # w /\ g[t[i]] = f[t[i]]
    BY <1>0, <1>3
  <1>8. g[w] = y /\ q[w] = NULL
    BY <1>0
  <1>9. ChainIs(g, w, r) /\ \A v : In(v, r) <=> v = w \/ In(v, t)
    <2>1. Prepended(g, w, t, r)
      <3>1. ChainIs(f, y, t) /\ g[w] = y /\ SameOn(f, g, t)
        BY <1>1, <1>7, <1>8 DEF SameOn
      <3> QED
        BY <3>1, ChainPrepend
    <2> QED
      BY <2>1 DEF Prepended
  <1>10. ASSUME NEW i \in 1..Len(t) PROVE q[t[i]] = IF i = 1 THEN w ELSE p[t[i]]
    <2>1. t[i] \in Worker /\ t[i] # w /\ y = t[1] /\ (t[i] = y <=> i = 1)
      BY <1>3, <1>7
    <2> QED
      BY <1>0, <2>1
  <1>11. BackIs(q, r)
    BY <1>1, <1>3, <1>8, <1>10, BackPrepend
  <1>12. \A v \in Worker : ~(In(v, s) /\ In(v, r))
    BY <1>1, <1>9
  <1> QED
    BY <1>5, <1>6, <1>9, <1>11, <1>12 DEF Linked, ChainIs, Inserted

\* A thread is taken out of one list, wherever it is, and put in front of the other.
LEMMA Transfer ==
  ASSUME NEW f, NEW p, NEW x, NEW s, NEW y, NEW t, Linked(f, p, x, s, y, t), NEW w \in Worker, In(w, s),
         NEW g, NEW q, MovedTo(f, p, w, y, g, q),
         NEW x2, NewFirst(f, w, x, x2),
         NEW r, r = <<w>> \o t
  PROVE  Transferred(g, q, x2, s, w, t, r)
  <1>0. /\ \A v \in Worker : g[v] = IF v = w THEN y ELSE IF v = p[w] THEN f[w] ELSE f[v]
        /\ \A v \in Worker : q[v] = IF v = w THEN NULL ELSE IF v = y THEN w ELSE IF v = f[w] THEN p[w] ELSE p[v]
    BY DEF MovedTo
  <1>1. /\ ChainIs(f, x, s) /\ BackIs(p, s) /\ ChainIs(f, y, t) /\ BackIs(p, t)
        /\ \A v \in Worker : ~(In(v, s) /\ In(v, t))
    BY DEF Linked
  <1>2. /\ s \in Seq(Worker) /\ Len(s) \in Nat /\ \A i \in 1..Len(s) : s[i] \in Worker /\ In(s[i], s)
        /\ \A i, j \in 1..Len(s) : s[i] = s[j] => i = j
    BY <1>1, ChainElements
  <1>3. /\ t \in Seq(Worker) /\ Len(t) \in Nat
        /\ \A i \in 1..Len(t) : t[i] \in Worker /\ In(t[i], t)
        /\ \A i, j \in 1..Len(t) : t[i] = t[j] => i = j
        /\ Len(t) # 0 => 1 \in 1..Len(t) /\ y = t[1]
        /\ \A v \in Worker : v = y => In(v, t)
    BY <1>1, ChainElements
  <1>4. PICK k \in 1..Len(s) : s[k] = w
    BY DEF In
  <1>5. f[w] = IF k = Len(s) THEN NULL ELSE s[k + 1]
    BY <1>1, <1>4 DEF ChainIs
  <1>6. p[w] = IF k = 1 THEN NULL ELSE s[k - 1]
    BY <1>1, <1>4 DEF BackIs
  <1>7. /\ k # Len(s) => k + 1 \in 1..Len(s)
        /\ k # 1 => k - 1 \in 1..Len(s)
    BY <1>2
  <1>8. ~In(w, t)
    BY <1>1
  <1>9. \A i \in 1..Len(t) : t[i] \in Worker /\ t[i] # w /\ t[i] # p[w] /\ t[i] # f[w]
    <2>1. (f[w] \in Worker /\ In(f[w], s)) \/ f[w] = NULL
      BY <1>2, <1>5, <1>7
    <2>2. (p[w] \in Worker /\ In(p[w], s)) \/ p[w] = NULL
      BY <1>2, <1>6, <1>7
    <2> QED
      BY <1>1, <1>3, <1>8, <2>1, <2>2, Names
  <1>10. \A i \in 1..Len(s) : s[i] \in Worker /\ s[i] # y
    BY <1>1, <1>2, <1>3
  <1>11. ChainIs(g, w, r) /\ \A v : In(v, r) <=> v = w \/ In(v, t)
    <2>1. g[w] = y /\ SameOn(f, g, t)
      BY <1>0, <1>9 DEF SameOn
    <2>2. Prepended(g, w, t, r)
      <3>1. ChainIs(f, y, t)
        BY <1>1
      <3> QED
        BY <1>8, <2>1, <3>1, ChainPrepend
    <2> QED
      BY <2>2 DEF Prepended
  <1>12. BackIs(q, r)
    <2>1. ASSUME NEW i \in 1..Len(t) PROVE q[t[i]] = IF i = 1 THEN w ELSE p[t[i]]
      <3>1. y = t[1] /\ (t[i] = y <=> i = 1)
        BY <1>3
      <3> QED
        BY <1>0, <1>9, <3>1
    <2>2. q[w] = NULL
      BY <1>0
    <2> QED
      BY <1>1, <1>3, <2>1, <2>2, BackPrepend
  <1>13. PICK s2 : s2 = Without(s, k)
    OBVIOUS
  <1>14. ChainIs(g, x2, s2) /\ \A v : In(v, s2) <=> In(v, s) /\ v # w
    <2>1. k # 1 => g[s[k - 1]] = f[w]
      <3>1. SUFFICES ASSUME k # 1 PROVE g[s[k - 1]] = f[w]
        OBVIOUS
      <3>2. s[k - 1] \in Worker /\ s[k - 1] # w /\ s[k - 1] = p[w]
        BY <1>2, <1>4, <1>6, <1>7, <3>1
      <3> QED
        BY <1>0, <3>2
    <2>2. ASSUME NEW i \in 1..Len(s), i # k, i # k - 1 PROVE g[s[i]] = f[s[i]]
      <3>1. s[i] \in Worker /\ s[i] # w /\ s[i] # p[w]
        BY <1>2, <1>4, <1>6, <1>7, <2>2, Names
      <3> QED
        BY <1>0, <3>1
    <2>3. TakenOut(g, x2, w, s, s2)
      <3>1. ChainIs(f, x, s) /\ w = s[k]
        BY <1>1, <1>4
      <3>2. SkipOne(f, g, s, k)
        BY <2>1, <2>2, <3>1 DEF SkipOne
      <3> QED
        BY <1>13, <3>1, <3>2, ChainRemove
    <2> QED
      BY <2>3 DEF TakenOut
  <1>15. BackIs(q, s2)
    <2>1. k # Len(s) => q[s[k + 1]] = p[s[k]]
      <3>1. SUFFICES ASSUME k # Len(s) PROVE q[s[k + 1]] = p[s[k]]
        OBVIOUS
      <3>2. s[k + 1] \in Worker /\ s[k + 1] # w /\ s[k + 1] = f[w] /\ s[k + 1] # y
        BY <1>2, <1>4, <1>5, <1>7, <1>10, <3>1
      <3> QED
        BY <1>0, <1>4, <3>2
    <2>2. ASSUME NEW i \in 1..Len(s), i # k, i # k + 1 PROVE q[s[i]] = p[s[i]]
      <3>1. s[i] \in Worker /\ s[i] # w /\ s[i] # f[w] /\ s[i] # y
        BY <1>2, <1>4, <1>5, <1>7, <1>10, <2>2, Names
      <3> QED
        BY <1>0, <3>1
    <2> QED
      BY <1>1, <1>2, <1>13, <2>1, <2>2, BackRemove
  <1>16. Linked(g, q, x2, s2, w, r) /\ s2 \in Seq(Worker) /\ r \in Seq(Worker)
    <2>1. \A v \in Worker : ~(In(v, s2) /\ In(v, r))
      BY <1>1, <1>11, <1>14
    <2> QED
      BY <1>11, <1>12, <1>14, <1>15, <2>1 DEF Linked, ChainIs
  <1> QED
    BY <1>11, <1>14, <1>16 DEF Transferred

-----------------------------------------------------------------------------
(* Steps that change the lists *)

Renamed == UNCHANGED <<detached, isShuttingDown, threadListMutex, threadFunc, threadFuncResult, state,
                       startWaiting, joinWaiting, runs, got, opc, freed>>

\* What has to be shown of lists that were linked anew.
LEMMA Relinked ==
  ASSUME NEW b, NEW v, Linked(next', prev', firstAvailableThread', b, firstThreadInUse', v),
         opc' \notin {"join", "unlocked", "done"},
         \A w \in Worker : wpc'[w] = "unborn" <=> ~In(w, b) /\ ~In(w, v) /\ w \notin freed',
         \A w \in Worker : wpc'[w] = "unborn" => prev'[w] = NULL,
         \A w \in Worker : Working(w)' => In(w, v),
         \A w \in Worker : wpc'[w] = "relist" => threadFunc'[w] = NULL,
         \A c \in Caller, w \in Worker :
           Assigned(c, w)' => In(w, v) /\ ~Working(w)' /\ \A d \in Caller : Assigned(d, w)' => d = c
  PROVE  ListInv(b, v)' /\ UseInv(b, v)'
  <1>1. ListInv(b, v)'
    BY DEF ListInv, Linked
  <1>2. UseInv(b, v)'
    BY DEF UseInv, Linked
  <1> QED
    BY <1>1, <1>2

\* The two lists, while the pool is up.
LEMMA UpLists ==
  ASSUME Base, NEW a, NEW u, ListInv(a, u), UseInv(a, u), ~isShuttingDown
  PROVE  /\ Linked(next, prev, firstAvailableThread, a, firstThreadInUse, u)
         /\ Linked(next, prev, firstThreadInUse, u, firstAvailableThread, a)
         /\ opc \in {"create", "up"} /\ freed = {}
         /\ \A w \in Worker : wpc[w] = "unborn" <=> ~In(w, a) /\ ~In(w, u)
         /\ \A w \in Worker : wpc[w] = "unborn" => prev[w] = NULL
         /\ \A w \in Worker : Working(w) => In(w, u)
         /\ \A w \in Worker : wpc[w] = "relist" => threadFunc[w] = NULL
         /\ \A c \in Caller, w \in Worker :
              Assigned(c, w) => In(w, u) /\ ~Working(w) /\ \A d \in Caller : Assigned(d, w) => d = c
  <1>1. opc \in {"create", "up"} /\ freed = {}
    BY DEF Base, PlaceInv, OwnerInv
  <1>2. Linked(next, prev, firstAvailableThread, a, firstThreadInUse, u)
    BY DEF ListInv, UseInv, Linked
  <1>3. Linked(next, prev, firstThreadInUse, u, firstAvailableThread, a)
    BY <1>2 DEF Linked
  <1>4. \A w \in Worker : wpc[w] = "unborn" <=> ~In(w, a) /\ ~In(w, u)
    BY <1>1 DEF ListInv
  <1> QED
    BY <1>1, <1>2, <1>3, <1>4 DEF UseInv

\* threadPool_create makes a thread and puts it in front of the available ones.
LEMMA CreateThreadStep ==
  ASSUME Base, NEW a, NEW u, ListInv(a, u), UseInv(a, u), UNCHANGED detached, CreateThread
  PROVE  \E b, v \in Seq(Worker) : Kept(b, v)
  <1>1. PICK w \in Worker : /\ wpc[w] = "unborn" /\ wpc' = [wpc EXCEPT ![w] = "loop"]
                            /\ prev' = SetField(prev, firstAvailableThread, w)
                            /\ next' = [next EXCEPT ![w] = firstAvailableThread]
                            /\ firstAvailableThread' = w
    BY DEF CreateThread, Unborn
  <1>2. /\ opc = "create" /\ UNCHANGED <<firstThreadInUse, cpc, handle>> /\ Renamed
    BY DEF CreateThread, Renamed, fields, sleep, callers
  <1>3. ~isShuttingDown
    BY <1>2 DEF Base, PlaceInv
  <1>4. /\ Linked(next, prev, firstThreadInUse, u, firstAvailableThread, a) /\ freed = {}
        /\ \A x \in Worker : wpc[x] = "unborn" <=> ~In(x, a) /\ ~In(x, u)
        /\ \A x \in Worker : wpc[x] = "unborn" => prev[x] = NULL
        /\ \A x \in Worker : Working(x) => In(x, u)
        /\ \A x \in Worker : wpc[x] = "relist" => threadFunc[x] = NULL
        /\ \A c \in Caller, x \in Worker :
             Assigned(c, x) => In(x, u) /\ ~Working(x) /\ \A d \in Caller : Assigned(d, x) => d = c
    BY <1>3, UpLists
  <1>5. /\ next \in [Worker -> Worker \cup {NULL}] /\ prev \in [Worker -> Worker \cup {NULL}]
        /\ firstAvailableThread \in Worker \cup {NULL} /\ wpc \in [Worker -> WorkerPlace]
    BY DEF Base, TypeOK, PlaceInv
  <1>6. ~In(w, a) /\ ~In(w, u) /\ prev[w] = NULL /\ firstAvailableThread # w
    <2>1. ChainIs(next, firstAvailableThread, a)
      BY DEF ListInv
    <2> QED
      BY <1>1, <1>4, <2>1, ChainElements
  <1>7. /\ next' \in [Worker -> Worker \cup {NULL}] /\ prev' \in [Worker -> Worker \cup {NULL}]
        /\ \A x \in Worker : next'[x] = IF x = w THEN firstAvailableThread ELSE next[x]
        /\ \A x \in Worker : prev'[x] = IF x = w THEN NULL ELSE IF x = firstAvailableThread THEN w ELSE prev[x]
    <2>1. next' \in [Worker -> Worker \cup {NULL}] /\ \A x \in Worker : next'[x] = IF x = w THEN firstAvailableThread ELSE next[x]
      BY <1>1, <1>5
    <2>2. prev' \in [Worker -> Worker \cup {NULL}] /\ \A x \in Worker : prev'[x] = IF x = firstAvailableThread THEN w ELSE prev[x]
      <3>1. FieldSet(prev', prev, firstAvailableThread, w)
        BY <1>1, <1>5, SetFieldIs
      <3> QED
        BY <3>1 DEF FieldSet
    <2> QED
      BY <1>6, <2>1, <2>2
  <1>8. PICK r : r = <<w>> \o a
    OBVIOUS
  <1>9. Linked(next', prev', firstThreadInUse, u, w, r) /\ r \in Seq(Worker) /\ \A x : In(x, r) <=> x = w \/ In(x, a)
    <2>1. Inserted(next', prev', firstThreadInUse, u, w, a, r)
      <3>1. Linked(next, prev, firstThreadInUse, u, firstAvailableThread, a) /\ ~In(w, u) /\ ~In(w, a)
        BY <1>4, <1>6
      <3>2. InsertedAt(next, prev, w, firstAvailableThread, next', prev')
        BY <1>7 DEF InsertedAt
      <3> QED
        BY <1>8, <3>1, <3>2, Insert
    <2> QED
      BY <2>1 DEF Inserted
  <1>10. wpc' \in [Worker -> WorkerPlace] /\ wpc'[w] = "loop" /\ \A x \in Worker : x # w => wpc'[x] = wpc[x]
    BY <1>1, <1>5, WorkerMoved DEF WorkerPlace
  <1>11. ListInv(r, u)' /\ UseInv(r, u)'
    <2>1. Linked(next', prev', firstAvailableThread', r, firstThreadInUse', u)
      BY <1>1, <1>2, <1>9 DEF Linked
    <2>2. opc' \notin {"join", "unlocked", "done"}
      BY <1>2 DEF Renamed
    <2>3. \A x \in Worker : wpc'[x] = "unborn" <=> ~In(x, r) /\ ~In(x, u) /\ x \notin freed'
      BY <1>1, <1>2, <1>4, <1>9, <1>10 DEF Renamed
    <2>4. \A x \in Worker : wpc'[x] = "unborn" => prev'[x] = NULL
      <3>1. ASSUME NEW x \in Worker, wpc'[x] = "unborn" PROVE prev'[x] = NULL
        <4>1. x # w /\ wpc[x] = "unborn" /\ prev[x] = NULL /\ ~In(x, a)
          BY <1>4, <1>10, <3>1
        <4>2. x # firstAvailableThread
          BY <4>1, ChainElements DEF ListInv
        <4> QED
          BY <1>7, <4>1, <4>2
      <3> QED
        BY <3>1
    <2>5. \A x \in Worker : Working(x)' => Working(x)
      BY <1>2, <1>10 DEF Working, Renamed
    <2>6. \A x \in Worker : wpc'[x] = "relist" => threadFunc'[x] = NULL
      BY <1>2, <1>4, <1>10 DEF Renamed
    <2>7. \A c \in Caller, x \in Worker : Assigned(c, x)' <=> Assigned(c, x)
      BY <1>2 DEF Assigned
    <2> QED
      BY <1>4, <2>1, <2>2, <2>3, <2>4, <2>5, <2>6, <2>7, Relinked
  <1>12. Base'
    <2>1. TypeOK'
      BY <1>1, <1>2, <1>7 DEF Base, TypeOK, Renamed
    <2>2. PlaceInv' /\ OwnerInv'
      BY <1>2, <1>3, <1>4, <1>10 DEF Base, PlaceInv, OwnerInv, Renamed
    <2>3. StateInv'
      BY <1>1, <1>2, <1>10 DEF Base, StateInv, Renamed
    <2> QED
      BY <2>1, <2>2, <2>3 DEF Base
  <1>13. r \in Seq(Worker) /\ u \in Seq(Worker)
    BY <1>9 DEF Linked, ChainIs
  <1> QED
    BY <1>11, <1>12, <1>13 DEF Kept

\* threadPool_runThread finds no thread available and makes one.
LEMMA RunNewStep ==
  ASSUME Base, NEW a, NEW u, ListInv(a, u), UseInv(a, u), UNCHANGED detached, NEW c \in Caller, RunNew(c)
  PROVE  \E b, v \in Seq(Worker) : Kept(b, v)
  <1>1. PICK w \in Worker : /\ wpc[w] = "unborn" /\ wpc' = [wpc EXCEPT ![w] = "loop"]
                            /\ prev' = [SetField(prev, firstThreadInUse, w) EXCEPT ![w] = NULL]
                            /\ next' = [next EXCEPT ![w] = firstThreadInUse]
                            /\ firstThreadInUse' = w /\ handle' = [handle EXCEPT ![c] = w]
    BY DEF RunNew, PutInUse, Unborn
  <1>2. /\ cpc[c] = "idle" /\ cpc' = [cpc EXCEPT ![c] = "assign"]
        /\ ~isShuttingDown /\ UNCHANGED firstAvailableThread /\ Renamed
    BY DEF RunNew, CallerGoto, Renamed, fields, sleep
  <1>4. /\ Linked(next, prev, firstAvailableThread, a, firstThreadInUse, u) /\ freed = {} /\ opc \in {"create", "up"}
        /\ \A x \in Worker : wpc[x] = "unborn" <=> ~In(x, a) /\ ~In(x, u)
        /\ \A x \in Worker : wpc[x] = "unborn" => prev[x] = NULL
        /\ \A x \in Worker : Working(x) => In(x, u)
        /\ \A x \in Worker : wpc[x] = "relist" => threadFunc[x] = NULL
        /\ \A d \in Caller, x \in Worker :
             Assigned(d, x) => In(x, u) /\ ~Working(x) /\ \A e \in Caller : Assigned(e, x) => e = d
    BY <1>2, UpLists
  <1>5. /\ next \in [Worker -> Worker \cup {NULL}] /\ prev \in [Worker -> Worker \cup {NULL}]
        /\ firstThreadInUse \in Worker \cup {NULL} /\ wpc \in [Worker -> WorkerPlace]
        /\ cpc \in [Caller -> CallerPlace] /\ handle \in [Caller -> Worker \cup {NULL}]
    BY DEF Base, TypeOK, PlaceInv
  <1>6. ~In(w, a) /\ ~In(w, u)
    BY <1>1, <1>4
  <1>7. /\ next' \in [Worker -> Worker \cup {NULL}] /\ prev' \in [Worker -> Worker \cup {NULL}]
        /\ \A x \in Worker : next'[x] = IF x = w THEN firstThreadInUse ELSE next[x]
        /\ \A x \in Worker : prev'[x] = IF x = w THEN NULL ELSE IF x = firstThreadInUse THEN w ELSE prev[x]
    <2>1. next' \in [Worker -> Worker \cup {NULL}] /\ \A x \in Worker : next'[x] = IF x = w THEN firstThreadInUse ELSE next[x]
      BY <1>1, <1>5
    <2>2. PICK h : h = SetField(prev, firstThreadInUse, w)
      OBVIOUS
    <2>3. FieldSet(h, prev, firstThreadInUse, w)
      BY <1>5, <2>2, SetFieldIs
    <2> QED
      BY <1>1, <2>1, <2>2, <2>3 DEF FieldSet
  <1>8. PICK r : r = <<w>> \o u
    OBVIOUS
  <1>9. Linked(next', prev', firstAvailableThread, a, w, r) /\ r \in Seq(Worker) /\ \A x : In(x, r) <=> x = w \/ In(x, u)
    <2>1. Inserted(next', prev', firstAvailableThread, a, w, u, r)
      <3>1. Linked(next, prev, firstAvailableThread, a, firstThreadInUse, u) /\ ~In(w, u) /\ ~In(w, a)
        BY <1>4, <1>6
      <3>2. InsertedAt(next, prev, w, firstThreadInUse, next', prev')
        BY <1>7 DEF InsertedAt
      <3> QED
        BY <1>8, <3>1, <3>2, Insert
    <2> QED
      BY <2>1 DEF Inserted
  <1>10. wpc' \in [Worker -> WorkerPlace] /\ wpc'[w] = "loop" /\ \A x \in Worker : x # w => wpc'[x] = wpc[x]
    BY <1>1, <1>5, WorkerMoved DEF WorkerPlace
  <1>101. cpc' \in [Caller -> CallerPlace] /\ cpc'[c] = "assign" /\ \A d \in Caller : d # c => cpc'[d] = cpc[d]
    BY <1>2, <1>5, CallerMoved DEF CallerPlace
  <1>102. handle' \in [Caller -> Worker \cup {NULL}] /\ handle'[c] = w /\ \A d \in Caller : d # c => handle'[d] = handle[d]
    BY <1>1, <1>5
  <1>11. ListInv(a, r)' /\ UseInv(a, r)'
    <2>1. Linked(next', prev', firstAvailableThread', a, firstThreadInUse', r)
      BY <1>1, <1>2, <1>9
    <2>2. opc' \notin {"join", "unlocked", "done"}
      BY <1>2, <1>4 DEF Renamed
    <2>3. \A x \in Worker : wpc'[x] = "unborn" <=> ~In(x, a) /\ ~In(x, r) /\ x \notin freed'
      BY <1>1, <1>2, <1>4, <1>9, <1>10 DEF Renamed
    <2>4. \A x \in Worker : wpc'[x] = "unborn" => prev'[x] = NULL
      <3>1. ASSUME NEW x \in Worker, wpc'[x] = "unborn" PROVE prev'[x] = NULL
        <4>1. x # w /\ wpc[x] = "unborn" /\ prev[x] = NULL /\ ~In(x, u)
          BY <1>4, <1>10, <3>1
        <4>2. x # firstThreadInUse
          BY <4>1, ChainElements DEF ListInv
        <4> QED
          BY <1>7, <4>1, <4>2
      <3> QED
        BY <3>1
    <2>5. \A x \in Worker : Working(x)' => Working(x)
      BY <1>2, <1>10 DEF Working, Renamed
    <2>6. \A x \in Worker : wpc'[x] = "relist" => threadFunc'[x] = NULL
      BY <1>2, <1>4, <1>10 DEF Renamed
    <2>7. \A d \in Caller, x \in Worker : Assigned(d, x)' <=> (d = c /\ x = w) \/ (d # c /\ Assigned(d, x))
      BY <1>101, <1>102 DEF Assigned
    <2>8. \A d \in Caller : ~Assigned(d, w)
      BY <1>4, <1>6
    <2>9. \A d \in Caller, x \in Worker :
            Assigned(d, x)' => In(x, r) /\ ~Working(x)' /\ \A e \in Caller : Assigned(e, x)' => e = d
      BY <1>4, <1>6, <1>9, <2>5, <2>7, <2>8
    <2> QED
      BY <1>4, <1>9, <2>1, <2>2, <2>3, <2>4, <2>5, <2>6, <2>9, Relinked
  <1>12. Base'
    <2>1. TypeOK'
      BY <1>1, <1>2, <1>7, <1>101, <1>102 DEF Base, TypeOK, Renamed
    <2>2. PlaceInv' /\ OwnerInv'
      BY <1>2, <1>4, <1>10, <1>101, <1>102 DEF Base, PlaceInv, OwnerInv, Renamed
    <2>3. StateInv'
      BY <1>1, <1>2, <1>10 DEF Base, StateInv, Renamed
    <2> QED
      BY <2>1, <2>2, <2>3 DEF Base
  <1>13. a \in Seq(Worker) /\ r \in Seq(Worker)
    BY <1>9 DEF Linked, ChainIs
  <1> QED
    BY <1>11, <1>12, <1>13 DEF Kept

\* threadPool_runThread takes the first available thread.
LEMMA RunAvailableStep ==
  ASSUME Base, NEW a, NEW u, ListInv(a, u), UseInv(a, u), UNCHANGED detached, NEW c \in Caller, RunAvailable(c)
  PROVE  \E b, v \in Seq(Worker) : Kept(b, v)
  <1>1. PICK w : /\ w = firstAvailableThread /\ w # NULL /\ firstAvailableThread' = next[w]
                 /\ prev' = [SetField(SetField(prev, next[w], NULL), firstThreadInUse, w) EXCEPT ![w] = NULL]
                 /\ next' = [next EXCEPT ![w] = firstThreadInUse]
                 /\ firstThreadInUse' = w /\ handle' = [handle EXCEPT ![c] = w]
    BY DEF RunAvailable, PutInUse
  <1>2. /\ cpc[c] = "idle" /\ cpc' = [cpc EXCEPT ![c] = "assign"]
        /\ ~isShuttingDown /\ UNCHANGED wpc /\ Renamed
    BY DEF RunAvailable, CallerGoto, Renamed, fields, sleep
  <1>4. /\ Linked(next, prev, firstAvailableThread, a, firstThreadInUse, u) /\ freed = {} /\ opc \in {"create", "up"}
        /\ \A x \in Worker : wpc[x] = "unborn" <=> ~In(x, a) /\ ~In(x, u)
        /\ \A x \in Worker : wpc[x] = "unborn" => prev[x] = NULL
        /\ \A x \in Worker : Working(x) => In(x, u)
        /\ \A x \in Worker : wpc[x] = "relist" => threadFunc[x] = NULL
        /\ \A d \in Caller, x \in Worker :
             Assigned(d, x) => In(x, u) /\ ~Working(x) /\ \A e \in Caller : Assigned(e, x) => e = d
    BY <1>2, UpLists
  <1>5. /\ next \in [Worker -> Worker \cup {NULL}] /\ prev \in [Worker -> Worker \cup {NULL}]
        /\ firstThreadInUse \in Worker \cup {NULL} /\ w \in Worker /\ next[w] \in Worker \cup {NULL}
        /\ cpc \in [Caller -> CallerPlace] /\ handle \in [Caller -> Worker \cup {NULL}]
    BY <1>1 DEF Base, TypeOK, PlaceInv
  <1>6. In(w, a) /\ ~In(w, u) /\ prev[w] = NULL
    <2>1. ChainIs(next, firstAvailableThread, a) /\ BackIs(prev, a) /\ \A x \in Worker : ~(In(x, a) /\ In(x, u))
      BY <1>4 DEF Linked
    <2>2. In(w, a) /\ Len(a) # 0 /\ 1 \in 1..Len(a) /\ w = a[1]
      BY <1>1, <1>5, <2>1, ChainElements
    <2> QED
      BY <1>5, <2>1, <2>2 DEF BackIs
  <1>7. /\ next' \in [Worker -> Worker \cup {NULL}] /\ prev' \in [Worker -> Worker \cup {NULL}]
        /\ \A x \in Worker : next'[x] = IF x = w THEN firstThreadInUse ELSE next[x]
        /\ \A x \in Worker : prev'[x] = IF x = w THEN NULL ELSE IF x = firstThreadInUse THEN w
                                        ELSE IF x = next[w] THEN NULL ELSE prev[x]
    <2>1. next' \in [Worker -> Worker \cup {NULL}] /\ \A x \in Worker : next'[x] = IF x = w THEN firstThreadInUse ELSE next[x]
      BY <1>1, <1>5
    <2>2. PICK h : h = SetField(prev, next[w], NULL)
      OBVIOUS
    <2>3. FieldSet(h, prev, next[w], NULL)
      BY <1>5, <2>2, SetFieldIs
    <2>4. PICK m : m = SetField(h, firstThreadInUse, w)
      OBVIOUS
    <2>5. FieldSet(m, h, firstThreadInUse, w)
      <3>1. h \in [Worker -> Worker \cup {NULL}]
        BY <2>3 DEF FieldSet
      <3> QED
        BY <1>5, <2>4, <3>1, SetFieldIs
    <2>6. prev' = [m EXCEPT ![w] = NULL]
      BY <1>1, <2>2, <2>4
    <2> QED
      BY <1>5, <2>1, <2>3, <2>5, <2>6 DEF FieldSet
  <1>8. PICK r : r = <<w>> \o u
    OBVIOUS
  <1>9. /\ r \in Seq(Worker) /\ \A x : In(x, r) <=> x = w \/ In(x, u)
        /\ \E b \in Seq(Worker) : Linked(next', prev', firstAvailableThread', b, w, r) /\ \A x : In(x, b) <=> In(x, a) /\ x # w
    <2>1. Transferred(next', prev', firstAvailableThread', a, w, u, r)
      <3>1. Linked(next, prev, firstAvailableThread, a, firstThreadInUse, u) /\ In(w, a)
        BY <1>4, <1>6
      <3>2. MovedTo(next, prev, w, firstThreadInUse, next', prev')
        BY <1>6, <1>7, Names DEF MovedTo
      <3>3. NewFirst(next, w, firstAvailableThread, firstAvailableThread')
        BY <1>1 DEF NewFirst
      <3> QED
        BY <1>5, <1>8, <3>1, <3>2, <3>3, Transfer
    <2> QED
      BY <2>1 DEF Transferred
  <1>10. PICK b \in Seq(Worker) : Linked(next', prev', firstAvailableThread', b, w, r) /\ \A x : In(x, b) <=> In(x, a) /\ x # w
    BY <1>9
  <1>101. cpc' \in [Caller -> CallerPlace] /\ cpc'[c] = "assign" /\ \A d \in Caller : d # c => cpc'[d] = cpc[d]
    BY <1>2, <1>5, CallerMoved DEF CallerPlace
  <1>102. handle' \in [Caller -> Worker \cup {NULL}] /\ handle'[c] = w /\ \A d \in Caller : d # c => handle'[d] = handle[d]
    BY <1>1, <1>5
  <1>11. ListInv(b, r)' /\ UseInv(b, r)'
    <2>1. Linked(next', prev', firstAvailableThread', b, firstThreadInUse', r)
      BY <1>1, <1>10
    <2>2. opc' \notin {"join", "unlocked", "done"}
      BY <1>2, <1>4 DEF Renamed
    <2>3. \A x \in Worker : wpc'[x] = "unborn" <=> ~In(x, b) /\ ~In(x, r) /\ x \notin freed'
      BY <1>2, <1>4, <1>6, <1>9, <1>10 DEF Renamed
    <2>4. \A x \in Worker : wpc'[x] = "unborn" => prev'[x] = NULL
      <3>1. ASSUME NEW x \in Worker, wpc'[x] = "unborn" PROVE prev'[x] = NULL
        <4>1. prev[x] = NULL /\ ~In(x, u)
          BY <1>2, <1>4, <3>1
        <4>2. x # firstThreadInUse
          BY <4>1, ChainElements DEF ListInv
        <4> QED
          BY <1>7, <4>1, <4>2
      <3> QED
        BY <3>1
    <2>5. \A x \in Worker : Working(x)' <=> Working(x)
      BY <1>2 DEF Working, Renamed
    <2>6. \A x \in Worker : wpc'[x] = "relist" => threadFunc'[x] = NULL
      BY <1>2, <1>4 DEF Renamed
    <2>7. \A d \in Caller, x \in Worker : Assigned(d, x)' <=> (d = c /\ x = w) \/ (d # c /\ Assigned(d, x))
      BY <1>5, <1>101, <1>102 DEF Assigned
    <2>8. ~Working(w) /\ \A d \in Caller : ~Assigned(d, w)
      BY <1>4, <1>5, <1>6
    <2>9. \A d \in Caller, x \in Worker :
            Assigned(d, x)' => In(x, r) /\ ~Working(x)' /\ \A e \in Caller : Assigned(e, x)' => e = d
      BY <1>4, <1>9, <2>5, <2>7, <2>8
    <2> QED
      BY <1>4, <1>9, <2>1, <2>2, <2>3, <2>4, <2>5, <2>6, <2>9, Relinked
  <1>12. Base'
    <2>1. TypeOK'
      BY <1>1, <1>2, <1>5, <1>7, <1>101, <1>102 DEF Base, TypeOK, Renamed
    <2>2. PlaceInv' /\ OwnerInv'
      BY <1>2, <1>4, <1>101, <1>102 DEF Base, PlaceInv, OwnerInv, Renamed
    <2>3. StateInv'
      BY <1>2 DEF Base, StateInv, Renamed
    <2> QED
      BY <2>1, <2>2, <2>3 DEF Base
  <1> QED
    BY <1>9, <1>10, <1>11, <1>12 DEF Kept

\* A thread goes from the list of threads in use, wherever it is there, to the front of
\* the available ones.
LEMMA LoopRelistUp ==
  ASSUME Base, NEW a, NEW u, ListInv(a, u), UseInv(a, u), UNCHANGED detached, NEW w \in Worker, LoopRelist(w),
         ~isShuttingDown
  PROVE  \E b, v \in Seq(Worker) : Kept(b, v)
  <1>1. /\ wpc[w] = "relist" /\ wpc' = [wpc EXCEPT ![w] = "test"]
        /\ firstThreadInUse' = IF firstThreadInUse = w THEN next[w] ELSE firstThreadInUse
        /\ next' = [SetField(next, prev[w], next[w]) EXCEPT ![w] = firstAvailableThread]
        /\ prev' = [SetField(SetField(prev, next[w], prev[w]), firstAvailableThread, w) EXCEPT ![w] = NULL]
        /\ firstAvailableThread' = w
    BY DEF LoopRelist, WorkerGoto
  <1>2. UNCHANGED <<cpc, handle>> /\ Renamed
    BY DEF LoopRelist, Renamed, fields, sleep, callers
  <1>4. /\ Linked(next, prev, firstThreadInUse, u, firstAvailableThread, a) /\ freed = {} /\ opc \in {"create", "up"}
        /\ \A x \in Worker : wpc[x] = "unborn" <=> ~In(x, a) /\ ~In(x, u)
        /\ \A x \in Worker : wpc[x] = "unborn" => prev[x] = NULL
        /\ \A x \in Worker : Working(x) => In(x, u)
        /\ \A x \in Worker : wpc[x] = "relist" => threadFunc[x] = NULL
        /\ \A d \in Caller, x \in Worker :
             Assigned(d, x) => In(x, u) /\ ~Working(x) /\ \A e \in Caller : Assigned(e, x) => e = d
    BY UpLists
  <1>5. /\ next \in [Worker -> Worker \cup {NULL}] /\ prev \in [Worker -> Worker \cup {NULL}]
        /\ firstThreadInUse \in Worker \cup {NULL} /\ firstAvailableThread \in Worker \cup {NULL}
        /\ next[w] \in Worker \cup {NULL} /\ prev[w] \in Worker \cup {NULL} /\ wpc \in [Worker -> WorkerPlace]
    BY DEF Base, TypeOK, PlaceInv
  <1>6. In(w, u) /\ Working(w) /\ threadFunc[w] = NULL
    BY <1>1, <1>4 DEF Working
  <1>7. /\ next' \in [Worker -> Worker \cup {NULL}] /\ prev' \in [Worker -> Worker \cup {NULL}]
        /\ \A x \in Worker : next'[x] = IF x = w THEN firstAvailableThread ELSE IF x = prev[w] THEN next[w] ELSE next[x]
        /\ \A x \in Worker : prev'[x] = IF x = w THEN NULL ELSE IF x = firstAvailableThread THEN w
                                        ELSE IF x = next[w] THEN prev[w] ELSE prev[x]
    <2>1. PICK n : n = SetField(next, prev[w], next[w])
      OBVIOUS
    <2>2. FieldSet(n, next, prev[w], next[w])
      BY <1>5, <2>1, SetFieldIs
    <2>3. /\ next' \in [Worker -> Worker \cup {NULL}]
          /\ \A x \in Worker : next'[x] = IF x = w THEN firstAvailableThread ELSE IF x = prev[w] THEN next[w] ELSE next[x]
      BY <1>1, <1>5, <2>1, <2>2 DEF FieldSet
    <2>4. PICK h : h = SetField(prev, next[w], prev[w])
      OBVIOUS
    <2>5. FieldSet(h, prev, next[w], prev[w])
      BY <1>5, <2>4, SetFieldIs
    <2>6. PICK m : m = SetField(h, firstAvailableThread, w)
      OBVIOUS
    <2>7. FieldSet(m, h, firstAvailableThread, w)
      <3>1. h \in [Worker -> Worker \cup {NULL}]
        BY <2>5 DEF FieldSet
      <3> QED
        BY <1>5, <2>6, <3>1, SetFieldIs
    <2>8. prev' = [m EXCEPT ![w] = NULL]
      BY <1>1, <2>4, <2>6
    <2>9. /\ prev' \in [Worker -> Worker \cup {NULL}]
          /\ \A x \in Worker : prev'[x] = IF x = w THEN NULL ELSE IF x = firstAvailableThread THEN w
                                          ELSE IF x = next[w] THEN prev[w] ELSE prev[x]
      BY <1>5, <2>5, <2>7, <2>8 DEF FieldSet
    <2> QED
      BY <2>3, <2>9
  <1>8. PICK r : r = <<w>> \o a
    OBVIOUS
  <1>9. /\ r \in Seq(Worker) /\ \A x : In(x, r) <=> x = w \/ In(x, a)
        /\ \E v \in Seq(Worker) : Linked(next', prev', firstThreadInUse', v, w, r) /\ \A x : In(x, v) <=> In(x, u) /\ x # w
    <2>1. Transferred(next', prev', firstThreadInUse', u, w, a, r)
      <3>1. Linked(next, prev, firstThreadInUse, u, firstAvailableThread, a) /\ In(w, u)
        BY <1>4, <1>6
      <3>2. MovedTo(next, prev, w, firstAvailableThread, next', prev')
        BY <1>7 DEF MovedTo
      <3>3. NewFirst(next, w, firstThreadInUse, firstThreadInUse')
        BY <1>1 DEF NewFirst
      <3> QED
        BY <1>8, <3>1, <3>2, <3>3, Transfer
    <2> QED
      BY <2>1 DEF Transferred
  <1>10. PICK v \in Seq(Worker) : Linked(next', prev', firstThreadInUse', v, w, r) /\ \A x : In(x, v) <=> In(x, u) /\ x # w
    BY <1>9
  <1>101. wpc' \in [Worker -> WorkerPlace] /\ wpc'[w] = "test" /\ \A x \in Worker : x # w => wpc'[x] = wpc[x]
    BY <1>1, <1>5, WorkerMoved DEF WorkerPlace
  <1>11. ListInv(r, v)' /\ UseInv(r, v)'
    <2>1. Linked(next', prev', firstAvailableThread', r, firstThreadInUse', v)
      BY <1>1, <1>10 DEF Linked
    <2>2. opc' \notin {"join", "unlocked", "done"}
      BY <1>2, <1>4 DEF Renamed
    <2>3. \A x \in Worker : wpc'[x] = "unborn" <=> ~In(x, r) /\ ~In(x, v) /\ x \notin freed'
      BY <1>1, <1>2, <1>4, <1>6, <1>9, <1>10, <1>101 DEF Renamed
    <2>4. \A x \in Worker : wpc'[x] = "unborn" => prev'[x] = NULL
      <3>1. ASSUME NEW x \in Worker, wpc'[x] = "unborn" PROVE prev'[x] = NULL
        <4>1. x # w /\ prev[x] = NULL /\ ~In(x, u) /\ ~In(x, a)
          BY <1>4, <1>101, <3>1
        <4>2. x # firstAvailableThread
          BY <4>1, ChainElements DEF ListInv
        <4>3. x # next[w]
          <5>1. PICK k \in 1..Len(u) : u[k] = w
            BY <1>6 DEF In
          <5>2. ChainIs(next, firstThreadInUse, u)
            BY DEF ListInv
          <5>3. next[w] = IF k = Len(u) THEN NULL ELSE u[k + 1]
            BY <5>1, <5>2 DEF ChainIs
          <5>4. Len(u) \in Nat /\ \A i \in 1..Len(u) : In(u[i], u)
            BY <5>2, ChainElements
          <5>5. k # Len(u) => k + 1 \in 1..Len(u)
            BY <5>4
          <5> QED
            BY <4>1, <5>3, <5>4, <5>5, Names
        <4> QED
          BY <1>7, <4>1, <4>2, <4>3
      <3> QED
        BY <3>1
    <2>5. ~Working(w)' /\ \A x \in Worker : x # w => (Working(x)' <=> Working(x))
      BY <1>2, <1>6, <1>101 DEF Working, Renamed
    <2>6. \A x \in Worker : wpc'[x] = "relist" => threadFunc'[x] = NULL
      BY <1>2, <1>4, <1>101 DEF Renamed
    <2>7. \A d \in Caller, x \in Worker : Assigned(d, x)' <=> Assigned(d, x)
      BY <1>2 DEF Assigned
    <2>8. \A x \in Worker : Working(x)' => In(x, v)
      BY <1>4, <1>10, <2>5
    <2>9. \A d \in Caller, x \in Worker :
            Assigned(d, x)' => In(x, v) /\ ~Working(x)' /\ \A e \in Caller : Assigned(e, x)' => e = d
      BY <1>4, <1>6, <1>10, <2>5, <2>7
    <2> QED
      BY <2>1, <2>2, <2>3, <2>4, <2>6, <2>8, <2>9, Relinked
  <1>12. Base'
    <2>1. TypeOK'
      BY <1>1, <1>2, <1>5, <1>7 DEF Base, TypeOK, Renamed
    <2>2. PlaceInv' /\ OwnerInv'
      BY <1>2, <1>4, <1>101 DEF Base, PlaceInv, OwnerInv, Renamed
    <2>3. StateInv'
      BY <1>1, <1>2, <1>101 DEF Base, StateInv, Renamed
    <2> QED
      BY <2>1, <2>2, <2>3 DEF Base
  <1> QED
    BY <1>9, <1>10, <1>11, <1>12 DEF Kept

\* While the pool is shut down the thread stays in the list it was in.
LEMMA LoopRelistDown ==
  ASSUME Base, NEW a, NEW u, ListInv(a, u), UseInv(a, u), UNCHANGED detached, NEW w \in Worker, LoopRelist(w),
         isShuttingDown
  PROVE  Kept(a, u)
  <1>1. /\ wpc[w] = "relist" /\ wpc' = [wpc EXCEPT ![w] = "test"]
        /\ UNCHANGED <<firstAvailableThread, firstThreadInUse, next, prev, cpc, handle>> /\ Renamed
    BY DEF LoopRelist, WorkerGoto, Renamed, lists, fields, sleep, callers
  <1>2. wpc' \in [Worker -> WorkerPlace] /\ wpc'[w] = "test" /\ \A x \in Worker : x # w => wpc'[x] = wpc[x]
    BY <1>1, WorkerMoved DEF WorkerPlace, Base, PlaceInv
  <1>3. ListInv(a, u)'
    BY <1>1, <1>2, SameLists DEF Renamed
  <1>4. UseInv(a, u)'
    BY <1>1 DEF UseInv, Renamed
  <1>5. TypeOK' /\ PlaceInv'
    BY <1>1, <1>2 DEF Base, TypeOK, PlaceInv, Renamed
  <1>6. OwnerInv' /\ StateInv'
    BY <1>1, <1>2 DEF Base, OwnerInv, StateInv, Renamed
  <1> QED
    BY <1>3, <1>4, <1>5, <1>6 DEF Kept, Base

-----------------------------------------------------------------------------
(* threadPool_create and threadPool_destroy *)

\* A step of the owner that changes neither the lists nor the threads.
LEMMA OwnerFrame ==
  ASSUME Base, NEW a, NEW u, ListInv(a, u), UseInv(a, u),
         NEW to \in OwnerPlace, opc' = to, isShuttingDown' = (to \notin {"create", "up"}), isShuttingDown => isShuttingDown',
         to = "join" => firstAvailableThread # NULL,
         to \in {"unlocked", "done"} => (firstAvailableThread = NULL /\ firstThreadInUse = NULL) \/ opc = "unlocked",
         threadListMutex' \in {NULL, "owner"}, startWaiting' \subseteq startWaiting,
         UNCHANGED <<firstAvailableThread, firstThreadInUse, next, prev, detached, threadFunc, threadFuncResult, state,
                     joinWaiting, wpc, cpc, handle, runs, got, freed>>
  PROVE  Kept(a, u)
  <1>1. ListInv(a, u)'
    <2>1. (a = << >> <=> firstAvailableThread = NULL) /\ (u = << >> <=> firstThreadInUse = NULL)
      BY ChainElements DEF ListInv
    <2> QED
      BY <2>1 DEF ListInv, ChainIs
  <1>2. UseInv(a, u)'
    <2>1. CASE isShuttingDown'
      BY <2>1 DEF UseInv
    <2>2. CASE ~isShuttingDown'
      <3>1. UNCHANGED <<isShuttingDown, prev>>
        BY <2>2 DEF Base, TypeOK
      <3> QED
        BY <3>1, SameUse DEF Working, Assigned
    <2> QED
      BY <2>1, <2>2
  <1>3. TypeOK'
    BY DEF Base, TypeOK
  <1>4. PlaceInv' /\ OwnerInv' /\ StateInv'
    BY DEF Base, PlaceInv, OwnerInv, StateInv
  <1> QED
    BY <1>1, <1>2, <1>3, <1>4 DEF Kept, Base

\* The steps of the owner that change neither the lists nor the threads.
LEMMA OwnerSteps ==
  ASSUME Base, NEW a, NEW u, ListInv(a, u), UseInv(a, u), UNCHANGED detached,
         CreateReturn \/ DestroyLock \/ DestroySignal \/ DestroyUnlock \/ DestroyFree
  PROVE  Kept(a, u)
  <1>0. isShuttingDown \in BOOLEAN /\ (isShuttingDown <=> opc \notin {"create", "up"}) /\ threadListMutex \in {NULL, "owner"}
    BY DEF Base, TypeOK, PlaceInv
  <1>1. CASE CreateReturn
    <2>1. /\ opc = "create" /\ opc' = "up"
          /\ UNCHANGED <<firstAvailableThread, firstThreadInUse, next, prev, isShuttingDown, threadListMutex,
                         threadFunc, threadFuncResult, state, startWaiting, joinWaiting, wpc, cpc, handle, runs, got, freed>>
      BY <1>1 DEF CreateReturn, OwnerGoto, lists, fields, sleep, callers
    <2> QED
      BY <1>0, <2>1, OwnerFrame DEF OwnerPlace
  <1>2. CASE DestroyLock
    <2>1. /\ opc = "up" /\ opc' = "available" /\ isShuttingDown' = TRUE /\ threadListMutex' = "owner"
          /\ UNCHANGED <<firstAvailableThread, firstThreadInUse, next, prev,
                         threadFunc, threadFuncResult, state, startWaiting, joinWaiting, wpc, cpc, handle, runs, got, freed>>
      BY <1>2 DEF DestroyLock, OwnerGoto, lists, fields, sleep, callers
    <2> QED
      BY <1>0, <2>1, OwnerFrame DEF OwnerPlace
  <1>3. CASE DestroySignal
    <2>1. /\ opc = "available" /\ opc' = "join" /\ firstAvailableThread # NULL
          /\ startWaiting' = startWaiting \ {firstAvailableThread}
          /\ UNCHANGED <<firstAvailableThread, firstThreadInUse, next, prev, isShuttingDown, threadListMutex,
                         threadFunc, threadFuncResult, state, joinWaiting, wpc, cpc, handle, runs, got, freed>>
      BY <1>3 DEF DestroySignal, OwnerGoto, lists, fields, sleep, callers
    <2> QED
      BY <1>0, <2>1, OwnerFrame DEF OwnerPlace
  <1>4. CASE DestroyUnlock
    <2>1. /\ opc = "available" /\ opc' = "unlocked" /\ firstAvailableThread = NULL /\ firstThreadInUse = NULL
          /\ threadListMutex' = NULL
          /\ UNCHANGED <<firstAvailableThread, firstThreadInUse, next, prev, isShuttingDown,
                         threadFunc, threadFuncResult, state, startWaiting, joinWaiting, wpc, cpc, handle, runs, got, freed>>
      BY <1>4 DEF DestroyUnlock, OwnerGoto, lists, fields, sleep, callers
    <2> QED
      BY <1>0, <2>1, OwnerFrame DEF OwnerPlace
  <1>5. CASE DestroyFree
    <2>1. /\ opc = "unlocked" /\ opc' = "done"
          /\ UNCHANGED <<firstAvailableThread, firstThreadInUse, next, prev, isShuttingDown, threadListMutex,
                         threadFunc, threadFuncResult, state, startWaiting, joinWaiting, wpc, cpc, handle, runs, got, freed>>
      BY <1>5 DEF DestroyFree, OwnerGoto, lists, fields, sleep, callers
    <2> QED
      BY <1>0, <2>1, OwnerFrame DEF OwnerPlace
  <1> QED
    BY <1>1, <1>2, <1>3, <1>4, <1>5

\* A wait that ends by itself changes only who sleeps.
LEMMA SpuriousWakeupStep ==
  ASSUME Base, NEW a, NEW u, ListInv(a, u), UseInv(a, u), UNCHANGED detached, SpuriousWakeup
  PROVE  Kept(a, u)
  <1>1. UNCHANGED <<firstAvailableThread, firstThreadInUse, next, prev, isShuttingDown, threadListMutex, threadFunc,
                    threadFuncResult, state, wpc, cpc, handle, runs, got, opc, freed>>
    BY DEF SpuriousWakeup, lists, fields, callers
  <1>2. startWaiting' \subseteq Worker /\ joinWaiting' \in [Worker -> SUBSET (Worker \cup Caller)]
    <2>1. startWaiting \subseteq Worker /\ joinWaiting \in [Worker -> SUBSET (Worker \cup Caller)]
      BY DEF Base, TypeOK
    <2>2. CASE \E w \in startWaiting : startWaiting' = startWaiting \ {w} /\ UNCHANGED joinWaiting
      BY <2>1, <2>2
    <2>3. CASE \E w \in Worker : \E t \in joinWaiting[w] :
                 joinWaiting' = [joinWaiting EXCEPT ![w] = @ \ {t}] /\ UNCHANGED startWaiting
      BY <2>1, <2>3
    <2> QED
      BY <2>2, <2>3 DEF SpuriousWakeup
  <1>3. TypeOK'
    BY <1>1, <1>2 DEF Base, TypeOK
  <1>4. PlaceInv' /\ OwnerInv' /\ StateInv'
    BY <1>1 DEF Base, PlaceInv, OwnerInv, StateInv
  <1>5. ListInv(a, u)'
    BY <1>1, SameLists
  <1>6. UseInv(a, u)'
    BY <1>1, SameUse DEF Working, Assigned
  <1> QED
    BY <1>3, <1>4, <1>5, <1>6 DEF Kept, Base

\* The first thread is taken off a list, whose pointers stay as they are.
LEMMA ChainTail ==
  ASSUME NEW f, NEW x, NEW s, ChainIs(f, x, s), x # NULL, NEW r, r = Without(s, 1)
  PROVE  TakenOut(f, f[x], x, s, r)
  <1>1. Len(s) # 0 /\ 1 \in 1..Len(s) /\ x = s[1]
    BY ChainElements
  <1>2. SkipOne(f, f, s, 1)
    BY DEF SkipOne
  <1>3. NewFirst(f, x, x, f[x])
    BY DEF NewFirst
  <1> QED
    BY <1>1, <1>2, <1>3, ChainRemove

\* A joined thread is off its list, and freed.
LEMMA JoinedFreed ==
  ASSUME Base, NEW a, NEW u, NEW b, NEW v, ListInv(a, u), UNCHANGED detached, isShuttingDown, NEW w \in Worker, wpc[w] = "exit",
         ChainIs(next, firstAvailableThread', b), ChainIs(next, firstThreadInUse', v),
         \A x \in Worker : In(x, b) \/ In(x, v) <=> (In(x, a) \/ In(x, u)) /\ x # w,
         \A x \in Worker : (In(x, b) => In(x, a)) /\ (In(x, v) => In(x, u)),
         {firstAvailableThread', firstThreadInUse'} \subseteq Worker \cup {NULL},
         freed' = freed \cup {w}, opc' = "available",
         UNCHANGED <<next, prev, isShuttingDown, threadListMutex, threadFunc, threadFuncResult, state, startWaiting,
                     joinWaiting, wpc, cpc, handle, runs, got>>
  PROVE  Kept(b, v)
  <1>1. \A x \in Worker : ~(In(x, a) /\ In(x, u))
    BY DEF ListInv
  <1>2. \A x \in Worker : wpc[x] = "unborn" <=> ~In(x, a) /\ ~In(x, u) /\ x \notin freed
    BY DEF ListInv
  <1>3. \A x \in Worker : wpc'[x] = "unborn" <=> ~In(x, b) /\ ~In(x, v) /\ x \notin freed'
    BY <1>2
  <1>4. ListInv(b, v)'
    BY <1>1, <1>3 DEF ListInv
  <1>5. UseInv(b, v)'
    BY DEF UseInv
  <1>6. TypeOK'
    BY DEF Base, TypeOK
  <1>7. PlaceInv' /\ StateInv'
    BY DEF Base, PlaceInv, StateInv, OwnerPlace
  <1>8. OwnerInv'
    BY DEF Base, OwnerInv
  <1> QED
    BY <1>4, <1>5, <1>6, <1>7, <1>8 DEF Kept, Base

\* threadPool_destroy frees the first available thread, once it has ended.
LEMMA DestroyJoinAvailableStep ==
  ASSUME Base, NEW a, NEW u, ListInv(a, u), UNCHANGED detached, DestroyJoinAvailable
  PROVE  \E b, v \in Seq(Worker) : Kept(b, v)
  <1>1. /\ opc = "join" /\ opc' = "available" /\ wpc[firstAvailableThread] = "exit"
        /\ freed' = freed \cup {firstAvailableThread} /\ firstAvailableThread' = next[firstAvailableThread]
        /\ UNCHANGED <<firstThreadInUse, next, prev, isShuttingDown, threadListMutex, threadFunc, threadFuncResult, state,
                       startWaiting, joinWaiting, wpc, cpc, handle, runs, got>>
    BY DEF DestroyJoinAvailable, OwnerGoto, fields, sleep, callers
  <1>2. ChainIs(next, firstAvailableThread, a) /\ ChainIs(next, firstThreadInUse, u) /\ a # << >>
        /\ \A x \in Worker : ~(In(x, a) /\ In(x, u))
    BY <1>1 DEF ListInv
  <1>3. firstAvailableThread # NULL /\ firstAvailableThread \in Worker /\ u \in Seq(Worker)
    BY <1>2, ChainElements DEF Base, TypeOK
  <1>4. PICK b : b = Without(a, 1)
    OBVIOUS
  <1>5. TakenOut(next, next[firstAvailableThread], firstAvailableThread, a, b)
    BY <1>2, <1>3, <1>4, ChainTail
  <1>6. ChainIs(next, firstAvailableThread', b) /\ \A x : In(x, b) <=> In(x, a) /\ x # firstAvailableThread
    BY <1>1, <1>5 DEF TakenOut
  <1>7. In(firstAvailableThread, a)
    BY <1>2, <1>3, ChainElements
  <1>8. isShuttingDown /\ {firstAvailableThread', firstThreadInUse'} \subseteq Worker \cup {NULL}
    BY <1>1, <1>3 DEF Base, PlaceInv, TypeOK
  <1>9. \A x \in Worker : In(x, b) \/ In(x, u) <=> (In(x, a) \/ In(x, u)) /\ x # firstAvailableThread
    BY <1>2, <1>3, <1>6, <1>7
  <1>10. Kept(b, u)
    BY <1>1, <1>2, <1>3, <1>6, <1>8, <1>9, JoinedFreed
  <1> QED
    BY <1>3, <1>6, <1>10 DEF ChainIs

\* The same for the first thread in use.
LEMMA DestroyJoinInUseStep ==
  ASSUME Base, NEW a, NEW u, ListInv(a, u), UNCHANGED detached, DestroyJoinInUse
  PROVE  \E b, v \in Seq(Worker) : Kept(b, v)
  <1>1. /\ opc = "available" /\ opc' = "available" /\ wpc[firstThreadInUse] = "exit" /\ firstThreadInUse # NULL
        /\ freed' = freed \cup {firstThreadInUse} /\ firstThreadInUse' = next[firstThreadInUse]
        /\ UNCHANGED <<firstAvailableThread, next, prev, isShuttingDown, threadListMutex, threadFunc, threadFuncResult, state,
                       startWaiting, joinWaiting, wpc, cpc, handle, runs, got>>
    BY DEF DestroyJoinInUse, fields, sleep, callers
  <1>2. ChainIs(next, firstAvailableThread, a) /\ ChainIs(next, firstThreadInUse, u)
        /\ \A x \in Worker : ~(In(x, a) /\ In(x, u))
    BY DEF ListInv
  <1>3. firstThreadInUse \in Worker /\ a \in Seq(Worker)
    BY <1>1, <1>2 DEF Base, TypeOK, ChainIs
  <1>4. PICK v : v = Without(u, 1)
    OBVIOUS
  <1>5. TakenOut(next, next[firstThreadInUse], firstThreadInUse, u, v)
    BY <1>1, <1>2, <1>4, ChainTail
  <1>6. ChainIs(next, firstThreadInUse', v) /\ \A x : In(x, v) <=> In(x, u) /\ x # firstThreadInUse
    BY <1>1, <1>5 DEF TakenOut
  <1>7. In(firstThreadInUse, u)
    BY <1>2, <1>3, ChainElements
  <1>8. isShuttingDown /\ {firstAvailableThread', firstThreadInUse'} \subseteq Worker \cup {NULL}
    BY <1>1, <1>3 DEF Base, PlaceInv, TypeOK
  <1>9. \A x \in Worker : In(x, a) \/ In(x, v) <=> (In(x, a) \/ In(x, u)) /\ x # firstThreadInUse
    BY <1>2, <1>3, <1>6, <1>7
  <1>10. Kept(a, v)
    BY <1>1, <1>2, <1>3, <1>6, <1>8, <1>9, JoinedFreed
  <1> QED
    BY <1>3, <1>6, <1>10 DEF ChainIs

-----------------------------------------------------------------------------
(* The invariant and what follows from it *)

\* Before the first thread is made both lists are empty.
LEMMA InitInv == Init => Inv
  <1> SUFFICES ASSUME Init PROVE Inv
    OBVIOUS
  <1>1. Base
    BY ThreadPoolAssumption DEF Init, Base, TypeOK, PlaceInv, OwnerInv, StateInv, WorkerPlace, CallerPlace, OwnerPlace, JoinState
  <1>2. \A w : ~In(w, << >>)
    BY DEF In
  <1>3. << >> \in Seq(Worker) /\ Len(<< >>) = 0
    OBVIOUS
  <1>4. ChainIs(next, NULL, << >>) /\ BackIs(prev, << >>)
    BY <1>3 DEF ChainIs, BackIs
  <1>5. ListInv(<< >>, << >>)
    BY <1>2, <1>4 DEF ListInv, Init
  <1>6. UseInv(<< >>, << >>)
    BY <1>2, <1>4 DEF UseInv, Init, Working, Assigned
  <1> QED
    BY <1>1, <1>3, <1>5, <1>6 DEF Inv

\* Every step of a caller keeps the invariant.
LEMMA CallerStep ==
  ASSUME Base, NEW a \in Seq(Worker), NEW u \in Seq(Worker), ListInv(a, u), UseInv(a, u), UNCHANGED detached,
         NEW c \in Caller, Run(c) \/ RunAssign(c) \/ Join(c) \/ CallerNext(c)
  PROVE  \E b, v \in Seq(Worker) : Kept(b, v)
  <1>1. CASE RunAvailable(c)
    BY <1>1, RunAvailableStep
  <1>2. CASE RunNew(c)
    BY <1>2, RunNewStep
  <1>3. CASE RunFails(c)
    BY <1>3, RunFailsStep
  <1>4. CASE RunAssign(c)
    BY <1>4, RunAssignStep
  <1>5. CASE JoinWait(c)
    BY <1>5, JoinWaitStep
  <1>6. CASE JoinRefused(c)
    BY <1>6, JoinRefusedStep
  <1>7. CASE JoinFinished(c)
    BY <1>7, JoinFinishedStep
  <1>8. CASE JoinWoken(c)
    BY <1>8, JoinWokenStep
  <1>9. CASE CallerNext(c)
    BY <1>9, CallerNextStep
  <1> QED
    BY <1>1, <1>2, <1>3, <1>4, <1>5, <1>6, <1>7, <1>8, <1>9 DEF Run, Join

\* Every step of a thread's main loop keeps the invariant.
LEMMA WorkerStep ==
  ASSUME Base, NEW a \in Seq(Worker), NEW u \in Seq(Worker), ListInv(a, u), UseInv(a, u), UNCHANGED detached,
         NEW w \in Worker, MainLoop(w)
  PROVE  \E b, v \in Seq(Worker) : Kept(b, v)
  <1>1. CASE LoopStart(w)
    BY <1>1, LoopStartStep
  <1>2. CASE LoopWoken(w)
    BY <1>2, LoopWokenStep
  <1>3. CASE LoopTestShutdown(w)
    BY <1>3, LoopTestShutdownStep
  <1>4. CASE LoopCall(w)
    BY <1>4, LoopCallStep
  <1>5. CASE LoopFunctionReturns(w)
    BY <1>5, LoopFunctionReturnsStep
  <1>6. CASE LoopFinish(w)
    BY <1>6, LoopFinishStep
  <1>7. CASE LoopJoined(w)
    BY <1>7, LoopJoinedStep
  <1>8. CASE LoopCleanup(w)
    BY <1>8, LoopCleanupStep
  <1>9. CASE LoopTest(w)
    BY <1>9, LoopTestStep
  <1>10. CASE LoopRelist(w) /\ ~isShuttingDown
    BY <1>10, LoopRelistUp
  <1>11. CASE LoopRelist(w) /\ isShuttingDown
    BY <1>11, LoopRelistDown
  <1> QED
    BY <1>1, <1>2, <1>3, <1>4, <1>5, <1>6, <1>7, <1>8, <1>9, <1>10, <1>11 DEF MainLoop

\* Every step of the owner keeps the invariant.
LEMMA OwnerStep ==
  ASSUME Base, NEW a \in Seq(Worker), NEW u \in Seq(Worker), ListInv(a, u), UseInv(a, u), UNCHANGED detached,
         CreateThread \/ CreateReturn \/ DestroyLock \/ Destroying
  PROVE  \E b, v \in Seq(Worker) : Kept(b, v)
  <1>1. CASE CreateThread
    BY <1>1, CreateThreadStep
  <1>2. CASE CreateReturn \/ DestroyLock \/ DestroySignal \/ DestroyUnlock \/ DestroyFree
    BY <1>2, OwnerSteps
  <1>3. CASE DestroyJoinAvailable
    BY <1>3, DestroyJoinAvailableStep
  <1>4. CASE DestroyJoinInUse
    BY <1>4, DestroyJoinInUseStep
  <1> QED
    BY <1>1, <1>2, <1>3, <1>4 DEF Destroying

\* Every step keeps the invariant.
LEMMA NextInv == Inv /\ [Next]_vars => Inv'
  <1> SUFFICES ASSUME Inv, [Next]_vars PROVE Inv'
    OBVIOUS
  <1>1. PICK a \in Seq(Worker), u \in Seq(Worker) : ListInv(a, u) /\ UseInv(a, u)
    BY DEF Inv
  <1>2. Base
    BY DEF Inv
  <1>3. \E b, v \in Seq(Worker) : Kept(b, v)
    <2>1. CASE UNCHANGED vars
      <3>1. Kept(a, u)
        BY <1>1, <1>2, <2>1, AllSame DEF vars
      <3> QED
        BY <3>1
    <2>2. CASE Next
      <3>0. UNCHANGED detached
        BY <2>2 DEF Next, Alive
      <3>1. CASE CreateThread \/ CreateReturn \/ DestroyLock \/ Destroying
        BY <1>1, <1>2, <3>0, <3>1, OwnerStep
      <3>2. ASSUME NEW c \in Caller, Run(c) \/ RunAssign(c) \/ Join(c) \/ CallerNext(c)
            PROVE  \E b, v \in Seq(Worker) : Kept(b, v)
        BY <1>1, <1>2, <3>0, <3>2, CallerStep
      <3>3. ASSUME NEW w \in Worker, MainLoop(w)
            PROVE  \E b, v \in Seq(Worker) : Kept(b, v)
        BY <1>1, <1>2, <3>0, <3>3, WorkerStep
      <3>4. CASE SpuriousWakeup
        <4>1. Kept(a, u)
          BY <1>1, <1>2, <3>0, <3>4, SpuriousWakeupStep
        <4> QED
          BY <4>1
      <3> QED
        BY <2>2, <3>1, <3>2, <3>3, <3>4 DEF Next
    <2> QED
      BY <2>1, <2>2
  <1>4. PICK b \in Seq(Worker), v \in Seq(Worker) : Kept(b, v)
    BY <1>3
  <1>5. Base' /\ ListInv(b, v)' /\ UseInv(b, v)'
    BY <1>4 DEF Kept
  <1> QED
    BY <1>5 DEF Inv

\* The invariant holds in every behaviour, with spurious wakeups and whenever the pool is destroyed.
THEOREM Invariance == Spec => []Inv
  BY InitInv, NextInv, PTL DEF Spec

\* The lists are what the invariant says, so the properties of the lists hold.
LEMMA InvSound == Inv => PoolSound
  <1> SUFFICES ASSUME Inv PROVE PoolSound
    OBVIOUS
  <1>1. PICK a \in Seq(Worker), u \in Seq(Worker) : ListInv(a, u) /\ UseInv(a, u)
    BY DEF Inv
  <1>2. TypeOK /\ PlaceInv /\ OwnerInv /\ StateInv
    BY DEF Inv, Base
  <1>3. ChainIs(next, firstAvailableThread, a) /\ ChainIs(next, firstThreadInUse, u)
    BY <1>1 DEF ListInv
  <1>4. /\ \A w : w \in Members(firstAvailableThread) <=> w \in Worker /\ In(w, a)
        /\ ThreadAt(firstAvailableThread, Cardinality(Worker) + 1) = NULL
    BY <1>3, MembersAre
  <1>5. /\ \A w : w \in Members(firstThreadInUse) <=> w \in Worker /\ In(w, u)
        /\ ThreadAt(firstThreadInUse, Cardinality(Worker) + 1) = NULL
    BY <1>3, MembersAre
  <1>6. ASSUME NEW x, NEW s, ChainIs(next, x, s), BackIs(prev, s), NEW w \in Worker, In(w, s)
        PROVE  (x # NULL => prev[x] = NULL) /\ (next[w] # NULL => prev[next[w]] = w)
    <2>1. /\ Len(s) \in Nat /\ (Len(s) # 0 => 1 \in 1..Len(s) /\ x = s[1])
          /\ (s = << >> <=> x = NULL) /\ (s = << >> <=> Len(s) = 0)
      BY <1>6, ChainElements
    <2>2. x # NULL => prev[x] = NULL
      BY <1>6, <2>1 DEF BackIs
    <2>3. PICK k \in 1..Len(s) : s[k] = w
      BY <1>6 DEF In
    <2>4. next[w] = IF k = Len(s) THEN NULL ELSE s[k + 1]
      BY <1>6, <2>3 DEF ChainIs
    <2>5. CASE k = Len(s)
      BY <2>2, <2>4, <2>5
    <2>6. CASE k # Len(s)
      <3>1. k + 1 \in 1..Len(s) /\ k + 1 # 1 /\ (k + 1) - 1 = k
        BY <2>1, <2>6
      <3>2. prev[s[k + 1]] = s[k]
        BY <1>6, <3>1 DEF BackIs
      <3> QED
        BY <2>2, <2>3, <2>4, <2>6, <3>2
    <2> QED
      BY <2>5, <2>6
  <1>7. ASSUME NEW x, NEW s, ChainIs(next, x, s), BackIs(prev, s)
        PROVE  x # NULL => prev[x] = NULL
    <2>1. /\ Len(s) \in Nat /\ (Len(s) # 0 => 1 \in 1..Len(s) /\ x = s[1])
          /\ (s = << >> <=> x = NULL) /\ (s = << >> <=> Len(s) = 0)
      BY <1>7, ChainElements
    <2> QED
      BY <1>7, <2>1 DEF BackIs
  <1>8. ListsConsistent
    <2>1. ASSUME ~isShuttingDown
          PROVE  /\ WellLinked(firstAvailableThread) /\ WellLinked(firstThreadInUse)
                 /\ Members(firstAvailableThread) \cap Members(firstThreadInUse) = {}
                 /\ Members(firstAvailableThread) \cup Members(firstThreadInUse) = Worker \ Unborn
      <3>1. BackIs(prev, a) /\ BackIs(prev, u)
        BY <1>1, <2>1 DEF UseInv
      <3>2. WellLinked(firstAvailableThread)
        BY <1>3, <1>4, <1>6, <1>7, <3>1 DEF WellLinked
      <3>3. WellLinked(firstThreadInUse)
        BY <1>3, <1>5, <1>6, <1>7, <3>1 DEF WellLinked
      <3>4. Members(firstAvailableThread) \cap Members(firstThreadInUse) = {}
        BY <1>1, <1>4, <1>5 DEF ListInv
      <3>5. freed = {}
        BY <1>2, <2>1 DEF OwnerInv
      <3>6. Members(firstAvailableThread) \cup Members(firstThreadInUse) = Worker \ Unborn
        BY <1>1, <1>4, <1>5, <3>5 DEF ListInv, Unborn
      <3> QED
        BY <3>2, <3>3, <3>4, <3>6
    <2> QED
      BY <1>2, <2>1 DEF ListsConsistent
  <1>9. MainLoopAssertsHold
    <2>1. ASSUME NEW w \in Worker, wpc[w] = "call" PROVE state[w] \in {"RUNNING_UNJOINED", "RUNNING_JOINED"}
      BY <1>2, <2>1 DEF StateInv
    <2>2. ASSUME NEW w \in Worker, wpc[w] = "relist", ~isShuttingDown PROVE firstThreadInUse # NULL
      <3>1. In(w, u)
        BY <1>1, <2>2 DEF UseInv, Working
      <3>2. u # << >>
        BY <1>1, <3>1 DEF In
      <3> QED
        BY <1>3, <3>2, ChainElements
    <2> QED
      BY <2>1, <2>2 DEF MainLoopAssertsHold
  <1> QED
    BY <1>8, <1>9 DEF PoolSound

\* threadpool.c keeps its two lists consistent, whatever order callers and threads insert
\* and remove in, and the asserts of the main loop hold.
THEOREM Sound == Spec => []PoolSound
  BY Invariance, InvSound, PTL

\* Once threadPool_destroy has let go of threadListMutex both lists are empty for good.
LEMMA InvFreed == Inv => PoolFreedAfterThreads
  <1> SUFFICES ASSUME Inv, opc \in {"unlocked", "done"}, NEW w \in Worker, wpc[w] # "unborn"
               PROVE  w \in freed /\ wpc[w] = "exit"
    BY DEF PoolFreedAfterThreads, Unborn
  <1>1. PICK a \in Seq(Worker), u \in Seq(Worker) : ListInv(a, u) /\ UseInv(a, u)
    BY DEF Inv
  <1>2. a = << >> /\ u = << >>
    BY <1>1 DEF ListInv
  <1>3. ~In(w, a) /\ ~In(w, u)
    BY <1>2 DEF In
  <1>4. w \in freed
    BY <1>1, <1>3 DEF ListInv
  <1> QED
    BY <1>4 DEF Inv, Base, OwnerInv

\* threadPool_destroy frees the pool only when every thread has ended and is freed, and
\* no caller that waited for the mutex starts another one.
THEOREM FreedAfterThreads == Spec => []PoolFreedAfterThreads
  BY Invariance, InvFreed, PTL

-----------------------------------------------------------------------------
(* What a thread and the caller it works for know of each other *)

\* Condition waits end by a signal only, and the pool is not destroyed while it is used.
Orderly == ~Spurious /\ DestroyWhen # "any"

Before == {"test", "loop", "sleep", "awake", "call"}
Serving == Before \cup {"run", "finish", "joinSleep"}

\* The join state of a thread that nobody waits for.
Quiet(w) == state[w] = "RUNNING_UNJOINED" /\ joinWaiting[w] = {}

\* w has the function of c and has not returned from it, or not told so yet.
Running(w, c) ==
  /\ handle[c] = w /\ got[c] = NULL
  /\ \/ Quiet(w) /\ (cpc[c] = "ran" \/ (detached /\ cpc[c] = "refused"))
     \/ ~detached /\ cpc[c] = "joinSleep" /\ state[w] = "RUNNING_JOINED" /\ joinWaiting[w] = {c}

\* w sleeps until c has fetched the result.
Finished(w, c) ==
  /\ handle[c] = w /\ got[c] = NULL /\ runs[c] = 1 /\ joinWaiting[w] = {w}
  /\ \/ cpc[c] = "ran" /\ state[w] = "FINISHED_UNJOINED"
     \/ cpc[c] = "joinSleep" /\ state[w] = "FINISHED_JOINED"

Collected(w) == state[w] = "COMPLETE" /\ joinWaiting[w] = {}

\* A thread that has the function of c.
Serves(w, c) ==
  /\ wpc[w] # "relist"
  /\ wpc[w] \in Before => Running(w, c) /\ runs[c] = 0
  /\ wpc[w] = "run" => Running(w, c) /\ runs[c] = 1
  /\ wpc[w] = "finish" => Running(w, c) /\ runs[c] = 1 /\ ~detached /\ threadFuncResult[w] = c
  /\ wpc[w] = "joinSleep" => ~detached /\ threadFuncResult[w] = c /\ (Finished(w, c) \/ Collected(w))
  /\ wpc[w] = "cleanup" => Quiet(w)

\* A thread that has none: it sleeps until it is signalled, or is on the way there.
Idle(w) ==
  /\ Quiet(w) /\ wpc[w] \notin {"call", "run", "finish", "joinSleep", "cleanup"}
  /\ ~isShuttingDown => wpc[w] # "awake" /\ (wpc[w] = "sleep" => w \in startWaiting)

WorkerInv(w) ==
  /\ threadFunc[w] = NULL => Idle(w)
  /\ \A c \in Caller : threadFunc[w] = c => Serves(w, c)

\* A caller that has to join its thread.
Joining(c) == cpc[c] \in {"ran", "joinSleep"} /\ ~detached

CallerInv(c) ==
  /\ runs[c] \in {0, 1}
  /\ cpc[c] \in {"idle", "failed", "assign"} => runs[c] = 0 /\ got[c] = NULL
  /\ cpc[c] = "joined" => runs[c] = 1 /\ got[c] = c
  /\ cpc[c] = "refused" => detached
  /\ cpc[c] = "joinSleep" => ~detached
  /\ Joining(c) => \E w \in Worker : handle[c] = w /\ threadFunc[w] = c /\ state[w] # "COMPLETE" /\ wpc[w] \in Serving

\* When the pool is shut down, the callers are through with it.
ShutdownInv == isShuttingDown => DestroyWhen = "idle" /\ \A c \in Caller : cpc[c] = "idle"

TaskInv ==
  /\ \A w \in Worker : WorkerInv(w)
  /\ \A c \in Caller : CallerInv(c)
  /\ ShutdownInv
  /\ crashed = "no"

-----------------------------------------------------------------------------
(* Steps and what they leave alone *)

Engaged(w, c) == Running(w, c) \/ Finished(w, c)

ThreadSame(w) ==
  /\ wpc'[w] = wpc[w] /\ state'[w] = state[w] /\ joinWaiting'[w] = joinWaiting[w]
  /\ threadFunc'[w] = threadFunc[w] /\ threadFuncResult'[w] = threadFuncResult[w]

ClientSame(c) == cpc'[c] = cpc[c] /\ handle'[c] = handle[c] /\ runs'[c] = runs[c] /\ got'[c] = got[c]

\* A thread that is engaged with a caller is that caller's handle.
LEMMA EngagedHandle ==
  ASSUME NEW w, NEW c, Engaged(w, c)
  PROVE  handle[c] = w /\ got[c] = NULL /\ cpc[c] \in {"ran", "refused", "joinSleep"}
  BY DEF Engaged, Running, Finished

\* A thread that serves c and is not engaged with it any more is through with it.
LEMMA NotEngaged ==
  ASSUME NEW w, NEW c, Serves(w, c), ~Engaged(w, c)
  PROVE  wpc[w] \notin Before \cup {"run", "finish", "relist"} /\ (wpc[w] = "joinSleep" => Collected(w))
  BY DEF Engaged, Serves

\* A thread for which nothing changes, in itself or in the caller it is engaged with.
LEMMA ThreadKept ==
  ASSUME NEW v \in Worker, WorkerInv(v), UNCHANGED detached, ThreadSame(v), isShuttingDown => isShuttingDown',
         isShuttingDown' \/ (v \in startWaiting => v \in startWaiting'),
         \A c \in Caller : Engaged(v, c) => ClientSame(c)
  PROVE  WorkerInv(v)'
  <1>1. ASSUME threadFunc'[v] = NULL PROVE Idle(v)'
    <2>1. Idle(v)
      BY <1>1 DEF WorkerInv, ThreadSame
    <2> QED
      BY <2>1 DEF Idle, Quiet, ThreadSame
  <1>2. ASSUME NEW c \in Caller, threadFunc'[v] = c PROVE Serves(v, c)'
    <2>1. Serves(v, c)
      BY <1>2 DEF WorkerInv, ThreadSame
    <2>2. CASE Engaged(v, c)
      <3>1. ClientSame(c)
        BY <2>2
      <3>2. (Running(v, c)' <=> Running(v, c)) /\ (Finished(v, c)' <=> Finished(v, c))
        BY <3>1 DEF Running, Finished, Quiet, ThreadSame, ClientSame
      <3>3. (Quiet(v)' <=> Quiet(v)) /\ (Collected(v)' <=> Collected(v))
        BY DEF Quiet, Collected, ThreadSame
      <3> QED
        BY <2>1, <3>1, <3>2, <3>3 DEF Serves, ThreadSame, ClientSame
    <2>3. CASE ~Engaged(v, c)
      <3>1. wpc[v] \notin Before \cup {"run", "finish", "relist"} /\ (wpc[v] = "joinSleep" => Collected(v))
        BY <2>1, <2>3, NotEngaged
      <3>2. (Quiet(v)' <=> Quiet(v)) /\ (Collected(v)' <=> Collected(v))
        BY DEF Quiet, Collected, ThreadSame
      <3> QED
        BY <2>1, <3>1, <3>2 DEF Serves, ThreadSame
    <2> QED
      BY <2>2, <2>3
  <1> QED
    BY <1>1, <1>2 DEF WorkerInv

\* A caller for which nothing changes, in itself or in the thread it has to join.
LEMMA ClientKept ==
  ASSUME NEW c \in Caller, CallerInv(c), UNCHANGED detached, ClientSame(c),
         \A w \in Worker : Joining(c) /\ handle[c] = w /\ threadFunc[w] = c => ThreadSame(w)
  PROVE  CallerInv(c)'
  <1>1. ASSUME Joining(c)' 
        PROVE  \E w \in Worker : handle'[c] = w /\ threadFunc'[w] = c /\ state'[w] # "COMPLETE" /\ wpc'[w] \in Serving
    <2>1. Joining(c)
      BY <1>1 DEF Joining, ClientSame
    <2>2. PICK w \in Worker : handle[c] = w /\ threadFunc[w] = c /\ state[w] # "COMPLETE" /\ wpc[w] \in Serving
      BY <2>1 DEF CallerInv
    <2>3. ThreadSame(w)
      BY <2>1, <2>2
    <2> QED
      BY <2>2, <2>3 DEF ThreadSame, ClientSame
  <1> QED
    BY <1>1 DEF CallerInv, ClientSame

\* A step of the main loop of w disturbs no other thread, and only the caller it is engaged with.
LEMMA LoopFrame ==
  ASSUME TaskInv, NEW w \in Worker, UNCHANGED <<detached, isShuttingDown, cpc, handle, crashed>>,
         \A v \in Worker : v # w => ThreadSame(v) /\ (v \in startWaiting => v \in startWaiting'),
         \A c \in Caller : (Engaged(w, c) /\ threadFunc[w] = c) \/ (runs'[c] = runs[c] /\ got'[c] = got[c]),
         WorkerInv(w)', \A c \in Caller : handle[c] = w /\ threadFunc[w] = c => CallerInv(c)'
  PROVE  TaskInv'
  <1>1. ASSUME NEW v \in Worker, v # w PROVE WorkerInv(v)'
    <2>1. \A c \in Caller : Engaged(v, c) => ClientSame(c)
      BY <1>1, EngagedHandle DEF ClientSame
    <2> QED
      BY <1>1, <2>1, ThreadKept DEF TaskInv
  <1>2. ASSUME NEW c \in Caller, ~(handle[c] = w /\ threadFunc[w] = c) PROVE CallerInv(c)'
    <2>1. ClientSame(c)
      BY <1>2, EngagedHandle DEF ClientSame
    <2>2. \A v \in Worker : Joining(c) /\ handle[c] = v /\ threadFunc[v] = c => ThreadSame(v)
      BY <1>2
    <2> QED
      BY <2>1, <2>2, ClientKept DEF TaskInv
  <1>3. ShutdownInv' /\ crashed' = "no"
    BY DEF TaskInv, ShutdownInv
  <1> QED
    BY <1>1, <1>2, <1>3 DEF TaskInv

\* A step of caller c disturbs no other caller, and no thread but w.
LEMMA ClientFrame ==
  ASSUME TaskInv, NEW c \in Caller, NEW w, UNCHANGED <<detached, isShuttingDown, crashed>>,
         \A d \in Caller : d # c => ClientSame(d),
         \A v \in Worker : v # w => ThreadSame(v) /\ (v \in startWaiting => v \in startWaiting') /\ ~Engaged(v, c),
         w \in Worker => WorkerInv(w)', CallerInv(c)',
         \A d \in Caller : w \in Worker /\ d # c /\ threadFunc[w] = d => ThreadSame(w),
         isShuttingDown => cpc'[c] = "idle"
  PROVE  TaskInv'
  <1>1. ASSUME NEW v \in Worker, v # w PROVE WorkerInv(v)'
    <2>1. \A d \in Caller : Engaged(v, d) => ClientSame(d)
      BY <1>1
    <2> QED
      BY <1>1, <2>1, ThreadKept DEF TaskInv
  <1>2. ASSUME NEW d \in Caller, d # c PROVE CallerInv(d)'
    <2>1. \A v \in Worker : Joining(d) /\ handle[d] = v /\ threadFunc[v] = d => ThreadSame(v)
      BY <1>2
    <2> QED
      BY <1>2, <2>1, ClientKept DEF TaskInv
  <1>3. ShutdownInv' /\ crashed' = "no"
    BY DEF TaskInv, ShutdownInv, ClientSame
  <1> QED
    BY <1>1, <1>2, <1>3 DEF TaskInv

\* What the pool's lists say of single threads.
Facts ==
  /\ TypeOK /\ PlaceInv
  /\ ~isShuttingDown =>
       /\ \A w \in Worker : wpc[w] # "exit" /\ (wpc[w] = "unborn" => threadFunc[w] = NULL)
       /\ \A c \in Caller, w \in Worker : Assigned(c, w) => threadFunc[w] = NULL /\ wpc[w] \notin {"unborn", "relist"}

\* These facts follow from the invariant of the lists.
LEMMA InvFacts == Inv => Facts
  <1> SUFFICES ASSUME Inv PROVE Facts
    OBVIOUS
  <1>1. PICK a \in Seq(Worker), u \in Seq(Worker) : ListInv(a, u) /\ UseInv(a, u)
    BY DEF Inv
  <1>2. ASSUME ~isShuttingDown, NEW w \in Worker PROVE wpc[w] # "exit" /\ (wpc[w] = "unborn" => threadFunc[w] = NULL)
    <2>1. wpc[w] # "exit"
      BY <1>2 DEF Inv, Base, OwnerInv
    <2>2. wpc[w] = "unborn" => ~In(w, u)
      BY <1>1 DEF ListInv
    <2> QED
      BY <1>1, <1>2, <2>1, <2>2 DEF UseInv, Working
  <1>3. ASSUME ~isShuttingDown, NEW c \in Caller, NEW w \in Worker, Assigned(c, w)
        PROVE  threadFunc[w] = NULL /\ wpc[w] \notin {"unborn", "relist"}
    <2>1. In(w, u) /\ ~Working(w)
      BY <1>1, <1>3 DEF UseInv
    <2>2. wpc[w] # "unborn"
      BY <1>1, <2>1 DEF ListInv
    <2> QED
      BY <2>1, <2>2 DEF Working
  <1> QED
    BY <1>2, <1>3 DEF Facts, Inv, Base

\* What kind of thread w is.
LEMMA ThreadKind ==
  ASSUME Facts, TaskInv, NEW w \in Worker
  PROVE  /\ threadFunc[w] \in Caller \cup {NULL} /\ NULL \notin Caller
         /\ threadFunc[w] = NULL => Idle(w)
         /\ \A c \in Caller : threadFunc[w] = c => Serves(w, c)
         /\ isShuttingDown \in BOOLEAN /\ detached \in BOOLEAN
         /\ isShuttingDown => \A c \in Caller : ~Joining(c)
  BY Names DEF Facts, TypeOK, TaskInv, WorkerInv, ShutdownInv, Joining

\* The steps of the main loop that only take w from one place to another.
LEMMA PlaceStep ==
  ASSUME Facts, TaskInv, NEW w \in Worker, NEW from, NEW to, wpc[w] = from, wpc' = [wpc EXCEPT ![w] = to],
         UNCHANGED <<detached, isShuttingDown, threadFunc, threadFuncResult, state, joinWaiting, cpc, handle, runs, got, crashed>>,
         startWaiting \subseteq startWaiting',
         from \in Before \/ (from = "relist" /\ to = "test"),
         to \in Before \/ (to = "exit" /\ isShuttingDown),
         threadFunc[w] = NULL => to # "call" /\ (isShuttingDown \/ (to # "awake" /\ (to = "sleep" => w \in startWaiting')))
  PROVE  TaskInv'
  <1>0. wpc'[w] = to /\ \A v \in Worker : v # w => ThreadSame(v)
    BY DEF Facts, PlaceInv, ThreadSame
  <1>1. \A c \in Caller : runs'[c] = runs[c] /\ got'[c] = got[c]
    OBVIOUS
  <1>2. ASSUME threadFunc[w] = NULL PROVE Idle(w)'
    <2>1. Idle(w)
      BY <1>2, ThreadKind
    <2> QED
      BY <1>0, <1>2, <2>1 DEF Idle, Quiet, Before
  <1>3. ASSUME NEW c \in Caller, threadFunc[w] = c PROVE Serves(w, c)'
    <2>1. Serves(w, c)
      BY <1>3, ThreadKind
    <2>2. Running(w, c) /\ runs[c] = 0 /\ wpc[w] \in Before
      BY <2>1 DEF Serves
    <2>3. Running(w, c)'
      BY <2>2 DEF Running, Quiet
    <2>4. to = "exit" \/ to \in Before
      OBVIOUS
    <2> QED
      BY <1>0, <2>2, <2>3, <2>4 DEF Serves, Before
  <1>4. WorkerInv(w)'
    BY <1>2, <1>3 DEF WorkerInv
  <1>5. ASSUME NEW c \in Caller, handle[c] = w, threadFunc[w] = c PROVE CallerInv(c)'
    <2>1. CallerInv(c)
      BY DEF TaskInv
    <2>2. ~isShuttingDown => to \in Serving
      BY DEF Serving
    <2>3. Joining(c) => ~isShuttingDown
      BY ThreadKind
    <2>4. Joining(c)' => Joining(c)
      BY DEF Joining
    <2> QED
      BY <1>0, <1>5, <2>1, <2>2, <2>3, <2>4 DEF CallerInv
  <1> QED
    BY <1>0, <1>1, <1>4, <1>5, LoopFrame

\* A thread does not start to wait when it has a function, and is not woken without one.
LEMMA TaskLoopStart ==
  ASSUME Facts, TaskInv, UNCHANGED detached, NEW w \in Worker, LoopStart(w)
  PROVE  TaskInv'
  <1>1. UNCHANGED <<isShuttingDown, threadFunc, threadFuncResult, state, joinWaiting, cpc, handle, runs, got, crashed>>
    BY DEF LoopStart, fields, callers
  <1>2. CASE wpc' = [wpc EXCEPT ![w] = "sleep"] /\ threadFunc[w] = NULL /\ startWaiting' = startWaiting \cup {w} /\ wpc[w] = "loop"
    BY <1>1, <1>2, PlaceStep DEF Before
  <1>3. CASE wpc' = [wpc EXCEPT ![w] = "awake"] /\ threadFunc[w] # NULL /\ UNCHANGED startWaiting /\ wpc[w] = "loop"
    BY <1>1, <1>3, PlaceStep DEF Before
  <1> QED
    BY <1>2, <1>3 DEF LoopStart, WorkerGoto

\* A thread without a function is asleep until the pool is shut down.
LEMMA TaskLoopWoken ==
  ASSUME Facts, TaskInv, UNCHANGED detached, NEW w \in Worker, LoopWoken(w)
  PROVE  TaskInv'
  <1>1. /\ wpc[w] = "sleep" /\ wpc' = [wpc EXCEPT ![w] = "awake"] /\ w \notin startWaiting
        /\ UNCHANGED <<isShuttingDown, threadFunc, threadFuncResult, state, startWaiting, joinWaiting, cpc, handle, runs, got, crashed>>
    BY DEF LoopWoken, WorkerGoto, fields, sleep, callers
  <1>2. threadFunc[w] = NULL => isShuttingDown
    BY <1>1, ThreadKind DEF Idle
  <1> QED
    BY <1>1, <1>2, PlaceStep DEF Before

\* After the wait the thread looks whether the pool is shut down.
LEMMA TaskLoopTestShutdown ==
  ASSUME Facts, TaskInv, UNCHANGED detached, NEW w \in Worker, LoopTestShutdown(w)
  PROVE  TaskInv'
  <1>1. /\ wpc[w] = "awake" /\ wpc' = [wpc EXCEPT ![w] = IF isShuttingDown THEN "exit" ELSE "call"]
        /\ UNCHANGED <<isShuttingDown, threadFunc, threadFuncResult, state, startWaiting, joinWaiting, cpc, handle, runs, got, crashed>>
    BY DEF LoopTestShutdown, WorkerGoto, fields, sleep, callers
  <1>2. threadFunc[w] = NULL => isShuttingDown
    BY <1>1, ThreadKind DEF Idle
  <1>3. CASE isShuttingDown
    BY <1>1, <1>3, PlaceStep DEF Before
  <1>4. CASE ~isShuttingDown
    BY <1>1, <1>2, <1>4, PlaceStep DEF Before
  <1> QED
    BY <1>3, <1>4

\* The test at the end of the loop.
LEMMA TaskLoopTest ==
  ASSUME Facts, TaskInv, UNCHANGED detached, NEW w \in Worker, LoopTest(w)
  PROVE  TaskInv'
  <1>1. /\ wpc[w] = "test" /\ wpc' = [wpc EXCEPT ![w] = IF isShuttingDown THEN "exit" ELSE "loop"]
        /\ UNCHANGED <<isShuttingDown, threadFunc, threadFuncResult, state, startWaiting, joinWaiting, cpc, handle, runs, got, crashed>>
    BY DEF LoopTest, WorkerGoto, fields, sleep, callers
  <1>3. CASE isShuttingDown
    BY <1>1, <1>3, PlaceStep DEF Before
  <1>4. CASE ~isShuttingDown
    BY <1>1, <1>4, PlaceStep DEF Before
  <1> QED
    BY <1>3, <1>4

\* A thread goes back to the available list without a function.
LEMMA TaskLoopRelist ==
  ASSUME Facts, TaskInv, UNCHANGED detached, NEW w \in Worker, LoopRelist(w)
  PROVE  TaskInv'
  <1>1. /\ wpc[w] = "relist" /\ wpc' = [wpc EXCEPT ![w] = "test"]
        /\ UNCHANGED <<isShuttingDown, threadFunc, threadFuncResult, state, startWaiting, joinWaiting, cpc, handle, runs, got, crashed>>
    BY DEF LoopRelist, WorkerGoto, fields, sleep, callers
  <1> QED
    BY <1>1, PlaceStep DEF Before

\* The function is called once: it is the first time for the caller that gave it.
LEMMA TaskLoopCall ==
  ASSUME Facts, TaskInv, UNCHANGED detached, NEW w \in Worker, LoopCall(w)
  PROVE  TaskInv'
  <1>1. threadFunc[w] # NULL /\ wpc[w] = "call"
    BY ThreadKind DEF LoopCall, WorkerGoto, Idle
  <1>2. /\ wpc' = [wpc EXCEPT ![w] = "run"] /\ runs' = [runs EXCEPT ![threadFunc[w]] = @ + 1]
        /\ UNCHANGED <<isShuttingDown, threadFunc, threadFuncResult, state, startWaiting, joinWaiting, cpc, handle, got, crashed>>
    BY <1>1 DEF LoopCall, WorkerGoto, fields, sleep
  <1>3. PICK c \in Caller : threadFunc[w] = c /\ Serves(w, c)
    BY <1>1, ThreadKind
  <1>4. Running(w, c) /\ runs[c] = 0
    BY <1>1, <1>3 DEF Serves, Before
  <1>5. runs'[c] = 1 /\ \A d \in Caller : d # c => runs'[d] = runs[d]
    BY <1>2, <1>3, <1>4 DEF Facts, TypeOK
  <1>6. wpc'[w] = "run" /\ \A v \in Worker : v # w => ThreadSame(v)
    BY <1>2 DEF Facts, PlaceInv, ThreadSame
  <1>7. WorkerInv(w)'
    <2>1. Running(w, c)'
      BY <1>2, <1>4 DEF Running, Quiet
    <2>2. Serves(w, c)'
      BY <1>5, <1>6, <2>1 DEF Serves, Before
    <2> QED
      BY <1>1, <1>2, <1>3, <2>2 DEF WorkerInv
  <1>8. CallerInv(c)'
    <2>1. CallerInv(c) /\ cpc[c] \in {"ran", "refused", "joinSleep"}
      BY <1>4 DEF TaskInv, Running
    <2>2. Joining(c)' => \E v \in Worker : handle'[c] = v /\ threadFunc'[v] = c /\ state'[v] # "COMPLETE" /\ wpc'[v] \in Serving
      BY <1>2, <1>3, <1>4, <1>6 DEF Running, Quiet, Serving
    <2> QED
      BY <1>2, <1>5, <2>1, <2>2 DEF CallerInv
  <1>9. \A d \in Caller : (Engaged(w, d) /\ threadFunc[w] = d) \/ (runs'[d] = runs[d] /\ got'[d] = got[d])
    BY <1>2, <1>3, <1>4, <1>5 DEF Engaged
  <1> QED
    BY <1>2, <1>3, <1>6, <1>7, <1>8, <1>9, LoopFrame

\* The function returns; a detached one is done, the result of another one is kept.
LEMMA TaskLoopFunctionReturns ==
  ASSUME Facts, TaskInv, UNCHANGED detached, NEW w \in Worker, LoopFunctionReturns(w)
  PROVE  TaskInv'
  <1>1. /\ wpc[w] = "run" /\ wpc' = [wpc EXCEPT ![w] = IF detached THEN "cleanup" ELSE "finish"]
        /\ threadFuncResult' = [threadFuncResult EXCEPT ![w] = threadFunc[w]]
        /\ got' = IF detached THEN [got EXCEPT ![threadFunc[w]] = threadFunc[w]] ELSE got
        /\ UNCHANGED <<isShuttingDown, threadFunc, state, startWaiting, joinWaiting, cpc, handle, runs, crashed>>
    BY DEF LoopFunctionReturns, WorkerGoto, sleep
  <1>2. threadFunc[w] # NULL
    BY <1>1, ThreadKind DEF Idle
  <1>3. PICK c \in Caller : threadFunc[w] = c /\ Serves(w, c)
    BY <1>2, ThreadKind
  <1>4. Running(w, c) /\ runs[c] = 1
    BY <1>1, <1>3 DEF Serves
  <1>5. \A d \in Caller : d # c => got'[d] = got[d]
    BY <1>1, <1>3 DEF Facts, TypeOK
  <1>6. /\ wpc'[w] = IF detached THEN "cleanup" ELSE "finish"
        /\ threadFuncResult'[w] = c /\ \A v \in Worker : v # w => ThreadSame(v)
    BY <1>1, <1>3 DEF Facts, PlaceInv, TypeOK, ThreadSame
  <1>7. WorkerInv(w)'
    <2>1. CASE detached
      <3>1. Quiet(w)
        BY <1>4, <2>1 DEF Running
      <3>2. Serves(w, c)'
        BY <1>1, <1>6, <2>1, <3>1 DEF Serves, Before, Quiet
      <3> QED
        BY <1>1, <1>2, <1>3, <3>2 DEF WorkerInv
    <2>2. CASE ~detached
      <3>1. Running(w, c)'
        BY <1>1, <1>4, <2>2 DEF Running, Quiet
      <3>2. Serves(w, c)'
        BY <1>1, <1>4, <1>6, <2>2, <3>1 DEF Serves, Before
      <3> QED
        BY <1>1, <1>2, <1>3, <3>2 DEF WorkerInv
    <2> QED
      BY <2>1, <2>2
  <1>8. CallerInv(c)'
    <2>1. CallerInv(c) /\ cpc[c] \in {"ran", "refused", "joinSleep"}
      BY <1>4 DEF TaskInv, Running
    <2>2. Joining(c)' => \E v \in Worker : handle'[c] = v /\ threadFunc'[v] = c /\ state'[v] # "COMPLETE" /\ wpc'[v] \in Serving
      BY <1>1, <1>3, <1>4, <1>6 DEF Running, Quiet, Serving, Joining
    <2> QED
      BY <1>1, <2>1, <2>2 DEF CallerInv
  <1>9. \A d \in Caller : (Engaged(w, d) /\ threadFunc[w] = d) \/ (runs'[d] = runs[d] /\ got'[d] = got[d])
    BY <1>1, <1>3, <1>4, <1>5 DEF Engaged
  <1> QED
    BY <1>1, <1>3, <1>6, <1>7, <1>8, <1>9, LoopFrame

\* What pthread_cond_signal leaves of no waiting thread and of one.
LEMMA SignalledOne ==
  Signalled({}) = {{}} /\ \A t : Signalled({t}) = {{}}
  <1>1. ASSUME NEW t PROVE Signalled({t}) = {{}}
    <2>1. {t} \ {t} = {} /\ {t} # {}
      OBVIOUS
    <2> QED
      BY <2>1 DEF Signalled
  <1> QED
    BY <1>1 DEF Signalled

\* The joiner, if there is one, is woken, and the thread waits for the result to be fetched.
LEMMA TaskLoopFinish ==
  ASSUME Facts, TaskInv, UNCHANGED detached, NEW w \in Worker, LoopFinish(w)
  PROVE  TaskInv'
  <1>1. /\ wpc[w] = "finish" /\ wpc' = [wpc EXCEPT ![w] = "joinSleep"]
        /\ state' = [state EXCEPT ![w] = IF @ = "RUNNING_JOINED" THEN "FINISHED_JOINED" ELSE "FINISHED_UNJOINED"]
        /\ \E waiting \in Signalled(joinWaiting[w]) : joinWaiting' = [joinWaiting EXCEPT ![w] = waiting \cup {w}]
        /\ UNCHANGED <<isShuttingDown, threadFunc, threadFuncResult, startWaiting, cpc, handle, runs, got, crashed>>
    BY DEF LoopFinish, WorkerGoto, callers
  <1>2. threadFunc[w] # NULL
    BY <1>1, ThreadKind DEF Idle
  <1>3. PICK c \in Caller : threadFunc[w] = c /\ Serves(w, c)
    BY <1>2, ThreadKind
  <1>4. Running(w, c) /\ runs[c] = 1 /\ ~detached /\ threadFuncResult[w] = c
    BY <1>1, <1>3 DEF Serves
  <1>5. joinWaiting' = [joinWaiting EXCEPT ![w] = {w}]
    <2>1. joinWaiting[w] = {} \/ joinWaiting[w] = {c}
      BY <1>4 DEF Running, Quiet
    <2>2. Signalled(joinWaiting[w]) = {{}}
      BY <2>1, SignalledOne
    <2>3. {} \cup {w} = {w}
      OBVIOUS
    <2> QED
      BY <1>1, <2>2, <2>3
  <1>6. /\ wpc'[w] = "joinSleep" /\ joinWaiting'[w] = {w}
        /\ state'[w] = IF state[w] = "RUNNING_JOINED" THEN "FINISHED_JOINED" ELSE "FINISHED_UNJOINED"
        /\ \A v \in Worker : v # w => ThreadSame(v)
    BY <1>1, <1>5 DEF Facts, PlaceInv, TypeOK, ThreadSame
  <1>7. WorkerInv(w)'
    <2>1. Finished(w, c)'
      BY <1>1, <1>4, <1>6 DEF Running, Quiet, Finished
    <2>2. Serves(w, c)'
      BY <1>1, <1>4, <1>6, <2>1 DEF Serves, Before
    <2> QED
      BY <1>1, <1>2, <1>3, <2>2 DEF WorkerInv
  <1>8. CallerInv(c)'
    <2>1. CallerInv(c)
      BY DEF TaskInv
    <2>2. \E v \in Worker : handle'[c] = v /\ threadFunc'[v] = c /\ state'[v] # "COMPLETE" /\ wpc'[v] \in Serving
      BY <1>1, <1>3, <1>4, <1>6 DEF Running, Serving
    <2> QED
      BY <1>1, <2>1, <2>2 DEF CallerInv
  <1> QED
    BY <1>1, <1>3, <1>6, <1>7, <1>8, LoopFrame

\* The join is complete; the state is reset.
LEMMA TaskLoopJoined ==
  ASSUME Facts, TaskInv, UNCHANGED detached, NEW w \in Worker, LoopJoined(w)
  PROVE  TaskInv'
  <1>1. /\ wpc[w] = "joinSleep" /\ wpc' = [wpc EXCEPT ![w] = "cleanup"] /\ w \notin joinWaiting[w]
        /\ state' = [state EXCEPT ![w] = "RUNNING_UNJOINED"]
        /\ UNCHANGED <<isShuttingDown, threadFunc, threadFuncResult, startWaiting, joinWaiting, cpc, handle, runs, got, crashed>>
    BY DEF LoopJoined, WorkerGoto, sleep, callers
  <1>2. threadFunc[w] # NULL
    BY <1>1, ThreadKind DEF Idle
  <1>3. PICK c \in Caller : threadFunc[w] = c /\ Serves(w, c)
    BY <1>2, ThreadKind
  <1>4. Collected(w)
    BY <1>1, <1>3 DEF Serves, Finished
  <1>6. wpc'[w] = "cleanup" /\ state'[w] = "RUNNING_UNJOINED" /\ \A v \in Worker : v # w => ThreadSame(v)
    BY <1>1 DEF Facts, PlaceInv, TypeOK, ThreadSame
  <1>7. WorkerInv(w)'
    <2>1. Serves(w, c)'
      BY <1>1, <1>4, <1>6 DEF Serves, Before, Quiet, Collected
    <2> QED
      BY <1>1, <1>2, <1>3, <2>1 DEF WorkerInv
  <1>8. ASSUME NEW d \in Caller, handle[d] = w, threadFunc[w] = d PROVE CallerInv(d)'
    <2>1. CallerInv(d) /\ ClientSame(d)
      BY <1>1 DEF TaskInv, ClientSame
    <2>2. ~Joining(d)
      BY <1>4, <1>8, <2>1 DEF CallerInv, Collected
    <2> QED
      BY <2>1, <2>2, ClientKept
  <1> QED
    BY <1>1, <1>6, <1>7, <1>8, LoopFrame

\* The function is cleared, before the thread goes back to the list.
LEMMA TaskLoopCleanup ==
  ASSUME Facts, TaskInv, UNCHANGED detached, NEW w \in Worker, LoopCleanup(w)
  PROVE  TaskInv'
  <1>1. /\ wpc[w] = "cleanup" /\ wpc' = [wpc EXCEPT ![w] = "relist"]
        /\ threadFunc' = [threadFunc EXCEPT ![w] = NULL]
        /\ UNCHANGED <<isShuttingDown, threadFuncResult, state, startWaiting, joinWaiting, cpc, handle, runs, got, crashed>>
    BY DEF LoopCleanup, WorkerGoto, sleep, callers
  <1>2. threadFunc[w] # NULL
    BY <1>1, ThreadKind DEF Idle
  <1>3. PICK c \in Caller : threadFunc[w] = c /\ Serves(w, c)
    BY <1>2, ThreadKind
  <1>4. Quiet(w)
    BY <1>1, <1>3 DEF Serves
  <1>6. wpc'[w] = "relist" /\ threadFunc'[w] = NULL /\ \A v \in Worker : v # w => ThreadSame(v)
    BY <1>1 DEF Facts, PlaceInv, TypeOK, ThreadSame
  <1>7. WorkerInv(w)'
    BY <1>1, <1>4, <1>6, Names DEF WorkerInv, Idle, Quiet
  <1>8. ASSUME NEW d \in Caller, handle[d] = w, threadFunc[w] = d PROVE CallerInv(d)'
    <2>1. CallerInv(d) /\ ClientSame(d)
      BY <1>1 DEF TaskInv, ClientSame
    <2>2. ~Joining(d)
      BY <1>1, <1>8, <2>1 DEF CallerInv, Serving, Before
    <2> QED
      BY <2>1, <2>2, ClientKept
  <1> QED
    BY <1>1, <1>6, <1>7, <1>8, LoopFrame

\* The steps of threadPool_runThread before the function is set.
LEMMA TaskRun ==
  ASSUME Orderly, Facts, TaskInv, UNCHANGED detached, NEW c \in Caller, Run(c)
  PROVE  TaskInv'
  <1>1. /\ cpc[c] = "idle" /\ CallerInv(c)
        /\ UNCHANGED <<isShuttingDown, threadFunc, threadFuncResult, state, startWaiting, joinWaiting, runs, got, crashed>>
    BY DEF Run, RunAvailable, RunNew, RunFails, CallerGoto, TaskInv, fields, sleep
  <1>2. ~isShuttingDown
    <2>1. CASE RunAvailable(c) \/ RunNew(c)
      BY <2>1 DEF RunAvailable, RunNew
    <2>2. CASE RunFails(c)
      <3>1. MayCall /\ (isShuttingDown <=> opc \notin {"create", "up"}) /\ (isShuttingDown => DestroyWhen = "idle")
        BY <2>2 DEF RunFails, Facts, PlaceInv, TaskInv, ShutdownInv
      <3> QED
        BY <3>1 DEF MayCall
    <2> QED
      BY <2>1, <2>2 DEF Run
  <1>3. PICK to \in {"assign", "failed"} : cpc' = [cpc EXCEPT ![c] = to]
    BY DEF Run, RunAvailable, RunNew, RunFails, CallerGoto
  <1>4. \A v : ~Engaged(v, c)
    BY <1>1, EngagedHandle
  <1>5. \A d \in Caller : d # c => ClientSame(d)
    <2>1. \A d \in Caller : d # c => cpc'[d] = cpc[d]
      BY <1>3 DEF Facts, PlaceInv
    <2>2. \A d \in Caller : d # c => handle'[d] = handle[d]
      BY DEF Facts, PlaceInv, Run, RunAvailable, RunNew, RunFails
    <2> QED
      BY <1>1, <2>1, <2>2 DEF ClientSame
  <1>6. CallerInv(c)'
    <2>1. cpc'[c] \in {"assign", "failed"}
      BY <1>3 DEF Facts, PlaceInv
    <2> QED
      BY <1>1, <2>1 DEF CallerInv, Joining
  <1>7. CASE RunNew(c)
    <2>1. PICK w \in Worker : wpc[w] = "unborn" /\ wpc' = [wpc EXCEPT ![w] = "loop"]
      BY <1>7 DEF RunNew, Unborn
    <2>2. wpc'[w] = "loop" /\ \A v \in Worker : v # w => ThreadSame(v)
      BY <1>1, <2>1 DEF Facts, PlaceInv, ThreadSame
    <2>3. threadFunc[w] = NULL /\ Idle(w)
      BY <1>2, <2>1, ThreadKind DEF Facts
    <2>4. WorkerInv(w)'
      BY <1>1, <2>2, <2>3, Names DEF WorkerInv, Idle, Quiet
    <2>5. \A d \in Caller : threadFunc[w] # d
      BY <2>3, Names
    <2> QED
      BY <1>1, <1>2, <1>4, <1>5, <1>6, <2>2, <2>4, <2>5, ClientFrame
  <1>8. CASE ~RunNew(c)
    <2>1. \A v \in Worker : ThreadSame(v)
      BY <1>1, <1>8 DEF Run, RunAvailable, RunFails, ThreadSame
    <2>2. NULL \notin Worker
      BY Names
    <2> QED
      BY <1>1, <1>2, <1>4, <1>5, <1>6, <2>1, <2>2, ClientFrame
  <1> QED
    BY <1>7, <1>8

\* The thread that was handed out is given the function, asleep or on its way to the wait.
LEMMA TaskRunAssign ==
  ASSUME Facts, TaskInv, UNCHANGED detached, NEW c \in Caller, RunAssign(c)
  PROVE  TaskInv'
  <1>1. /\ cpc[c] = "assign" /\ cpc' = [cpc EXCEPT ![c] = "ran"]
        /\ threadFunc' = [threadFunc EXCEPT ![handle[c]] = c] /\ startWaiting' = startWaiting \ {handle[c]}
        /\ UNCHANGED <<isShuttingDown, threadFuncResult, state, joinWaiting, wpc, handle, runs, got, crashed>>
    BY DEF RunAssign, CallerGoto
  <1>2. ~isShuttingDown
    BY <1>1 DEF TaskInv, ShutdownInv
  <1>3. PICK w \in Worker : handle[c] = w
    BY <1>1 DEF Facts, TypeOK
  <1>4. threadFunc[w] = NULL /\ wpc[w] \notin {"unborn", "relist", "exit"}
    BY <1>1, <1>2, <1>3 DEF Facts, Assigned
  <1>5. Idle(w)
    BY <1>4, ThreadKind
  <1>6. wpc[w] \in Before
    BY <1>4, <1>5 DEF Idle, Before, Facts, PlaceInv, WorkerPlace
  <1>7. threadFunc'[w] = c /\ \A v \in Worker : v # w => ThreadSame(v)
    BY <1>1, <1>3 DEF Facts, TypeOK, ThreadSame
  <1>8. cpc'[c] = "ran" /\ \A d \in Caller : d # c => ClientSame(d)
    BY <1>1 DEF Facts, PlaceInv, ClientSame
  <1>9. CallerInv(c) /\ runs[c] = 0 /\ got[c] = NULL
    BY <1>1 DEF TaskInv, CallerInv
  <1>10. WorkerInv(w)'
    <2>1. Running(w, c)'
      BY <1>1, <1>3, <1>5, <1>8, <1>9 DEF Running, Idle, Quiet
    <2>2. Serves(w, c)'
      BY <1>1, <1>6, <1>9, <2>1 DEF Serves, Before
    <2> QED
      BY <1>7, <2>2, Names DEF WorkerInv
  <1>11. CallerInv(c)'
    <2>1. \E v \in Worker : handle'[c] = v /\ threadFunc'[v] = c /\ state'[v] # "COMPLETE" /\ wpc'[v] \in Serving
      BY <1>1, <1>3, <1>5, <1>6, <1>7 DEF Serving, Idle, Quiet
    <2> QED
      BY <1>1, <1>8, <1>9, <2>1 DEF CallerInv
  <1>12. \A v \in Worker : v # w => ~Engaged(v, c) /\ (v \in startWaiting => v \in startWaiting')
    BY <1>1, <1>3, EngagedHandle
  <1>13. \A d \in Caller : threadFunc[w] # d
    BY <1>4, Names
  <1> QED
    BY <1>1, <1>2, <1>7, <1>8, <1>10, <1>11, <1>12, <1>13, ClientFrame

\* The thread a caller has to join.
LEMMA JoinedThread ==
  ASSUME Facts, TaskInv, NEW c \in Caller, Joining(c)
  PROVE  \E w \in Worker : /\ handle[c] = w /\ threadFunc[w] = c /\ Serves(w, c) /\ state[w] # "COMPLETE"
                           /\ (wpc[w] # "joinSleep" /\ Running(w, c)) \/ (wpc[w] = "joinSleep" /\ Finished(w, c))
  <1>1. PICK w \in Worker : handle[c] = w /\ threadFunc[w] = c /\ state[w] # "COMPLETE" /\ wpc[w] \in Serving
    BY DEF TaskInv, CallerInv
  <1>2. Serves(w, c)
    BY <1>1, ThreadKind
  <1> QED
    BY <1>1, <1>2 DEF Serves, Serving, Collected

\* The function has not returned: the caller waits, and the thread knows.
LEMMA TaskJoinWait ==
  ASSUME Facts, TaskInv, UNCHANGED detached, NEW c \in Caller, JoinWait(c)
  PROVE  TaskInv'
  <1>1. /\ cpc[c] = "ran" /\ cpc' = [cpc EXCEPT ![c] = "joinSleep"] /\ ~detached
        /\ state[handle[c]] = "RUNNING_UNJOINED" /\ state' = [state EXCEPT ![handle[c]] = "RUNNING_JOINED"]
        /\ joinWaiting' = [joinWaiting EXCEPT ![handle[c]] = @ \cup {c}]
        /\ UNCHANGED <<isShuttingDown, threadFunc, threadFuncResult, startWaiting, wpc, handle, runs, got, crashed>>
    BY DEF JoinWait, CallerGoto
  <1>2. Joining(c) /\ ~isShuttingDown /\ CallerInv(c)
    BY <1>1 DEF Joining, TaskInv, ShutdownInv
  <1>3. PICK w \in Worker : /\ handle[c] = w /\ threadFunc[w] = c /\ Serves(w, c) /\ state[w] # "COMPLETE"
                            /\ (wpc[w] # "joinSleep" /\ Running(w, c)) \/ (wpc[w] = "joinSleep" /\ Finished(w, c))
    BY <1>2, JoinedThread
  <1>4. wpc[w] # "joinSleep" /\ Running(w, c) /\ joinWaiting[w] = {}
    BY <1>1, <1>3 DEF Finished, Running, Quiet
  <1>5. state'[w] = "RUNNING_JOINED" /\ joinWaiting'[w] = {c} /\ \A v \in Worker : v # w => ThreadSame(v)
    <2>1. joinWaiting'[w] = {} \cup {c}
      BY <1>1, <1>3, <1>4 DEF Facts, TypeOK
    <2>2. state'[w] = "RUNNING_JOINED" /\ \A v \in Worker : v # w => ThreadSame(v)
      BY <1>1, <1>3 DEF Facts, TypeOK, ThreadSame
    <2> QED
      BY <2>1, <2>2
  <1>6. cpc'[c] = "joinSleep" /\ \A d \in Caller : d # c => ClientSame(d)
    BY <1>1 DEF Facts, PlaceInv, ClientSame
  <1>7. WorkerInv(w)'
    <2>1. Running(w, c)'
      BY <1>1, <1>4, <1>5, <1>6 DEF Running
    <2>2. wpc[w] \in Serving
      <3>1. PICK v \in Worker : handle[c] = v /\ wpc[v] \in Serving
        BY <1>2 DEF CallerInv
      <3> QED
        BY <1>3, <3>1
    <2>3. Serves(w, c)'
      BY <1>1, <1>3, <1>4, <2>1, <2>2 DEF Serves, Serving, Before
    <2> QED
      BY <1>1, <1>3, <2>3, Names DEF WorkerInv
  <1>8. CallerInv(c)'
    <2>1. PICK v \in Worker : handle[c] = v /\ threadFunc[v] = c /\ wpc[v] \in Serving
      BY <1>2 DEF CallerInv
    <2>2. \E x \in Worker : handle'[c] = x /\ threadFunc'[x] = c /\ state'[x] # "COMPLETE" /\ wpc'[x] \in Serving
      BY <1>1, <1>3, <1>5, <2>1
    <2> QED
      BY <1>1, <1>2, <1>6, <2>2 DEF CallerInv
  <1>9. \A v \in Worker : v # w => ~Engaged(v, c)
    BY <1>3, EngagedHandle
  <1> QED
    BY <1>1, <1>2, <1>3, <1>5, <1>6, <1>7, <1>8, <1>9, ClientFrame

\* Only the join of a detached thread is refused.
LEMMA TaskJoinRefused ==
  ASSUME Facts, TaskInv, UNCHANGED detached, NEW c \in Caller, JoinRefused(c)
  PROVE  TaskInv'
  <1>1. /\ cpc[c] = "ran" /\ cpc' = [cpc EXCEPT ![c] = "refused"]
        /\ detached \/ state[handle[c]] \in {"RUNNING_JOINED", "FINISHED_JOINED"}
        /\ UNCHANGED <<isShuttingDown, threadFunc, threadFuncResult, state, startWaiting, joinWaiting, wpc, handle, runs, got, crashed>>
    BY DEF JoinRefused, CallerGoto, fields, sleep
  <1>2. detached
    <2> SUFFICES ASSUME ~detached PROVE FALSE
      OBVIOUS
    <2>1. Joining(c)
      BY <1>1 DEF Joining
    <2> QED
      BY <1>1, <2>1, JoinedThread DEF Running, Finished, Quiet
  <1>3. ~isShuttingDown /\ CallerInv(c)
    BY <1>1 DEF TaskInv, ShutdownInv
  <1>4. cpc'[c] = "refused" /\ \A d \in Caller : d # c => ClientSame(d)
    BY <1>1 DEF Facts, PlaceInv, ClientSame
  <1>5. \A v \in Worker : ThreadSame(v)
    BY <1>1 DEF ThreadSame
  <1>6. PICK w \in Worker : handle[c] = w
    BY <1>1 DEF Facts, TypeOK
  <1>7. WorkerInv(w)'
    <2>1. ASSUME threadFunc[w] = NULL PROVE Idle(w)'
      BY <1>1, <2>1, ThreadKind DEF Idle, Quiet
    <2>2. ASSUME NEW d \in Caller, threadFunc[w] = d PROVE Serves(w, d)'
      <3>1. Serves(w, d)
        BY <2>2, ThreadKind
      <3>2. Running(w, d) => Running(w, d)'
        BY <1>1, <1>2, <1>4 DEF Running, Quiet, ClientSame
      <3>3. wpc[w] # "joinSleep" /\ (Quiet(w) => Quiet(w)')
        BY <1>1, <1>2, <3>1 DEF Serves, Quiet
      <3> QED
        BY <1>1, <3>1, <3>2, <3>3 DEF Serves
    <2> QED
      BY <1>1, <2>1, <2>2 DEF WorkerInv
  <1>8. CallerInv(c)'
    BY <1>1, <1>2, <1>3, <1>4 DEF CallerInv, Joining
  <1>9. \A v \in Worker : v # w => ~Engaged(v, c)
    BY <1>6, EngagedHandle
  <1> QED
    BY <1>1, <1>3, <1>4, <1>5, <1>7, <1>8, <1>9, ClientFrame

\* The caller goes on with its next call; no thread is engaged with it any more.
LEMMA TaskCallerNext ==
  ASSUME Facts, TaskInv, UNCHANGED detached, NEW c \in Caller, CallerNext(c)
  PROVE  TaskInv'
  <1>1. /\ cpc' = [cpc EXCEPT ![c] = "idle"] /\ handle' = [handle EXCEPT ![c] = NULL]
        /\ runs' = [runs EXCEPT ![c] = 0] /\ got' = [got EXCEPT ![c] = NULL]
        /\ UNCHANGED <<isShuttingDown, threadFunc, threadFuncResult, state, startWaiting, joinWaiting, wpc, crashed>>
    BY DEF CallerNext, fields, sleep
  <1>2. \A v : ~Engaged(v, c)
    <2>1. cpc[c] \in {"joined", "failed"} \/ got[c] = c
      BY DEF CallerNext, TaskInv, CallerInv
    <2> QED
      BY <2>1, EngagedHandle, Names
  <1>3. /\ cpc'[c] = "idle" /\ runs'[c] = 0 /\ got'[c] = NULL
        /\ \A d \in Caller : d # c => ClientSame(d)
    BY <1>1 DEF Facts, PlaceInv, TypeOK, ClientSame
  <1>4. CallerInv(c)'
    BY <1>3 DEF CallerInv, Joining
  <1>5. (\A v \in Worker : ThreadSame(v)) /\ NULL \notin Worker
    BY <1>1, Names DEF ThreadSame
  <1> QED
    BY <1>1, <1>2, <1>3, <1>4, <1>5, ClientFrame

\* The result that is fetched is that of the caller's own function, which has run once.
LEMMA TaskCollect ==
  ASSUME Facts, TaskInv, UNCHANGED detached, NEW c \in Caller, NEW from \in {"ran", "joinSleep"}, Collect(c, from), ~detached,
         state[handle[c]] \in {"FINISHED_UNJOINED", "FINISHED_JOINED", "COMPLETE"}
  PROVE  TaskInv'
  <1>1. /\ cpc[c] = from /\ cpc' = [cpc EXCEPT ![c] = "joined"]
        /\ got' = [got EXCEPT ![c] = threadFuncResult[handle[c]]] /\ state' = [state EXCEPT ![handle[c]] = "COMPLETE"]
        /\ \E waiting \in Signalled(joinWaiting[handle[c]]) : joinWaiting' = [joinWaiting EXCEPT ![handle[c]] = waiting]
        /\ UNCHANGED <<isShuttingDown, threadFunc, threadFuncResult, startWaiting, wpc, handle, runs, crashed>>
    BY DEF Collect, CallerGoto
  <1>2. Joining(c) /\ ~isShuttingDown /\ CallerInv(c)
    BY <1>1 DEF Joining, TaskInv, ShutdownInv
  <1>3. PICK w \in Worker : /\ handle[c] = w /\ threadFunc[w] = c /\ Serves(w, c) /\ state[w] # "COMPLETE"
                            /\ (wpc[w] # "joinSleep" /\ Running(w, c)) \/ (wpc[w] = "joinSleep" /\ Finished(w, c))
    BY <1>2, JoinedThread
  <1>4. wpc[w] = "joinSleep" /\ Finished(w, c)
    BY <1>3 DEF Running, Quiet
  <1>5. joinWaiting[w] = {w} /\ runs[c] = 1 /\ threadFuncResult[w] = c
    BY <1>3, <1>4 DEF Finished, Serves
  <1>6. joinWaiting' = [joinWaiting EXCEPT ![w] = {}]
    <2>1. Signalled(joinWaiting[w]) = {{}}
      BY <1>5, SignalledOne
    <2> QED
      BY <1>1, <1>3, <2>1
  <1>7. state'[w] = "COMPLETE" /\ joinWaiting'[w] = {} /\ \A v \in Worker : v # w => ThreadSame(v)
    BY <1>1, <1>3, <1>6 DEF Facts, TypeOK, ThreadSame
  <1>8. cpc'[c] = "joined" /\ got'[c] = c /\ \A d \in Caller : d # c => ClientSame(d)
    BY <1>1, <1>3, <1>5 DEF Facts, PlaceInv, TypeOK, ClientSame
  <1>9. WorkerInv(w)'
    <2>1. Serves(w, c)'
      BY <1>1, <1>3, <1>4, <1>7 DEF Serves, Before, Collected
    <2> QED
      BY <1>1, <1>3, <2>1, Names DEF WorkerInv
  <1>10. CallerInv(c)'
    BY <1>1, <1>5, <1>8 DEF CallerInv, Joining
  <1>11. \A v \in Worker : v # w => ~Engaged(v, c)
    BY <1>3, EngagedHandle
  <1> QED
    BY <1>1, <1>2, <1>3, <1>7, <1>8, <1>9, <1>10, <1>11, ClientFrame

\* The join returns, and its assert holds.
LEMMA TaskJoin ==
  ASSUME Facts, TaskInv, UNCHANGED detached, NEW c \in Caller, Join(c)
  PROVE  TaskInv'
  <1>1. CASE JoinWait(c)
    BY <1>1, TaskJoinWait
  <1>2. CASE JoinRefused(c)
    BY <1>2, TaskJoinRefused
  <1>3. CASE JoinFinished(c)
    BY <1>3, TaskCollect DEF JoinFinished
  <1>4. CASE JoinWoken(c)
    <2>1. cpc[c] = "joinSleep" /\ c \notin joinWaiting[handle[c]]
      BY <1>4 DEF JoinWoken
    <2>2. Joining(c) /\ ~detached
      BY <2>1 DEF Joining, TaskInv, CallerInv
    <2>3. PICK w \in Worker : /\ handle[c] = w /\ state[w] # "COMPLETE"
                              /\ (wpc[w] # "joinSleep" /\ Running(w, c)) \/ (wpc[w] = "joinSleep" /\ Finished(w, c))
      BY <2>2, JoinedThread
    <2>4. state[handle[c]] = "FINISHED_JOINED"
      BY <2>1, <2>3 DEF Running, Finished
    <2> QED
      BY <1>4, <2>2, <2>4, TaskCollect DEF JoinWoken
  <1> QED
    BY <1>1, <1>2, <1>3, <1>4 DEF Join

\* The owner's steps: a thread is born without a function, and the pool is shut down when
\* its callers are through.
LEMMA TaskOwner ==
  ASSUME Orderly, Facts, TaskInv, UNCHANGED detached, CreateThread \/ CreateReturn \/ DestroyLock \/ Destroying \/ UNCHANGED vars
  PROVE  TaskInv'
  <1>1. UNCHANGED <<threadFunc, threadFuncResult, state, joinWaiting, cpc, handle, runs, got, crashed>>
    BY DEF CreateThread, CreateReturn, DestroyLock, Destroying, DestroySignal, DestroyJoinAvailable, DestroyJoinInUse,
           DestroyUnlock, DestroyFree, fields, sleep, callers, vars
  <1>2. isShuttingDown \in BOOLEAN /\ (isShuttingDown <=> opc \notin {"create", "up"}) /\ wpc \in [Worker -> WorkerPlace]
    BY DEF Facts, TypeOK, PlaceInv
  <1>3. \A c \in Caller : ClientSame(c)
    BY <1>1 DEF ClientSame
  <1>4. CASE CreateThread
    <2>1. PICK w \in Worker : wpc[w] = "unborn" /\ wpc' = [wpc EXCEPT ![w] = "loop"]
      BY <1>4 DEF CreateThread, Unborn
    <2>2. UNCHANGED <<isShuttingDown, startWaiting>> /\ ~isShuttingDown
      BY <1>2, <1>4 DEF CreateThread, sleep
    <2>3. wpc'[w] = "loop" /\ \A v \in Worker : v # w => ThreadSame(v)
      BY <1>1, <1>2, <2>1 DEF ThreadSame
    <2>4. threadFunc[w] = NULL /\ Idle(w)
      BY <2>1, <2>2, ThreadKind DEF Facts
    <2>5. WorkerInv(w)'
      BY <1>1, <2>2, <2>3, <2>4, Names DEF WorkerInv, Idle, Quiet
    <2>6. \A v \in Worker : v # w => WorkerInv(v)'
      BY <1>3, <2>2, <2>3, ThreadKept DEF TaskInv
    <2>7. \A c \in Caller : CallerInv(c)'
      <3>1. \A c \in Caller : threadFunc[w] # c
        BY <2>4, Names
      <3> QED
        BY <1>3, <2>3, <3>1, ClientKept DEF TaskInv
    <2> QED
      BY <1>1, <2>2, <2>5, <2>6, <2>7 DEF TaskInv, ShutdownInv
  <1>5. CASE ~CreateThread
    <2>1. UNCHANGED wpc
      BY <1>5 DEF CreateReturn, DestroyLock, Destroying, DestroySignal, DestroyJoinAvailable, DestroyJoinInUse,
             DestroyUnlock, DestroyFree, vars
    <2>2. \A v \in Worker : ThreadSame(v)
      BY <1>1, <2>1 DEF ThreadSame
    <2>3. \A c \in Caller : CallerInv(c)'
      BY <1>3, <2>2, ClientKept DEF TaskInv
    <2>4. (isShuttingDown => isShuttingDown') /\ (isShuttingDown' \/ startWaiting' = startWaiting)
      BY <1>2, <1>5 DEF CreateReturn, DestroyLock, Destroying, DestroySignal, DestroyJoinAvailable, DestroyJoinInUse,
             DestroyUnlock, DestroyFree, OwnerGoto, vars, sleep
    <2>5. \A v \in Worker : WorkerInv(v)'
      BY <1>3, <2>2, <2>4, ThreadKept DEF TaskInv
    <2>6. ShutdownInv'
      <3>1. CASE DestroyLock
        BY <1>1, <3>1, ThreadPoolAssumption DEF DestroyLock, Orderly, ShutdownInv
      <3>2. CASE ~DestroyLock
        <4>1. UNCHANGED isShuttingDown
          BY <1>5, <3>2 DEF CreateReturn, Destroying, DestroySignal, DestroyJoinAvailable, DestroyJoinInUse,
                 DestroyUnlock, DestroyFree, vars
        <4> QED
          BY <1>1, <4>1 DEF TaskInv, ShutdownInv
      <3> QED
        BY <3>1, <3>2
    <2> QED
      BY <1>1, <2>3, <2>5, <2>6 DEF TaskInv
  <1> QED
    BY <1>4, <1>5

\* At the start no thread has a function and no caller a thread.
LEMMA InitTask == Init => TaskInv
  <1> SUFFICES ASSUME Init PROVE TaskInv
    OBVIOUS
  <1>1. \A w \in Worker : WorkerInv(w)
    BY Names DEF Init, WorkerInv, Idle, Quiet
  <1>2. \A c \in Caller : CallerInv(c)
    BY DEF Init, CallerInv, Joining
  <1> QED
    BY <1>1, <1>2 DEF Init, TaskInv, ShutdownInv

\* Every step keeps the tasks in order.
LEMMA NextTask == Orderly /\ Inv /\ TaskInv /\ [Next]_vars => TaskInv'
  <1> SUFFICES ASSUME Orderly, Inv, TaskInv, [Next]_vars PROVE TaskInv'
    OBVIOUS
  <1>1. Facts
    BY InvFacts
  <1>2. UNCHANGED detached
    BY DEF Next, Alive, vars
  <1>3. CASE CreateThread \/ CreateReturn \/ DestroyLock \/ Destroying \/ UNCHANGED vars
    BY <1>1, <1>2, <1>3, TaskOwner
  <1>4. ASSUME NEW c \in Caller, Run(c) \/ RunAssign(c) \/ Join(c) \/ CallerNext(c) PROVE TaskInv'
    <2>1. CASE Run(c)
      BY <1>1, <1>2, <2>1, TaskRun
    <2>2. CASE RunAssign(c)
      BY <1>1, <1>2, <2>2, TaskRunAssign
    <2>3. CASE Join(c)
      BY <1>1, <1>2, <2>3, TaskJoin
    <2>4. CASE CallerNext(c)
      BY <1>1, <1>2, <2>4, TaskCallerNext
    <2> QED
      BY <1>4, <2>1, <2>2, <2>3, <2>4
  <1>5. ASSUME NEW w \in Worker, MainLoop(w) PROVE TaskInv'
    <2>1. CASE LoopStart(w)
      BY <1>1, <1>2, <2>1, TaskLoopStart
    <2>2. CASE LoopWoken(w)
      BY <1>1, <1>2, <2>2, TaskLoopWoken
    <2>3. CASE LoopTestShutdown(w)
      BY <1>1, <1>2, <2>3, TaskLoopTestShutdown
    <2>4. CASE LoopCall(w)
      BY <1>1, <1>2, <2>4, TaskLoopCall
    <2>5. CASE LoopFunctionReturns(w)
      BY <1>1, <1>2, <2>5, TaskLoopFunctionReturns
    <2>6. CASE LoopFinish(w)
      BY <1>1, <1>2, <2>6, TaskLoopFinish
    <2>7. CASE LoopJoined(w)
      BY <1>1, <1>2, <2>7, TaskLoopJoined
    <2>8. CASE LoopCleanup(w)
      BY <1>1, <1>2, <2>8, TaskLoopCleanup
    <2>9. CASE LoopRelist(w)
      BY <1>1, <1>2, <2>9, TaskLoopRelist
    <2>10. CASE LoopTest(w)
      BY <1>1, <1>2, <2>10, TaskLoopTest
    <2> QED
      BY <1>5, <2>1, <2>2, <2>3, <2>4, <2>5, <2>6, <2>7, <2>8, <2>9, <2>10 DEF MainLoop
  <1>6. ~SpuriousWakeup
    BY DEF SpuriousWakeup, Orderly
  <1> QED
    BY <1>3, <1>4, <1>5, <1>6 DEF Next

\* In orderly use, threads and callers agree about the function that is run.
THEOREM TaskInvariance == Orderly => (Spec => []TaskInv)
  <1> SUFFICES ASSUME Orderly PROVE Spec => []TaskInv
    OBVIOUS
  <1>1. Inv /\ TaskInv /\ [Next]_vars => TaskInv'
    BY NextTask
  <1> QED
    BY <1>1, InitTask, Invariance, PTL DEF Spec

\* An available thread has no function, and nobody has it in hand.
LEMMA TaskNothingCarried == Inv /\ TaskInv => NothingCarriedOver
  <1> SUFFICES ASSUME Inv, TaskInv PROVE NothingCarriedOver
    OBVIOUS
  <1>1. PICK a \in Seq(Worker), u \in Seq(Worker) : ListInv(a, u) /\ UseInv(a, u)
    BY DEF Inv
  <1>2. JoinReturnsOwnResult
    BY DEF TaskInv, CallerInv, JoinReturnsOwnResult
  <1>3. ASSUME ~isShuttingDown, NEW w \in Members(firstAvailableThread)
        PROVE  /\ threadFunc[w] = NULL
               /\ \A c \in Caller :
                    cpc[c] \in {"assign", "joinSleep"} \/ (cpc[c] = "ran" /\ ~detached) => handle[c] # w
    <2>1. w \in Worker /\ In(w, a)
      BY <1>1, MembersAre DEF ListInv
    <2>2. ~In(w, u)
      BY <1>1, <2>1 DEF ListInv
    <2>3. threadFunc[w] = NULL /\ \A c \in Caller : ~Assigned(c, w)
      BY <1>1, <1>3, <2>1, <2>2 DEF UseInv, Working
    <2>4. ASSUME NEW c \in Caller, Joining(c) PROVE handle[c] # w
      BY <2>3, <2>4, Names DEF TaskInv, CallerInv
    <2>5. \A c \in Caller : cpc[c] = "joinSleep" => ~detached
      BY DEF TaskInv, CallerInv
    <2> QED
      BY <2>3, <2>4, <2>5 DEF Joining, Assigned
  <1> QED
    BY <1>2, <1>3 DEF NothingCarriedOver, AvailableIsUnused

\* In orderly use a thread of threadpool.c carries nothing over from one function to the
\* next: an available one has none, a function is run at most once, and
\* threadPoolThread_join returns the result of the caller's own function.
THEOREM NothingCarried == Orderly => (Spec => []NothingCarriedOver)
  <1> SUFFICES ASSUME Orderly PROVE Spec => []NothingCarriedOver
    OBVIOUS
  <1> QED
    BY TaskInvariance, Invariance, TaskNothingCarried, PTL

\* In orderly use the main loop never calls a function it does not have, and the assert
\* after the wait in threadPoolThread_join holds.
THEOREM NoCrash == Orderly => (Spec => [](WokenWithFunction /\ JoinAssertHolds))
  <1> SUFFICES ASSUME Orderly PROVE Spec => [](WokenWithFunction /\ JoinAssertHolds)
    OBVIOUS
  <1>1. TaskInv => WokenWithFunction /\ JoinAssertHolds
    BY DEF TaskInv, WokenWithFunction, JoinAssertHolds
  <1> QED
    BY <1>1, TaskInvariance, PTL
=============================================================================
