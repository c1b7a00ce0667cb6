---------------------------- MODULE QueueProofs ----------------------------
(***************************************************************************)
(* Proofs about Queue.                                                     *)
(***************************************************************************)
EXTENDS Queue, SequenceTheorems, FiniteSetTheorems, NaturalsInduction, TLAPS

-----------------------------------------------------------------------------
(* The linked list as a sequence of entries *)

\* A set of numbers has a least one.
LEMMA LeastNumber ==
  ASSUME NEW T \in SUBSET Nat, T # {}
  PROVE  \E k \in T : \A j \in T : ~(j < k)
  <1>1. \A x, y \in T : y < x => <<y, x>> \in OpToRel(<, Nat)
    BY Zenon DEF OpToRel
  <1> QED
    BY <1>1, NatLessThanWellFounded, WFMin, Zenon

\* The list from oldest to newest consists of the entries of s.
ListIs(s) ==
  /\ s \in Seq(Entry)
  /\ \A i, j \in 1..Len(s) : s[i] = s[j] => i = j
  /\ oldest = IF s = << >> THEN NULL ELSE s[1]
  /\ newest = IF s = << >> THEN NULL ELSE s[Len(s)]
  /\ \A i \in 1..Len(s) : newer[s[i]] = IF i = Len(s) THEN NULL ELSE s[i + 1]

MaxLength == Cardinality(Entry)

\* Different entries are no more than there are.
LEMMA LengthBound ==
  ASSUME NEW s, ListIs(s)
  PROVE  Len(s) \in 0..MaxLength /\ MaxLength \in Nat
  <1>1. s \in Seq(Entry) /\ Len(s) \in Nat
    BY DEF ListIs
  <1>2. s \in [1..Len(s) -> Entry]
    BY <1>1
  <1>3. s \in Injection(1..Len(s), Entry)
    BY <1>2 DEF ListIs, Injection, IsInjective
  <1>4. Cardinality(1..Len(s)) <= Cardinality(Entry)
    BY <1>3, FS_Injection, QueueAssumption
  <1>5. Cardinality(1..Len(s)) = Len(s)
    BY <1>1, FS_Interval, SMTT(30)
  <1>6. Cardinality(Entry) \in Nat
    BY FS_CardinalityType, QueueAssumption
  <1> QED
    BY <1>1, <1>4, <1>5, <1>6 DEF MaxLength

\* What the recursive definition of EntryAt says of a function.
Follows(f) ==
  f = [n \in 1..(MaxLength + 1) |->
         IF n = 1 THEN oldest
         ELSE IF f[n - 1] = NULL THEN NULL ELSE newer[f[n - 1]]]

\* EntryAt is that function, if there is one.
LEMMA EntryAtFollows == (\E f : Follows(f)) => Follows(EntryAt)
  BY DEF EntryAt, Follows, MaxLength

\* EntryAt[n] is the n-th element of the sequence, or NULL past its end.
LEMMA EntryAtIs ==
  ASSUME NEW s, ListIs(s), NEW n \in 1..(MaxLength + 1)
  PROVE  EntryAt[n] = IF n <= Len(s) THEN s[n] ELSE NULL
  <1> DEFINE f == [k \in 1..(MaxLength + 1) |-> IF k <= Len(s) THEN s[k] ELSE NULL]
  <1>1. Len(s) \in 0..MaxLength /\ MaxLength \in Nat /\ s \in Seq(Entry)
    BY LengthBound DEF ListIs
  <1>2. NULL \notin Entry /\ \A i \in 1..Len(s) : s[i] \in Entry
    BY <1>1, QueueAssumption
  <1>3. ASSUME NEW k \in 1..(MaxLength + 1)
        PROVE  f[k] = IF k = 1 THEN oldest ELSE IF f[k - 1] = NULL THEN NULL ELSE newer[f[k - 1]]
    <2>1. CASE k = 1
      BY <1>1, <2>1 DEF ListIs
    <2>2. CASE k # 1
      <3>1. k - 1 \in 1..(MaxLength + 1)
        BY <1>1, <2>2
      <3>2. CASE k - 1 <= Len(s)
        <4>1. f[k - 1] = s[k - 1] /\ s[k - 1] # NULL /\ k - 1 \in 1..Len(s)
          BY <1>1, <1>2, <3>1, <3>2
        <4>2. newer[s[k - 1]] = IF k - 1 = Len(s) THEN NULL ELSE s[k]
          BY <1>1, <4>1 DEF ListIs
        <4>3. f[k] = IF k - 1 = Len(s) THEN NULL ELSE s[k]
          BY <1>1, <3>2
        <4> QED
          BY <2>2, <4>1, <4>2, <4>3
      <3>3. CASE ~(k - 1 <= Len(s))
        BY <1>1, <2>2, <3>1, <3>3
      <3> QED
        BY <3>2, <3>3
    <2> QED
      BY <2>1, <2>2
  <1>4. Follows(f)
    BY <1>3 DEF Follows
  <1>5. Follows(EntryAt)
    BY <1>4, EntryAtFollows
  <1> HIDE DEF f
  <1>6. \A k \in 1..(MaxLength + 1) : EntryAt[k] = f[k]
    <2> DEFINE T == {k \in 1..(MaxLength + 1) : EntryAt[k] # f[k]}
    <2> SUFFICES ASSUME T # {}
                 PROVE  FALSE
      OBVIOUS
    <2>1. T \subseteq Nat
      BY <1>1
    <2>2. \E k \in T : \A j \in T : ~(j < k)
      <3> HIDE DEF T
      <3> QED
        BY <2>1, LeastNumber, Zenon
    <2>3. PICK k \in T : \A j \in T : ~(j < k)
      BY <2>2
    <2>4. k \in 1..(MaxLength + 1) /\ EntryAt[k] # f[k]
      BY <2>3
    <2>5. k # 1 => EntryAt[k - 1] = f[k - 1] /\ k - 1 \in 1..(MaxLength + 1)
      <3>1. SUFFICES ASSUME k # 1 PROVE EntryAt[k - 1] = f[k - 1] /\ k - 1 \in 1..(MaxLength + 1)
        OBVIOUS
      <3>2. k - 1 \in 1..(MaxLength + 1) /\ k - 1 < k
        BY <1>1, <2>4, <3>1
      <3> QED
        BY <2>3, <3>2
    <2>6. EntryAt[k] = IF k = 1 THEN oldest ELSE IF EntryAt[k - 1] = NULL THEN NULL ELSE newer[EntryAt[k - 1]]
      BY <1>5, <2>4 DEF Follows
    <2>7. f[k] = IF k = 1 THEN oldest ELSE IF f[k - 1] = NULL THEN NULL ELSE newer[f[k - 1]]
      BY <1>3, <2>4
    <2> QED
      BY <2>4, <2>5, <2>6, <2>7
  <1> QED
    BY <1>6 DEF f

-----------------------------------------------------------------------------
(* The inductive invariant *)

ProducerPlace == {"client", "pushLock", "pushLink", "pushUnlock", "pushPost"}
ConsumerPlace == {"client", "popSem", "waitSem", "popLock", "popUnlink", "popUnlock", "popReturn",
                  "destroyLock", "destroyBody"}
Place == ProducerPlace \cup ConsumerPlace

\* The threads of S that are at a place of P.
In(f, S, P) == {t \in S : f[t] \in P}

Unlinked == In(pc, Producer, {"pushLock", "pushLink"})      \* have an entry that is not in the list yet
Unposted == In(pc, Producer, {"pushUnlock", "pushPost"})    \* have linked it, the semaphore is not posted yet
Passed   == In(pc, Consumer, {"popLock", "popUnlink"})      \* have passed the semaphore
Taken    == In(pc, Consumer, {"popUnlock", "popReturn"})    \* have unlinked an entry

\* A thread that holds an entry privately.
Holds(t) == pc[t] \in {"pushLock", "pushLink", "popUnlock", "popReturn"}

PlaceInv ==
  /\ pc \in [Thread -> Place]
  /\ \A p \in Producer : pc[p] \in ProducerPlace
  /\ \A c \in Consumer : pc[c] \in ConsumerPlace

MutexInv ==
  \A t \in Thread : pc[t] \in {"pushLink", "pushUnlock", "popUnlink", "popUnlock", "destroyBody"} => mutex = t

\* An entry is in the list, or a thread has it, and then only this one.
EntryInv(s) ==
  /\ \A i \in 1..Len(s) : s[i] \in allocated
  /\ \A t \in Thread : Holds(t) => element[t] \in allocated /\ \A i \in 1..Len(s) : s[i] # element[t]
  /\ \A t, u \in Thread : Holds(t) /\ Holds(u) /\ element[t] = element[u] => t = u
  /\ \A e \in allocated : userData[e] \in Element

\* Every element in the list is counted by the semaphore, or its pusher has not
\* posted the semaphore yet, or its popper has passed the semaphore; every
\* accepted element is on its way in, in the list, on its way out or popped.
CountInv(s) ==
  /\ IsFiniteSet(Unlinked) /\ IsFiniteSet(Unposted) /\ IsFiniteSet(Passed) /\ IsFiniteSet(Taken)
  /\ Len(s) = semaphore + Cardinality(Passed) + Cardinality(Unposted)
  /\ accepted = popped + Len(s) + Cardinality(Unlinked) + Cardinality(Taken)

\* While a consumer destroys the queue no other is in it, and an empty list is one
\* whose elements have all been popped, and nothing will be pushed.
DestroyInv ==
  \A c \in Consumer : pc[c] \in {"destroyLock", "destroyBody"} =>
    /\ ~freed
    /\ \A d \in Consumer : d # c => pc[d] = "client"
    /\ newest = NULL => AllPopped

ListInv(s) == ListIs(s) /\ EntryInv(s) /\ CountInv(s)

Base == TypeOK /\ PlaceInv /\ MutexInv /\ DestroyInv /\ NobodyInsideWhenFreed

Inv == Base /\ \E s \in Seq(Entry) : ListInv(s)

-----------------------------------------------------------------------------
(* What a step that moves one thread does, and what it leaves alone *)

\* Producers and consumers are different threads, and NULL is none of them.
LEMMA Names ==
  /\ \A p \in Producer : p \in Thread /\ p \notin Consumer
  /\ \A c \in Consumer : c \in Thread /\ c \notin Producer
  /\ \A t \in Thread : t \in Producer \/ t \in Consumer
  /\ NULL \notin Thread /\ NULL \notin Entry
  /\ Producer \subseteq Thread /\ Consumer \subseteq Thread
  BY QueueAssumption DEF Thread

\* One thread goes to another place.
LEMMA Moved ==
  ASSUME NEW f \in [Thread -> Place], NEW t \in Thread, NEW to \in Place, NEW g, g = [f EXCEPT ![t] = to]
  PROVE  g \in [Thread -> Place] /\ g[t] = to /\ \A u \in Thread : u # t => g[u] = f[u]
  OBVIOUS

\* The size of a set that one element joins or leaves.
LEMMA CountMoved ==
  ASSUME NEW A, NEW B, NEW t, IsFiniteSet(A), \A u : u # t => (u \in A <=> u \in B)
  PROVE  /\ IsFiniteSet(B) /\ Cardinality(A) \in Nat /\ Cardinality(B) \in Nat
         /\ Cardinality(B) = Cardinality(A) + (IF t \in B THEN 1 ELSE 0) - (IF t \in A THEN 1 ELSE 0)
  <1>1. Cardinality(A) \in Nat
    BY FS_CardinalityType
  <1>2. CASE t \in B /\ t \notin A
    <2>1. B = A \cup {t}
      BY <1>2
    <2>2. IsFiniteSet(B) /\ Cardinality(B) = Cardinality(A) + 1
      BY <1>2, <2>1, FS_AddElement
    <2> QED
      BY <1>1, <1>2, <2>2
  <1>3. CASE t \notin B /\ t \in A
    <2>1. B = A \ {t}
      BY <1>3
    <2>2. IsFiniteSet(B) /\ Cardinality(B) = Cardinality(A) - 1
      BY <1>3, <2>1, FS_RemoveElement
    <2>3. Cardinality(B) \in Nat
      BY <2>2, FS_CardinalityType
    <2> QED
      BY <1>1, <1>3, <2>2, <2>3
  <1>4. CASE t \in B <=> t \in A
    <2>1. B = A
      BY <1>4
    <2> QED
      BY <1>1, <1>4, <2>1
  <1> QED
    BY <1>2, <1>3, <1>4

\* What a producer's step changes of the numbers in CountInv.
ProducerCounted(p, to) ==
  /\ IsFiniteSet(Unlinked') /\ IsFiniteSet(Unposted') /\ IsFiniteSet(Passed') /\ IsFiniteSet(Taken')
  /\ Cardinality(Unlinked) \in Nat /\ Cardinality(Unposted) \in Nat
  /\ Cardinality(Passed) \in Nat /\ Cardinality(Taken) \in Nat
  /\ Cardinality(Unlinked') = Cardinality(Unlinked)
       + (IF to \in {"pushLock", "pushLink"} THEN 1 ELSE 0)
       - (IF pc[p] \in {"pushLock", "pushLink"} THEN 1 ELSE 0)
  /\ Cardinality(Unposted') = Cardinality(Unposted)
       + (IF to \in {"pushUnlock", "pushPost"} THEN 1 ELSE 0)
       - (IF pc[p] \in {"pushUnlock", "pushPost"} THEN 1 ELSE 0)
  /\ Passed' = Passed /\ Taken' = Taken

\* A producer counts where it is, and only there (queue_push).
LEMMA ProducerCounts ==
  ASSUME PlaceInv, NEW s, CountInv(s), NEW p \in Producer, NEW to \in ProducerPlace, pc' = [pc EXCEPT ![p] = to]
  PROVE  ProducerCounted(p, to)
  <1>1. pc \in [Thread -> Place] /\ p \in Thread /\ to \in Place
    BY Names DEF PlaceInv, Place
  <1>2. IsFiniteSet(Unlinked) /\ IsFiniteSet(Unposted) /\ IsFiniteSet(Passed) /\ IsFiniteSet(Taken)
    BY DEF CountInv
  <1>3. Passed' = Passed /\ Taken' = Taken
    <2>1. \A c \in Consumer : pc'[c] = pc[c]
      BY <1>1, Moved, Names
    <2> QED
      BY <2>1 DEF Passed, Taken, In
  <1>4. Cardinality(Passed) \in Nat /\ Cardinality(Taken) \in Nat
    BY <1>2, FS_CardinalityType
  <1>5. /\ IsFiniteSet(Unlinked') /\ Cardinality(Unlinked) \in Nat
        /\ Cardinality(Unlinked') = Cardinality(Unlinked)
             + (IF to \in {"pushLock", "pushLink"} THEN 1 ELSE 0)
             - (IF pc[p] \in {"pushLock", "pushLink"} THEN 1 ELSE 0)
    <2>1. p \in Unlinked <=> pc[p] \in {"pushLock", "pushLink"}
      BY DEF Unlinked, In
    <2>2. p \in Unlinked' <=> to \in {"pushLock", "pushLink"}
      BY <1>1, Moved DEF Unlinked, In
    <2>3. \A u : u # p => (u \in Unlinked <=> u \in Unlinked')
      BY <1>1, Moved, Names DEF Unlinked, In
    <2>4. /\ IsFiniteSet(Unlinked') /\ Cardinality(Unlinked) \in Nat
          /\ Cardinality(Unlinked') = Cardinality(Unlinked) + (IF p \in Unlinked' THEN 1 ELSE 0) - (IF p \in Unlinked THEN 1 ELSE 0)
      BY <1>2, <2>3, CountMoved
    <2> QED
      BY <2>1, <2>2, <2>4
  <1>6. /\ IsFiniteSet(Unposted') /\ Cardinality(Unposted) \in Nat
        /\ Cardinality(Unposted') = Cardinality(Unposted)
             + (IF to \in {"pushUnlock", "pushPost"} THEN 1 ELSE 0)
             - (IF pc[p] \in {"pushUnlock", "pushPost"} THEN 1 ELSE 0)
    <2>1. p \in Unposted <=> pc[p] \in {"pushUnlock", "pushPost"}
      BY DEF Unposted, In
    <2>2. p \in Unposted' <=> to \in {"pushUnlock", "pushPost"}
      BY <1>1, Moved DEF Unposted, In
    <2>3. \A u : u # p => (u \in Unposted <=> u \in Unposted')
      BY <1>1, Moved, Names DEF Unposted, In
    <2>4. /\ IsFiniteSet(Unposted') /\ Cardinality(Unposted) \in Nat
          /\ Cardinality(Unposted') = Cardinality(Unposted) + (IF p \in Unposted' THEN 1 ELSE 0) - (IF p \in Unposted THEN 1 ELSE 0)
      BY <1>2, <2>3, CountMoved
    <2> QED
      BY <2>1, <2>2, <2>4
  <1> QED
    BY <1>2, <1>3, <1>4, <1>5, <1>6 DEF ProducerCounted

\* What a consumer's step changes of them.
ConsumerCounted(c, to) ==
  /\ IsFiniteSet(Unlinked') /\ IsFiniteSet(Unposted') /\ IsFiniteSet(Passed') /\ IsFiniteSet(Taken')
  /\ Cardinality(Unlinked) \in Nat /\ Cardinality(Unposted) \in Nat
  /\ Cardinality(Passed) \in Nat /\ Cardinality(Taken) \in Nat
  /\ Unlinked' = Unlinked /\ Unposted' = Unposted
  /\ Cardinality(Passed') = Cardinality(Passed)
       + (IF to \in {"popLock", "popUnlink"} THEN 1 ELSE 0)
       - (IF pc[c] \in {"popLock", "popUnlink"} THEN 1 ELSE 0)
  /\ Cardinality(Taken') = Cardinality(Taken)
       + (IF to \in {"popUnlock", "popReturn"} THEN 1 ELSE 0)
       - (IF pc[c] \in {"popUnlock", "popReturn"} THEN 1 ELSE 0)

\* So does a consumer (queue_pop, queue_waitFor, queue_destroy).
LEMMA ConsumerCounts ==
  ASSUME PlaceInv, NEW s, CountInv(s), NEW c \in Consumer, NEW to \in ConsumerPlace, pc' = [pc EXCEPT ![c] = to]
  PROVE  ConsumerCounted(c, to)
  <1>1. pc \in [Thread -> Place] /\ c \in Thread /\ to \in Place
    BY Names DEF PlaceInv, Place
  <1>2. IsFiniteSet(Unlinked) /\ IsFiniteSet(Unposted) /\ IsFiniteSet(Passed) /\ IsFiniteSet(Taken)
    BY DEF CountInv
  <1>3. Unlinked' = Unlinked /\ Unposted' = Unposted
    <2>1. \A p \in Producer : pc'[p] = pc[p]
      BY <1>1, Moved, Names
    <2> QED
      BY <2>1 DEF Unlinked, Unposted, In
  <1>4. Cardinality(Unlinked) \in Nat /\ Cardinality(Unposted) \in Nat
    BY <1>2, FS_CardinalityType
  <1>5. /\ IsFiniteSet(Passed') /\ Cardinality(Passed) \in Nat
        /\ Cardinality(Passed') = Cardinality(Passed)
             + (IF to \in {"popLock", "popUnlink"} THEN 1 ELSE 0)
             - (IF pc[c] \in {"popLock", "popUnlink"} THEN 1 ELSE 0)
    <2>1. c \in Passed <=> pc[c] \in {"popLock", "popUnlink"}
      BY DEF Passed, In
    <2>2. c \in Passed' <=> to \in {"popLock", "popUnlink"}
      BY <1>1, Moved DEF Passed, In
    <2>3. \A u : u # c => (u \in Passed <=> u \in Passed')
      BY <1>1, Moved, Names DEF Passed, In
    <2>4. /\ IsFiniteSet(Passed') /\ Cardinality(Passed) \in Nat
          /\ Cardinality(Passed') = Cardinality(Passed) + (IF c \in Passed' THEN 1 ELSE 0) - (IF c \in Passed THEN 1 ELSE 0)
      BY <1>2, <2>3, CountMoved
    <2> QED
      BY <2>1, <2>2, <2>4
  <1>6. /\ IsFiniteSet(Taken') /\ Cardinality(Taken) \in Nat
        /\ Cardinality(Taken') = Cardinality(Taken)
             + (IF to \in {"popUnlock", "popReturn"} THEN 1 ELSE 0)
             - (IF pc[c] \in {"popUnlock", "popReturn"} THEN 1 ELSE 0)
    <2>1. c \in Taken <=> pc[c] \in {"popUnlock", "popReturn"}
      BY DEF Taken, In
    <2>2. c \in Taken' <=> to \in {"popUnlock", "popReturn"}
      BY <1>1, Moved DEF Taken, In
    <2>3. \A u : u # c => (u \in Taken <=> u \in Taken')
      BY <1>1, Moved, Names DEF Taken, In
    <2>4. /\ IsFiniteSet(Taken') /\ Cardinality(Taken) \in Nat
          /\ Cardinality(Taken') = Cardinality(Taken) + (IF c \in Taken' THEN 1 ELSE 0) - (IF c \in Taken THEN 1 ELSE 0)
      BY <1>2, <2>3, CountMoved
    <2> QED
      BY <2>1, <2>2, <2>4
  <1> QED
    BY <1>2, <1>3, <1>4, <1>5, <1>6 DEF ConsumerCounted

\* The list is the same while its pointers are.
LEMMA SameList ==
  ASSUME NEW s, ListIs(s), UNCHANGED <<oldest, newest, newer>>
  PROVE  ListIs(s)'
  BY DEF ListIs

\* Entries stay where they are while no thread gets one.
LEMMA SameEntries ==
  ASSUME NEW s, EntryInv(s), UNCHANGED <<allocated, element, userData>>, \A t \in Thread : Holds(t)' => Holds(t)
  PROVE  EntryInv(s)'
  BY DEF EntryInv

-----------------------------------------------------------------------------
(* queue_push *)

\* Nobody destroys the queue once a push can begin, or the list is not empty.
LEMMA PushAllocStep ==
  ASSUME Base, NEW s \in Seq(Entry), ListInv(s), NEW p \in Producer, PushAlloc(p)
  PROVE  Base' /\ ListInv(s)'
  <1>0. PICK e \in Entry \ allocated :
          /\ allocated' = allocated \cup {e} /\ element' = [element EXCEPT ![p] = e]
          /\ userData' = [userData EXCEPT ![e] = <<p, calls[p] + 1>>]
    BY DEF PushAlloc
  <1>1. /\ ~freed /\ calls[p] < MaxPush /\ pc[p] = "client" /\ pc' = [pc EXCEPT ![p] = "pushLock"]
        /\ calls' = [calls EXCEPT ![p] = @ + 1] /\ accepted' = accepted + 1
        /\ UNCHANGED <<semaphore, mutex, oldest, newest, newer, freed, polled, popped>>
    BY DEF PushAlloc, Goto
  <1>2. p \in Thread /\ p \notin Consumer /\ pc \in [Thread -> Place] /\ "pushLock" \in Place
    BY Names DEF Base, PlaceInv, Place, ProducerPlace
  <1>3. pc' \in [Thread -> Place] /\ pc'[p] = "pushLock" /\ \A u \in Thread : u # p => pc'[u] = pc[u]
    BY <1>1, <1>2, Moved
  <1>4. /\ calls' \in [Producer -> 0..MaxPush] /\ calls'[p] = calls[p] + 1 /\ calls[p] \in 0..MaxPush
        /\ \A q \in Producer : q # p => calls'[q] = calls[q]
    BY <1>1, QueueAssumption DEF Base, TypeOK
  <1>5. <<p, calls[p] + 1>> \in Element
    BY <1>1, <1>4, QueueAssumption DEF Element
  <1>6. /\ element' \in [Thread -> Null(Entry)] /\ element'[p] = e
        /\ \A u \in Thread : u # p => element'[u] = element[u]
    BY <1>0, <1>2 DEF Base, TypeOK, Null
  <1>7. /\ userData' \in [Entry -> Null(Element)] /\ userData'[e] \in Element
        /\ \A f \in Entry : f # e => userData'[f] = userData[f]
    BY <1>0, <1>5 DEF Base, TypeOK, Null
  <1>8. accepted \in Nat /\ allocated \subseteq Entry /\ popped \in Nat
    BY DEF Base, TypeOK
  <1>9. TypeOK'
    BY <1>0, <1>1, <1>4, <1>6, <1>7, <1>8 DEF Base, TypeOK
  <1>10. PlaceInv'
    BY <1>2, <1>3, Names DEF Base, PlaceInv, ProducerPlace
  <1>11. MutexInv'
    BY <1>1, <1>3 DEF Base, MutexInv
  <1>12. ~AllPopped
    BY <1>1, <1>4, QueueAssumption DEF AllPopped
  <1>13. DestroyInv'
    BY <1>1, <1>2, <1>3, <1>12, Names DEF Base, DestroyInv
  <1>14. NobodyInsideWhenFreed'
    BY <1>1 DEF NobodyInsideWhenFreed
  <1>15. ListIs(s)'
    BY <1>1, SameList DEF ListInv
  <1>16. EntryInv(s)'
    <2>1. \A i \in 1..Len(s) : s[i] \in allocated /\ s[i] # e
      BY <1>0 DEF ListInv, EntryInv
    <2>2. \A t \in Thread : t # p /\ Holds(t)' => Holds(t) /\ element[t] \in allocated /\ element'[t] = element[t]
      BY <1>3, <1>6 DEF ListInv, EntryInv, Holds
    <2>3. \A f \in allocated' : userData'[f] \in Element
      BY <1>0, <1>7, <1>8 DEF ListInv, EntryInv
    <2> QED
      BY <1>0, <1>6, <2>1, <2>2, <2>3 DEF ListInv, EntryInv
  <1>17. CountInv(s)'
    <2>1. "pushLock" \in ProducerPlace /\ PlaceInv /\ CountInv(s)
      BY DEF ProducerPlace, Base, ListInv
    <2>2. ProducerCounted(p, "pushLock")
      BY <1>1, <2>1, ProducerCounts
    <2>3. /\ IsFiniteSet(Unlinked') /\ IsFiniteSet(Unposted') /\ IsFiniteSet(Passed') /\ IsFiniteSet(Taken')
          /\ Cardinality(Unlinked') = Cardinality(Unlinked) + 1 /\ Cardinality(Unposted') = Cardinality(Unposted)
          /\ Cardinality(Passed') = Cardinality(Passed) /\ Cardinality(Taken') = Cardinality(Taken)
          /\ Cardinality(Unlinked) \in Nat /\ Cardinality(Unposted) \in Nat
          /\ Cardinality(Passed) \in Nat /\ Cardinality(Taken) \in Nat
      BY <1>1, <2>2 DEF ProducerCounted
    <2>4. Len(s) \in Nat
      OBVIOUS
    <2> QED
      BY <1>1, <1>8, <2>3, <2>4 DEF ListInv, CountInv
  <1> QED
    BY <1>9, <1>10, <1>11, <1>13, <1>14, <1>15, <1>16, <1>17 DEF Base, ListInv

\* A push that fails for want of memory leaves no trace in the queue.
LEMMA PushNoMemoryStep ==
  ASSUME Base, NEW s \in Seq(Entry), ListInv(s), NEW p \in Producer, PushNoMemory(p)
  PROVE  Base' /\ ListInv(s)'
  <1>1. /\ ~freed /\ calls[p] < MaxPush /\ calls' = [calls EXCEPT ![p] = @ + 1]
        /\ UNCHANGED <<semaphore, mutex, oldest, newest, newer, userData, allocated, freed, pc, element,
                       accepted, polled, popped>>
    BY DEF PushNoMemory, list
  <1>2. /\ calls' \in [Producer -> 0..MaxPush] /\ calls[p] \in 0..MaxPush
    BY <1>1, QueueAssumption DEF Base, TypeOK
  <1>3. ~AllPopped
    BY <1>1, <1>2, QueueAssumption DEF AllPopped
  <1> USE <1>1
  <1>4. TypeOK'
    BY <1>2 DEF Base, TypeOK
  <1>5. PlaceInv' /\ MutexInv' /\ NobodyInsideWhenFreed'
    BY DEF Base, PlaceInv, MutexInv, NobodyInsideWhenFreed
  <1>6. DestroyInv'
    BY <1>3 DEF Base, DestroyInv
  <1>7. ListIs(s)' /\ EntryInv(s)'
    BY SameList, SameEntries DEF ListInv, Holds
  <1>8. CountInv(s)'
    BY DEF ListInv, CountInv, Unlinked, Unposted, Passed, Taken, In
  <1> QED
    BY <1>4, <1>5, <1>6, <1>7, <1>8 DEF Base, ListInv

\* The producer gets the mutex, or waits for it.
LEMMA PushLockStep ==
  ASSUME Base, NEW s \in Seq(Entry), ListInv(s), NEW p \in Producer, PushLock(p)
  PROVE  Base' /\ ListInv(s)'
  <1>1. /\ pc[p] = "pushLock" /\ pc' = [pc EXCEPT ![p] = "pushLink"] /\ mutex = NULL /\ mutex' = p
        /\ UNCHANGED <<semaphore, oldest, newest, newer, userData, allocated, freed, element, calls,
                       accepted, polled, popped>>
    BY DEF PushLock, Goto, Lock, list, clients
  <1>2. p \in Thread /\ p \notin Consumer /\ pc \in [Thread -> Place] /\ "pushLink" \in Place
    BY Names DEF Base, PlaceInv, Place, ProducerPlace
  <1>3. pc' \in [Thread -> Place] /\ pc'[p] = "pushLink" /\ \A u \in Thread : u # p => pc'[u] = pc[u]
    BY <1>1, <1>2, Moved
  <1>4. TypeOK'
    BY <1>1, <1>2 DEF Base, TypeOK, Null
  <1>5. PlaceInv'
    BY <1>2, <1>3, Names DEF Base, PlaceInv, ProducerPlace
  <1>6. MutexInv'
    BY <1>1, <1>3, Names DEF Base, MutexInv
  <1>7. DestroyInv'
    BY <1>1, <1>2, <1>3, Names DEF Base, DestroyInv, AllPopped
  <1>8. NobodyInsideWhenFreed'
    BY <1>1, <1>2 DEF Base, NobodyInsideWhenFreed
  <1>9. ListIs(s)' /\ EntryInv(s)'
    BY <1>1, <1>3, SameList, SameEntries DEF ListInv, Holds
  <1>10. CountInv(s)'
    <2>1. "pushLink" \in ProducerPlace /\ PlaceInv /\ CountInv(s)
      BY DEF ProducerPlace, Base, ListInv
    <2>2. ProducerCounted(p, "pushLink")
      BY <1>1, <2>1, ProducerCounts
    <2>3. /\ IsFiniteSet(Unlinked') /\ IsFiniteSet(Unposted') /\ IsFiniteSet(Passed') /\ IsFiniteSet(Taken')
          /\ Cardinality(Unlinked') = Cardinality(Unlinked) /\ Cardinality(Unposted') = Cardinality(Unposted)
          /\ Cardinality(Passed') = Cardinality(Passed) /\ Cardinality(Taken') = Cardinality(Taken)
          /\ Cardinality(Unlinked) \in Nat /\ Cardinality(Unposted) \in Nat
          /\ Cardinality(Passed) \in Nat /\ Cardinality(Taken) \in Nat
      BY <1>1, <2>2 DEF ProducerCounted
    <2> QED
      BY <1>1, <2>3 DEF ListInv, CountInv
  <1> QED
    BY <1>4, <1>5, <1>6, <1>7, <1>8, <1>9, <1>10 DEF Base, ListInv

\* The pusher gives the mutex back.
LEMMA PushUnlockStep ==
  ASSUME Base, NEW s \in Seq(Entry), ListInv(s), NEW p \in Producer, PushUnlock(p)
  PROVE  Base' /\ ListInv(s)'
  <1>1. /\ pc[p] = "pushUnlock" /\ pc' = [pc EXCEPT ![p] = "pushPost"] /\ mutex' = NULL
        /\ UNCHANGED <<semaphore, oldest, newest, newer, userData, allocated, freed, element, calls, accepted, polled, popped>>
    BY DEF PushUnlock, Goto, Unlock, list, clients
  <1>2. p \in Thread /\ p \notin Consumer /\ pc \in [Thread -> Place] /\ "pushPost" \in Place
    BY Names DEF Base, PlaceInv, Place, ProducerPlace
  <1>3. pc' \in [Thread -> Place] /\ pc'[p] = "pushPost" /\ \A u \in Thread : u # p => pc'[u] = pc[u]
    BY <1>1, <1>2, Moved
  <1>4. TypeOK'
    BY <1>1, <1>2 DEF Base, TypeOK, Null
  <1>5. PlaceInv'
    BY <1>2, <1>3, Names DEF Base, PlaceInv, ProducerPlace
  <1>6. MutexInv'
    BY <1>1, <1>3, Names DEF Base, MutexInv
  <1>7. DestroyInv'
    BY <1>1, <1>2, <1>3, Names DEF Base, DestroyInv, AllPopped
  <1>8. NobodyInsideWhenFreed'
    BY <1>1, <1>2, <1>3 DEF Base, NobodyInsideWhenFreed
  <1>9. ListIs(s)' /\ EntryInv(s)'
    BY <1>1, <1>3, SameList, SameEntries DEF ListInv, Holds
  <1>10. CountInv(s)'
    <2>1. "pushPost" \in ProducerPlace /\ PlaceInv /\ CountInv(s)
      BY DEF ProducerPlace, Base, ListInv
    <2>2. ProducerCounted(p, "pushPost")
      BY <1>1, <2>1, ProducerCounts
    <2>3. /\ IsFiniteSet(Unlinked') /\ IsFiniteSet(Unposted') /\ IsFiniteSet(Passed') /\ IsFiniteSet(Taken')
          /\ Cardinality(Unlinked') = Cardinality(Unlinked)
          /\ Cardinality(Unposted') = Cardinality(Unposted)
          /\ Cardinality(Passed') = Cardinality(Passed)
          /\ Cardinality(Taken') = Cardinality(Taken)
          /\ Cardinality(Unlinked) \in Nat /\ Cardinality(Unposted) \in Nat
          /\ Cardinality(Passed) \in Nat /\ Cardinality(Taken) \in Nat
      BY <1>1, <2>2 DEF ProducerCounted
    <2>4. Len(s) \in Nat /\ semaphore \in Nat /\ accepted \in Nat /\ popped \in Nat
      BY DEF Base, TypeOK
    <2> QED
      BY <1>1, <2>3, <2>4 DEF ListInv, CountInv
  <1> QED
    BY <1>4, <1>5, <1>6, <1>7, <1>8, <1>9, <1>10 DEF Base, ListInv

\* The element that was linked is now counted by the semaphore.
LEMMA PushPostStep ==
  ASSUME Base, NEW s \in Seq(Entry), ListInv(s), NEW p \in Producer, PushPost(p)
  PROVE  Base' /\ ListInv(s)'
  <1>1. /\ pc[p] = "pushPost" /\ pc' = [pc EXCEPT ![p] = "client"]
        /\ semaphore' = semaphore + 1 /\ element' = [element EXCEPT ![p] = NULL]
        /\ UNCHANGED <<mutex, oldest, newest, newer, userData, allocated, freed, calls, accepted, polled, popped>>
    BY DEF PushPost, Goto, list, clients
  <1>2. p \in Thread /\ p \notin Consumer /\ pc \in [Thread -> Place] /\ "client" \in Place
    BY Names DEF Base, PlaceInv, Place, ProducerPlace
  <1>3. pc' \in [Thread -> Place] /\ pc'[p] = "client" /\ \A u \in Thread : u # p => pc'[u] = pc[u]
    BY <1>1, <1>2, Moved
  <1>e. /\ element' \in [Thread -> Null(Entry)] /\ \A u \in Thread : u # p => element'[u] = element[u]
        /\ semaphore' \in Nat
    BY <1>1, <1>2 DEF Base, TypeOK, Null
  <1>4. TypeOK'
    BY <1>1, <1>2, <1>e DEF Base, TypeOK, Null
  <1>5. PlaceInv'
    BY <1>2, <1>3, Names DEF Base, PlaceInv, ProducerPlace
  <1>6. MutexInv'
    BY <1>1, <1>3, Names DEF Base, MutexInv
  <1>7. DestroyInv'
    BY <1>1, <1>2, <1>3, Names, <1>e DEF Base, DestroyInv, AllPopped
  <1>8. NobodyInsideWhenFreed'
    BY <1>1, <1>2, <1>3, <1>e DEF Base, NobodyInsideWhenFreed
  <1>9. ListIs(s)' /\ EntryInv(s)'
    <2>1. ListIs(s)'
      BY <1>1, SameList DEF ListInv
    <2>2. \A t \in Thread : Holds(t)' => Holds(t) /\ element'[t] = element[t]
      BY <1>1, <1>3, <1>e DEF Holds
    <2>3. EntryInv(s)'
      BY <1>1, <2>2 DEF ListInv, EntryInv
    <2> QED
      BY <2>1, <2>3
  <1>10. CountInv(s)'
    <2>1. "client" \in ProducerPlace /\ PlaceInv /\ CountInv(s)
      BY DEF ProducerPlace, Base, ListInv
    <2>2. ProducerCounted(p, "client")
      BY <1>1, <2>1, ProducerCounts
    <2>3. /\ IsFiniteSet(Unlinked') /\ IsFiniteSet(Unposted') /\ IsFiniteSet(Passed') /\ IsFiniteSet(Taken')
          /\ Cardinality(Unlinked') = Cardinality(Unlinked)
          /\ Cardinality(Unposted') = Cardinality(Unposted) - 1
          /\ Cardinality(Passed') = Cardinality(Passed)
          /\ Cardinality(Taken') = Cardinality(Taken)
          /\ Cardinality(Unlinked) \in Nat /\ Cardinality(Unposted) \in Nat
          /\ Cardinality(Passed) \in Nat /\ Cardinality(Taken) \in Nat
      BY <1>1, <2>2 DEF ProducerCounted
    <2>4. Len(s) \in Nat /\ semaphore \in Nat /\ accepted \in Nat /\ popped \in Nat
      BY DEF Base, TypeOK
    <2> QED
      BY <1>1, <2>3, <2>4 DEF ListInv, CountInv
  <1> QED
    BY <1>4, <1>5, <1>6, <1>7, <1>8, <1>9, <1>10 DEF Base, ListInv

-----------------------------------------------------------------------------
(* queue_pop, queue_waitFor, doPop, queue_poll *)

\* A consumer calls queue_pop while the queue is there.
LEMMA CallPopStep ==
  ASSUME Base, NEW s \in Seq(Entry), ListInv(s), NEW c \in Consumer, CallPop(c)
  PROVE  Base' /\ ListInv(s)'
  <1>1. /\ pc[c] = "client" /\ pc' = [pc EXCEPT ![c] = "popSem"] /\ InUse
        /\ UNCHANGED <<semaphore, mutex, oldest, newest, newer, userData, allocated, freed, element, calls, accepted, polled, popped>>
    BY DEF CallPop, Goto, list, clients
  <1>2. c \in Thread /\ c \notin Producer /\ pc \in [Thread -> Place] /\ "popSem" \in Place
    BY Names DEF Base, PlaceInv, Place, ConsumerPlace
  <1>3. pc' \in [Thread -> Place] /\ pc'[c] = "popSem" /\ \A u \in Thread : u # c => pc'[u] = pc[u]
    BY <1>1, <1>2, Moved
  <1>4. TypeOK'
    BY <1>1, <1>2 DEF Base, TypeOK, Null
  <1>5. PlaceInv'
    BY <1>2, <1>3, Names DEF Base, PlaceInv, ConsumerPlace
  <1>6. MutexInv'
    BY <1>1, <1>3, Names DEF Base, MutexInv
  <1>7. DestroyInv'
    BY <1>1, <1>2, <1>3, Names DEF InUse, Base, DestroyInv, AllPopped
  <1>8. NobodyInsideWhenFreed'
    BY <1>1 DEF InUse, NobodyInsideWhenFreed
  <1>9. ListIs(s)' /\ EntryInv(s)'
    BY <1>1, <1>3, SameList, SameEntries DEF ListInv, Holds
  <1>10. CountInv(s)'
    <2>1. "popSem" \in ConsumerPlace /\ PlaceInv /\ CountInv(s)
      BY DEF ConsumerPlace, Base, ListInv
    <2>2. ConsumerCounted(c, "popSem")
      BY <1>1, <2>1, ConsumerCounts
    <2>3. /\ IsFiniteSet(Unlinked') /\ IsFiniteSet(Unposted') /\ IsFiniteSet(Passed') /\ IsFiniteSet(Taken')
          /\ Cardinality(Unlinked') = Cardinality(Unlinked)
          /\ Cardinality(Unposted') = Cardinality(Unposted)
          /\ Cardinality(Passed') = Cardinality(Passed)
          /\ Cardinality(Taken') = Cardinality(Taken)
          /\ Cardinality(Unlinked) \in Nat /\ Cardinality(Unposted) \in Nat
          /\ Cardinality(Passed) \in Nat /\ Cardinality(Taken) \in Nat
      BY <1>1, <2>2 DEF ConsumerCounted
    <2>4. Len(s) \in Nat /\ semaphore \in Nat /\ accepted \in Nat /\ popped \in Nat
      BY DEF Base, TypeOK
    <2> QED
      BY <1>1, <2>3, <2>4 DEF ListInv, CountInv
  <1> QED
    BY <1>4, <1>5, <1>6, <1>7, <1>8, <1>9, <1>10 DEF Base, ListInv

\* A consumer calls queue_waitFor while the queue is there.
LEMMA CallWaitForStep ==
  ASSUME Base, NEW s \in Seq(Entry), ListInv(s), NEW c \in Consumer, CallWaitFor(c)
  PROVE  Base' /\ ListInv(s)'
  <1>1. /\ pc[c] = "client" /\ pc' = [pc EXCEPT ![c] = "waitSem"] /\ InUse
        /\ UNCHANGED <<semaphore, mutex, oldest, newest, newer, userData, allocated, freed, element, calls, accepted, polled, popped>>
    BY DEF CallWaitFor, Goto, list, clients
  <1>2. c \in Thread /\ c \notin Producer /\ pc \in [Thread -> Place] /\ "waitSem" \in Place
    BY Names DEF Base, PlaceInv, Place, ConsumerPlace
  <1>3. pc' \in [Thread -> Place] /\ pc'[c] = "waitSem" /\ \A u \in Thread : u # c => pc'[u] = pc[u]
    BY <1>1, <1>2, Moved
  <1>4. TypeOK'
    BY <1>1, <1>2 DEF Base, TypeOK, Null
  <1>5. PlaceInv'
    BY <1>2, <1>3, Names DEF Base, PlaceInv, ConsumerPlace
  <1>6. MutexInv'
    BY <1>1, <1>3, Names DEF Base, MutexInv
  <1>7. DestroyInv'
    BY <1>1, <1>2, <1>3, Names DEF InUse, Base, DestroyInv, AllPopped
  <1>8. NobodyInsideWhenFreed'
    BY <1>1 DEF InUse, NobodyInsideWhenFreed
  <1>9. ListIs(s)' /\ EntryInv(s)'
    BY <1>1, <1>3, SameList, SameEntries DEF ListInv, Holds
  <1>10. CountInv(s)'
    <2>1. "waitSem" \in ConsumerPlace /\ PlaceInv /\ CountInv(s)
      BY DEF ConsumerPlace, Base, ListInv
    <2>2. ConsumerCounted(c, "waitSem")
      BY <1>1, <2>1, ConsumerCounts
    <2>3. /\ IsFiniteSet(Unlinked') /\ IsFiniteSet(Unposted') /\ IsFiniteSet(Passed') /\ IsFiniteSet(Taken')
          /\ Cardinality(Unlinked') = Cardinality(Unlinked)
          /\ Cardinality(Unposted') = Cardinality(Unposted)
          /\ Cardinality(Passed') = Cardinality(Passed)
          /\ Cardinality(Taken') = Cardinality(Taken)
          /\ Cardinality(Unlinked) \in Nat /\ Cardinality(Unposted) \in Nat
          /\ Cardinality(Passed) \in Nat /\ Cardinality(Taken) \in Nat
      BY <1>1, <2>2 DEF ConsumerCounted
    <2>4. Len(s) \in Nat /\ semaphore \in Nat /\ accepted \in Nat /\ popped \in Nat
      BY DEF Base, TypeOK
    <2> QED
      BY <1>1, <2>3, <2>4 DEF ListInv, CountInv
  <1> QED
    BY <1>4, <1>5, <1>6, <1>7, <1>8, <1>9, <1>10 DEF Base, ListInv

\* A consumer that has passed the semaphore has claimed an element of the list.
LEMMA PopSemWaitStep ==
  ASSUME Base, NEW s \in Seq(Entry), ListInv(s), NEW c \in Consumer, PopSemWait(c)
  PROVE  Base' /\ ListInv(s)'
  <1>1. /\ pc[c] \in {"popSem", "waitSem"} /\ pc' = [pc EXCEPT ![c] = "popLock"]
        /\ semaphore > 0 /\ semaphore' = semaphore - 1
        /\ UNCHANGED <<mutex, oldest, newest, newer, userData, allocated, freed, element, calls, accepted, polled, popped>>
    BY DEF PopSemWait, Goto, list, clients
  <1>2. c \in Thread /\ c \notin Producer /\ pc \in [Thread -> Place] /\ "popLock" \in Place
    BY Names DEF Base, PlaceInv, Place, ConsumerPlace
  <1>3. pc' \in [Thread -> Place] /\ pc'[c] = "popLock" /\ \A u \in Thread : u # c => pc'[u] = pc[u]
    BY <1>1, <1>2, Moved
  <1>e. semaphore' \in Nat
    BY <1>1 DEF Base, TypeOK
  <1>4. TypeOK'
    BY <1>1, <1>2, <1>e DEF Base, TypeOK, Null
  <1>5. PlaceInv'
    BY <1>2, <1>3, Names DEF Base, PlaceInv, ConsumerPlace
  <1>6. MutexInv'
    BY <1>1, <1>3, Names DEF Base, MutexInv
  <1>7. DestroyInv'
    BY <1>1, <1>2, <1>3, Names, <1>e DEF Base, DestroyInv, AllPopped
  <1>8. NobodyInsideWhenFreed'
    BY <1>1, <1>2, <1>3, <1>e DEF Base, NobodyInsideWhenFreed
  <1>9. ListIs(s)' /\ EntryInv(s)'
    BY <1>1, <1>3, SameList, SameEntries DEF ListInv, Holds
  <1>10. CountInv(s)'
    <2>1. "popLock" \in ConsumerPlace /\ PlaceInv /\ CountInv(s)
      BY DEF ConsumerPlace, Base, ListInv
    <2>2. ConsumerCounted(c, "popLock")
      BY <1>1, <2>1, ConsumerCounts
    <2>3. /\ IsFiniteSet(Unlinked') /\ IsFiniteSet(Unposted') /\ IsFiniteSet(Passed') /\ IsFiniteSet(Taken')
          /\ Cardinality(Unlinked') = Cardinality(Unlinked)
          /\ Cardinality(Unposted') = Cardinality(Unposted)
          /\ Cardinality(Passed') = Cardinality(Passed) + 1
          /\ Cardinality(Taken') = Cardinality(Taken)
          /\ Cardinality(Unlinked) \in Nat /\ Cardinality(Unposted) \in Nat
          /\ Cardinality(Passed) \in Nat /\ Cardinality(Taken) \in Nat
      BY <1>1, <2>2 DEF ConsumerCounted
    <2>4. Len(s) \in Nat /\ semaphore \in Nat /\ accepted \in Nat /\ popped \in Nat
      BY DEF Base, TypeOK
    <2> QED
      BY <1>1, <2>3, <2>4 DEF ListInv, CountInv
  <1> QED
    BY <1>4, <1>5, <1>6, <1>7, <1>8, <1>9, <1>10 DEF Base, ListInv

\* A wait that fails claims nothing.
LEMMA WaitForFailsStep ==
  ASSUME Base, NEW s \in Seq(Entry), ListInv(s), NEW c \in Consumer, WaitForFails(c)
  PROVE  Base' /\ ListInv(s)'
  <1>1. /\ pc[c] = "waitSem" /\ pc' = [pc EXCEPT ![c] = "client"]
        /\ UNCHANGED <<semaphore, mutex, oldest, newest, newer, userData, allocated, freed, element, calls, accepted, polled, popped>>
    BY DEF WaitForFails, Goto, list, clients
  <1>2. c \in Thread /\ c \notin Producer /\ pc \in [Thread -> Place] /\ "client" \in Place
    BY Names DEF Base, PlaceInv, Place, ConsumerPlace
  <1>3. pc' \in [Thread -> Place] /\ pc'[c] = "client" /\ \A u \in Thread : u # c => pc'[u] = pc[u]
    BY <1>1, <1>2, Moved
  <1>4. TypeOK'
    BY <1>1, <1>2 DEF Base, TypeOK, Null
  <1>5. PlaceInv'
    BY <1>2, <1>3, Names DEF Base, PlaceInv, ConsumerPlace
  <1>6. MutexInv'
    BY <1>1, <1>3, Names DEF Base, MutexInv
  <1>7. DestroyInv'
    BY <1>1, <1>2, <1>3, Names DEF Base, DestroyInv, AllPopped
  <1>8. NobodyInsideWhenFreed'
    BY <1>1, <1>2, <1>3 DEF Base, NobodyInsideWhenFreed
  <1>9. ListIs(s)' /\ EntryInv(s)'
    BY <1>1, <1>3, SameList, SameEntries DEF ListInv, Holds
  <1>10. CountInv(s)'
    <2>1. "client" \in ConsumerPlace /\ PlaceInv /\ CountInv(s)
      BY DEF ConsumerPlace, Base, ListInv
    <2>2. ConsumerCounted(c, "client")
      BY <1>1, <2>1, ConsumerCounts
    <2>3. /\ IsFiniteSet(Unlinked') /\ IsFiniteSet(Unposted') /\ IsFiniteSet(Passed') /\ IsFiniteSet(Taken')
          /\ Cardinality(Unlinked') = Cardinality(Unlinked)
          /\ Cardinality(Unposted') = Cardinality(Unposted)
          /\ Cardinality(Passed') = Cardinality(Passed)
          /\ Cardinality(Taken') = Cardinality(Taken)
          /\ Cardinality(Unlinked) \in Nat /\ Cardinality(Unposted) \in Nat
          /\ Cardinality(Passed) \in Nat /\ Cardinality(Taken) \in Nat
      BY <1>1, <2>2 DEF ConsumerCounted
    <2>4. Len(s) \in Nat /\ semaphore \in Nat /\ accepted \in Nat /\ popped \in Nat
      BY DEF Base, TypeOK
    <2> QED
      BY <1>1, <2>3, <2>4 DEF ListInv, CountInv
  <1> QED
    BY <1>4, <1>5, <1>6, <1>7, <1>8, <1>9, <1>10 DEF Base, ListInv

\* The popper gets the mutex.
LEMMA PopLockStep ==
  ASSUME Base, NEW s \in Seq(Entry), ListInv(s), NEW c \in Consumer, PopLock(c)
  PROVE  Base' /\ ListInv(s)'
  <1>1. /\ pc[c] = "popLock" /\ pc' = [pc EXCEPT ![c] = "popUnlink"] /\ mutex = NULL /\ mutex' = c
        /\ UNCHANGED <<semaphore, oldest, newest, newer, userData, allocated, freed, element, calls, accepted, polled, popped>>
    BY DEF PopLock, Goto, Lock, list, clients
  <1>2. c \in Thread /\ c \notin Producer /\ pc \in [Thread -> Place] /\ "popUnlink" \in Place
    BY Names DEF Base, PlaceInv, Place, ConsumerPlace
  <1>3. pc' \in [Thread -> Place] /\ pc'[c] = "popUnlink" /\ \A u \in Thread : u # c => pc'[u] = pc[u]
    BY <1>1, <1>2, Moved
  <1>4. TypeOK'
    BY <1>1, <1>2 DEF Base, TypeOK, Null
  <1>5. PlaceInv'
    BY <1>2, <1>3, Names DEF Base, PlaceInv, ConsumerPlace
  <1>6. MutexInv'
    BY <1>1, <1>3, Names DEF Base, MutexInv
  <1>7. DestroyInv'
    BY <1>1, <1>2, <1>3, Names DEF Base, DestroyInv, AllPopped
  <1>8. NobodyInsideWhenFreed'
    BY <1>1, <1>2, <1>3 DEF Base, NobodyInsideWhenFreed
  <1>9. ListIs(s)' /\ EntryInv(s)'
    BY <1>1, <1>3, SameList, SameEntries DEF ListInv, Holds
  <1>10. CountInv(s)'
    <2>1. "popUnlink" \in ConsumerPlace /\ PlaceInv /\ CountInv(s)
      BY DEF ConsumerPlace, Base, ListInv
    <2>2. ConsumerCounted(c, "popUnlink")
      BY <1>1, <2>1, ConsumerCounts
    <2>3. /\ IsFiniteSet(Unlinked') /\ IsFiniteSet(Unposted') /\ IsFiniteSet(Passed') /\ IsFiniteSet(Taken')
          /\ Cardinality(Unlinked') = Cardinality(Unlinked)
          /\ Cardinality(Unposted') = Cardinality(Unposted)
          /\ Cardinality(Passed') = Cardinality(Passed)
          /\ Cardinality(Taken') = Cardinality(Taken)
          /\ Cardinality(Unlinked) \in Nat /\ Cardinality(Unposted) \in Nat
          /\ Cardinality(Passed) \in Nat /\ Cardinality(Taken) \in Nat
      BY <1>1, <2>2 DEF ConsumerCounted
    <2>4. Len(s) \in Nat /\ semaphore \in Nat /\ accepted \in Nat /\ popped \in Nat
      BY DEF Base, TypeOK
    <2> QED
      BY <1>1, <2>3, <2>4 DEF ListInv, CountInv
  <1> QED
    BY <1>4, <1>5, <1>6, <1>7, <1>8, <1>9, <1>10 DEF Base, ListInv

\* The popper gives the mutex back.
LEMMA PopUnlockStep ==
  ASSUME Base, NEW s \in Seq(Entry), ListInv(s), NEW c \in Consumer, PopUnlock(c)
  PROVE  Base' /\ ListInv(s)'
  <1>1. /\ pc[c] = "popUnlock" /\ pc' = [pc EXCEPT ![c] = "popReturn"] /\ mutex' = NULL
        /\ UNCHANGED <<semaphore, oldest, newest, newer, userData, allocated, freed, element, calls, accepted, polled, popped>>
    BY DEF PopUnlock, Goto, Unlock, list, clients
  <1>2. c \in Thread /\ c \notin Producer /\ pc \in [Thread -> Place] /\ "popReturn" \in Place
    BY Names DEF Base, PlaceInv, Place, ConsumerPlace
  <1>3. pc' \in [Thread -> Place] /\ pc'[c] = "popReturn" /\ \A u \in Thread : u # c => pc'[u] = pc[u]
    BY <1>1, <1>2, Moved
  <1>4. TypeOK'
    BY <1>1, <1>2 DEF Base, TypeOK, Null
  <1>5. PlaceInv'
    BY <1>2, <1>3, Names DEF Base, PlaceInv, ConsumerPlace
  <1>6. MutexInv'
    BY <1>1, <1>3, Names DEF Base, MutexInv
  <1>7. DestroyInv'
    BY <1>1, <1>2, <1>3, Names DEF Base, DestroyInv, AllPopped
  <1>8. NobodyInsideWhenFreed'
    BY <1>1, <1>2, <1>3 DEF Base, NobodyInsideWhenFreed
  <1>9. ListIs(s)' /\ EntryInv(s)'
    BY <1>1, <1>3, SameList, SameEntries DEF ListInv, Holds
  <1>10. CountInv(s)'
    <2>1. "popReturn" \in ConsumerPlace /\ PlaceInv /\ CountInv(s)
      BY DEF ConsumerPlace, Base, ListInv
    <2>2. ConsumerCounted(c, "popReturn")
      BY <1>1, <2>1, ConsumerCounts
    <2>3. /\ IsFiniteSet(Unlinked') /\ IsFiniteSet(Unposted') /\ IsFiniteSet(Passed') /\ IsFiniteSet(Taken')
          /\ Cardinality(Unlinked') = Cardinality(Unlinked)
          /\ Cardinality(Unposted') = Cardinality(Unposted)
          /\ Cardinality(Passed') = Cardinality(Passed)
          /\ Cardinality(Taken') = Cardinality(Taken)
          /\ Cardinality(Unlinked) \in Nat /\ Cardinality(Unposted) \in Nat
          /\ Cardinality(Passed) \in Nat /\ Cardinality(Taken) \in Nat
      BY <1>1, <2>2 DEF ConsumerCounted
    <2>4. Len(s) \in Nat /\ semaphore \in Nat /\ accepted \in Nat /\ popped \in Nat
      BY DEF Base, TypeOK
    <2> QED
      BY <1>1, <2>3, <2>4 DEF ListInv, CountInv
  <1> QED
    BY <1>4, <1>5, <1>6, <1>7, <1>8, <1>9, <1>10 DEF Base, ListInv

\* Linking the entry appends it to the list, empty or not.
LEMMA PushLinkStep ==
  ASSUME Base, NEW s \in Seq(Entry), ListInv(s), NEW p \in Producer, PushLink(p), NEW e, e = element[p]
  PROVE  e \in Entry /\ Base' /\ ListInv(Append(s, e))'
  <1>1. /\ pc[p] = "pushLink" /\ pc' = [pc EXCEPT ![p] = "pushUnlock"]
        /\ oldest' = (IF newest = NULL THEN e ELSE oldest) /\ newest' = e
        /\ newer' = [f \in Entry |-> IF f = e THEN NULL ELSE IF f = newest THEN e ELSE newer[f]]
        /\ UNCHANGED <<semaphore, mutex, userData, allocated, freed, element, calls, accepted, polled, popped>>
    BY DEF PushLink, Goto, clients
  <1>2. p \in Thread /\ p \notin Consumer /\ pc \in [Thread -> Place] /\ "pushUnlock" \in Place
    BY Names DEF Base, PlaceInv, Place, ProducerPlace
  <1>3. pc' \in [Thread -> Place] /\ pc'[p] = "pushUnlock" /\ \A u \in Thread : u # p => pc'[u] = pc[u]
    BY <1>1, <1>2, Moved
  <1>4. /\ e \in allocated /\ e \in Entry /\ e # NULL /\ \A i \in 1..Len(s) : s[i] # e
        /\ \A t \in Thread : t # p /\ Holds(t) => element[t] # e
    BY <1>1, <1>2, Names DEF ListInv, EntryInv, Holds, Base, TypeOK
  <1>5. newer' \in [Entry -> Null(Entry)]
    BY <1>1, <1>4 DEF Base, TypeOK, Null
  <1>6. TypeOK'
    BY <1>1, <1>4, <1>5 DEF Base, TypeOK, Null
  <1>7. PlaceInv'
    BY <1>2, <1>3, Names DEF Base, PlaceInv, ProducerPlace
  <1>8. MutexInv'
    BY <1>1, <1>3, Names DEF Base, MutexInv
  <1>9. DestroyInv'
    BY <1>1, <1>2, <1>3, <1>4, Names DEF Base, DestroyInv, AllPopped
  <1>10. NobodyInsideWhenFreed'
    BY <1>1, <1>2 DEF Base, NobodyInsideWhenFreed
  <1> DEFINE s2 == Append(s, e)
  <1>11. /\ s2 \in Seq(Entry) /\ s2 # << >> /\ Len(s2) = Len(s) + 1 /\ Len(s) \in Nat
         /\ s2[Len(s) + 1] = e /\ \A i \in 1..Len(s) : s2[i] = s[i]
    BY <1>4, AppendProperties
  <1>12. \A i \in 1..Len(s) : s[i] \in Entry
    BY <1>11
  <1>13. (s = << >> <=> Len(s) = 0) /\ (s = << >> <=> newest = NULL)
    BY <1>11, <1>12, Names DEF ListInv, ListIs
  <1> HIDE DEF s2
  <1>14. ListIs(s2)'
    <2>1. \A i, j \in 1..Len(s2) : s2[i] = s2[j] => i = j
      BY <1>4, <1>11 DEF ListInv, ListIs
    <2>2. oldest' = s2[1]
      BY <1>1, <1>11, <1>13 DEF ListInv, ListIs
    <2>3. newest' = s2[Len(s2)]
      BY <1>1, <1>11
    <2>4. ASSUME NEW i \in 1..Len(s2) PROVE newer'[s2[i]] = IF i = Len(s2) THEN NULL ELSE s2[i + 1]
      <3>1. CASE i = Len(s) + 1
        BY <1>1, <1>4, <1>11, <3>1
      <3>2. CASE i \in 1..Len(s)
        <4>1. s2[i] = s[i] /\ s[i] # e /\ s[i] \in Entry /\ i # Len(s2)
          BY <1>4, <1>11, <1>12, <3>2
        <4>2. newest = s[Len(s)] /\ Len(s) \in 1..Len(s) /\ newer[s[i]] = IF i = Len(s) THEN NULL ELSE s[i + 1]
          BY <1>11, <1>13, <3>2 DEF ListInv, ListIs
        <4>3. s[i] = newest <=> i = Len(s)
          BY <3>2, <4>2 DEF ListInv, ListIs
        <4>4. newer'[s[i]] = IF i = Len(s) THEN e ELSE newer[s[i]]
          BY <1>1, <4>1, <4>3
        <4>5. i # Len(s) => s2[i + 1] = s[i + 1]
          BY <1>11, <3>2
        <4> QED
          BY <1>11, <4>1, <4>2, <4>4, <4>5
      <3> QED
        BY <1>11, <3>1, <3>2
    <2> QED
      BY <1>11, <2>1, <2>2, <2>3, <2>4 DEF ListIs
  <1>15. EntryInv(s2)'
    <2>1. \A t \in Thread : Holds(t)' => Holds(t) /\ t # p
      BY <1>3 DEF Holds
    <2>2. \A i \in 1..Len(s2) : s2[i] \in allocated /\ (s2[i] = e \/ \E j \in 1..Len(s) : s2[i] = s[j])
      <3>1. ASSUME NEW i \in 1..Len(s2) PROVE s2[i] = e \/ \E j \in 1..Len(s) : s2[i] = s[j]
        BY <1>11
      <3> QED
        BY <1>4, <3>1 DEF ListInv, EntryInv
    <2> QED
      BY <1>1, <1>4, <2>1, <2>2 DEF ListInv, EntryInv
  <1>16. CountInv(s2)'
    <2>1. "pushUnlock" \in ProducerPlace /\ PlaceInv /\ CountInv(s)
      BY DEF ProducerPlace, Base, ListInv
    <2>2. ProducerCounted(p, "pushUnlock")
      BY <1>1, <2>1, ProducerCounts
    <2>3. /\ IsFiniteSet(Unlinked') /\ IsFiniteSet(Unposted') /\ IsFiniteSet(Passed') /\ IsFiniteSet(Taken')
          /\ Cardinality(Unlinked') = Cardinality(Unlinked) - 1
          /\ Cardinality(Unposted') = Cardinality(Unposted) + 1
          /\ Cardinality(Passed') = Cardinality(Passed)
          /\ Cardinality(Taken') = Cardinality(Taken)
          /\ Cardinality(Unlinked) \in Nat /\ Cardinality(Unposted) \in Nat
          /\ Cardinality(Passed) \in Nat /\ Cardinality(Taken) \in Nat
      BY <1>1, <2>2 DEF ProducerCounted
    <2>4. semaphore \in Nat /\ accepted \in Nat /\ popped \in Nat
      BY DEF Base, TypeOK
    <2>5. /\ Len(s) = semaphore + Cardinality(Passed) + Cardinality(Unposted)
          /\ accepted = popped + Len(s) + Cardinality(Unlinked) + Cardinality(Taken)
      BY <2>1 DEF CountInv
    <2>6. /\ Len(s2) = semaphore + Cardinality(Passed') + Cardinality(Unposted')
          /\ accepted = popped + Len(s2) + Cardinality(Unlinked') + Cardinality(Taken')
      <3>1. PICK n \in Nat, m \in Nat : n = Len(s) /\ m = Len(s2)
        BY <1>11
      <3>2. PICK i \in Nat, j \in Nat, k \in Nat, l \in Nat :
              i = Cardinality(Passed) /\ j = Cardinality(Unposted) /\ k = Cardinality(Unlinked) /\ l = Cardinality(Taken)
        BY <2>3
      <3>3. m = n + 1 /\ n = semaphore + i + j /\ accepted = popped + n + k + l
        BY <1>11, <2>5, <3>1, <3>2
      <3>4. /\ Cardinality(Passed') = i /\ Cardinality(Unposted') = j + 1
            /\ Cardinality(Unlinked') = k - 1 /\ Cardinality(Taken') = l
        BY <2>3, <3>2
      <3>5. m = semaphore + (i) + (j + 1) /\ accepted = popped + m + (k - 1) + (l)
        BY <2>4, <3>3
      <3> QED
        BY <3>1, <3>4, <3>5
    <2> QED
      BY <1>1, <2>3, <2>6 DEF CountInv
  <1> QED
    BY <1>4, <1>6, <1>7, <1>8, <1>9, <1>10, <1>14, <1>15, <1>16 DEF Base, ListInv, s2

\* A consumer that has passed the semaphore finds an element.
LEMMA PassedFinds ==
  ASSUME Base, NEW s \in Seq(Entry), ListInv(s), NEW c \in Consumer, pc[c] = "popUnlink"
  PROVE  s # << >> /\ oldest # NULL
  <1>1. c \in Passed /\ IsFiniteSet(Passed) /\ IsFiniteSet(Unposted)
    BY DEF Passed, In, ListInv, CountInv
  <1>2. Cardinality(Passed) \in Nat /\ Cardinality(Passed) # 0 /\ Cardinality(Unposted) \in Nat
    BY <1>1, FS_CardinalityType, FS_EmptySet
  <1>3. Len(s) \in Nat /\ Len(s) > 0
    BY <1>2 DEF ListInv, CountInv, Base, TypeOK
  <1>4. s # << >> /\ s[1] \in Entry
    BY <1>3
  <1> QED
    BY <1>4, Names DEF ListInv, ListIs

\* Unlinking takes the first entry out of the list.
LEMMA PopUnlinkStep ==
  ASSUME Base, NEW s \in Seq(Entry), ListInv(s), NEW c \in Consumer, PopUnlink(c)
  PROVE  s # << >> /\ Base' /\ ListInv(Tail(s))'
  <1>1. /\ pc[c] = "popUnlink" /\ pc' = [pc EXCEPT ![c] = "popUnlock"]
        /\ element' = [element EXCEPT ![c] = oldest] /\ oldest' = newer[oldest]
        /\ newest' = (IF newer[oldest] = NULL THEN NULL ELSE newest) /\ polled' = {}
        /\ UNCHANGED <<semaphore, mutex, newer, userData, allocated, freed, calls, accepted, popped>>
    BY DEF PopUnlink, Goto
  <1>2. c \in Thread /\ c \notin Producer /\ pc \in [Thread -> Place] /\ "popUnlock" \in Place
    BY Names DEF Base, PlaceInv, Place, ConsumerPlace
  <1>3. pc' \in [Thread -> Place] /\ pc'[c] = "popUnlock" /\ \A u \in Thread : u # c => pc'[u] = pc[u]
    BY <1>1, <1>2, Moved
  <1>4. s # << >>
    BY <1>1, PassedFinds
  <1>5. Len(s) \in Nat \ {0} /\ \A i \in 1..Len(s) : s[i] \in Entry /\ s[i] \in allocated
    BY <1>4, EmptySeq DEF ListInv, EntryInv
  <1>6. PICK e \in Entry : e = s[1] /\ e = oldest /\ e # NULL
    BY <1>4, <1>5, Names DEF ListInv, ListIs
  <1> DEFINE s2 == Tail(s)
  <1>7. s2 \in Seq(Entry) /\ Len(s2) = Len(s) - 1 /\ \A i \in 1..Len(s2) : s2[i] = s[i + 1]
    BY <1>4, HeadTailProperties
  <1>8. s2 = << >> <=> Len(s) = 1
    BY <1>5, <1>7
  <1> HIDE DEF s2
  <1>9. newer[e] = IF Len(s) = 1 THEN NULL ELSE s[2]
    <2>1. 1 \in 1..Len(s)
      BY <1>5
    <2>2. newer[s[1]] = IF 1 = Len(s) THEN NULL ELSE s[1 + 1]
      BY <2>1 DEF ListInv, ListIs
    <2> QED
      BY <1>5, <1>6, <2>2
  <1>10. newer[e] \in Null(Entry) /\ newest \in Null(Entry)
    BY <1>6 DEF Base, TypeOK
  <1>11. element' \in [Thread -> Null(Entry)] /\ element'[c] = e
         /\ \A u \in Thread : u # c => element'[u] = element[u]
    BY <1>1, <1>2, <1>6 DEF Base, TypeOK, Null
  <1>12. TypeOK'
    BY <1>1, <1>6, <1>10, <1>11 DEF Base, TypeOK, Null
  <1>13. PlaceInv'
    BY <1>2, <1>3, Names DEF Base, PlaceInv, ConsumerPlace
  <1>14. MutexInv'
    BY <1>1, <1>3, Names DEF Base, MutexInv
  <1>15. DestroyInv'
    BY <1>1, <1>2, <1>3, Names DEF Base, DestroyInv
  <1>16. NobodyInsideWhenFreed'
    BY <1>1, <1>2 DEF Base, NobodyInsideWhenFreed
  <1>17. ListIs(s2)'
    <2>1. \A i, j \in 1..Len(s2) : s2[i] = s2[j] => i = j
      <3>1. ASSUME NEW i \in 1..Len(s2), NEW j \in 1..Len(s2), s2[i] = s2[j] PROVE i = j
        <4>1. i + 1 \in 1..Len(s) /\ j + 1 \in 1..Len(s) /\ s[i + 1] = s[j + 1]
          BY <1>5, <1>7, <3>1
        <4>2. i + 1 = j + 1
          BY <4>1 DEF ListInv, ListIs
        <4> QED
          BY <1>5, <1>7, <4>2
      <3> QED
        BY <3>1
    <2>2. oldest' = IF s2 = << >> THEN NULL ELSE s2[1]
      BY <1>1, <1>5, <1>6, <1>7, <1>8, <1>9
    <2>3. newest' = IF s2 = << >> THEN NULL ELSE s2[Len(s2)]
      <3>1. CASE Len(s) = 1
        BY <1>1, <1>6, <1>8, <1>9, <3>1
      <3>2. CASE Len(s) # 1
        <4>1. newer[e] # NULL /\ newest = s[Len(s)] /\ Len(s2) \in 1..Len(s2) /\ Len(s2) + 1 = Len(s)
          BY <1>4, <1>5, <1>7, <1>9, <3>2, Names DEF ListInv, ListIs
        <4>2. s2[Len(s2)] = s[Len(s)]
          BY <1>7, <4>1
        <4> QED
          BY <1>1, <1>6, <1>8, <3>2, <4>1, <4>2
      <3> QED
        BY <3>1, <3>2
    <2>4. ASSUME NEW i \in 1..Len(s2) PROVE newer[s2[i]] = IF i = Len(s2) THEN NULL ELSE s2[i + 1]
      <3>1. i + 1 \in 1..Len(s) /\ s2[i] = s[i + 1] /\ (i = Len(s2) <=> i + 1 = Len(s))
        BY <1>5, <1>7
      <3>2. newer[s[i + 1]] = IF i + 1 = Len(s) THEN NULL ELSE s[i + 1 + 1]
        BY <3>1 DEF ListInv, ListIs
      <3>3. i # Len(s2) => s2[i + 1] = s[i + 1 + 1]
        BY <1>5, <1>7
      <3> QED
        BY <3>1, <3>2, <3>3
    <2> QED
      BY <1>1, <1>7, <2>1, <2>2, <2>3, <2>4 DEF ListIs
  <1>18. EntryInv(s2)'
    <2>1. ASSUME NEW i \in 1..Len(s2) PROVE i + 1 \in 1..Len(s) /\ s2[i] = s[i + 1] /\ s2[i] # e
      <3>1. i + 1 \in 1..Len(s) /\ 1 \in 1..Len(s) /\ s2[i] = s[i + 1] /\ i + 1 # 1
        BY <1>5, <1>7
      <3> QED
        BY <1>6, <3>1 DEF ListInv, ListIs
    <2>2. \A t \in Thread : t # c /\ Holds(t)' => Holds(t) /\ element'[t] = element[t]
      BY <1>3, <1>11 DEF Holds
    <2>3. e \in allocated /\ \A t \in Thread : Holds(t) => element[t] # e
      <3>1. 1 \in 1..Len(s)
        BY <1>5
      <3> QED
        BY <1>6, <3>1 DEF ListInv, EntryInv
    <2>4. \A i \in 1..Len(s2) : s2[i] \in allocated'
      BY <1>1, <1>5, <2>1
    <2>5. \A t \in Thread : Holds(t)' => element'[t] \in allocated' /\ \A i \in 1..Len(s2) : s2[i] # element'[t]
      <3>1. ASSUME NEW t \in Thread, Holds(t)'
            PROVE  element'[t] \in allocated /\ \A i \in 1..Len(s2) : s2[i] # element'[t]
        <4>1. CASE t = c
          BY <1>11, <2>1, <2>3, <4>1
        <4>2. CASE t # c
          <5>1. element[t] \in allocated /\ \A i \in 1..Len(s) : s[i] # element[t]
            BY <2>2, <3>1, <4>2 DEF ListInv, EntryInv
          <5> QED
            BY <2>1, <2>2, <3>1, <4>2, <5>1
        <4> QED
          BY <4>1, <4>2
      <3> QED
        BY <1>1, <3>1
    <2>6. \A t, u \in Thread : Holds(t)' /\ Holds(u)' /\ element'[t] = element'[u] => t = u
      BY <1>11, <2>2, <2>3 DEF ListInv, EntryInv
    <2> QED
      BY <1>1, <2>4, <2>5, <2>6 DEF ListInv, EntryInv
  <1>19. CountInv(s2)'
    <2>1. "popUnlock" \in ConsumerPlace /\ PlaceInv /\ CountInv(s)
      BY DEF ConsumerPlace, Base, ListInv
    <2>2. ConsumerCounted(c, "popUnlock")
      BY <1>1, <2>1, ConsumerCounts
    <2>3. /\ IsFiniteSet(Unlinked') /\ IsFiniteSet(Unposted') /\ IsFiniteSet(Passed') /\ IsFiniteSet(Taken')
          /\ Cardinality(Unlinked') = Cardinality(Unlinked)
          /\ Cardinality(Unposted') = Cardinality(Unposted)
          /\ Cardinality(Passed') = Cardinality(Passed) - 1
          /\ Cardinality(Taken') = Cardinality(Taken) + 1
          /\ Cardinality(Unlinked) \in Nat /\ Cardinality(Unposted) \in Nat
          /\ Cardinality(Passed) \in Nat /\ Cardinality(Taken) \in Nat
      BY <1>1, <2>2 DEF ConsumerCounted
    <2>4. semaphore \in Nat /\ accepted \in Nat /\ popped \in Nat
      BY DEF Base, TypeOK
    <2>5. /\ Len(s) = semaphore + Cardinality(Passed) + Cardinality(Unposted)
          /\ accepted = popped + Len(s) + Cardinality(Unlinked) + Cardinality(Taken)
      BY <2>1 DEF CountInv
    <2>6. /\ Len(s2) = semaphore + Cardinality(Passed') + Cardinality(Unposted')
          /\ accepted = popped + Len(s2) + Cardinality(Unlinked') + Cardinality(Taken')
      <3>1. PICK n \in Nat, m \in Nat : n = Len(s) /\ m = Len(s2)
        BY <1>5, <1>7
      <3>2. PICK i \in Nat, j \in Nat, k \in Nat, l \in Nat :
              i = Cardinality(Passed) /\ j = Cardinality(Unposted) /\ k = Cardinality(Unlinked) /\ l = Cardinality(Taken)
        BY <2>3
      <3>3. m = n - 1 /\ n = semaphore + i + j /\ accepted = popped + n + k + l
        BY <1>5, <1>7, <2>5, <3>1, <3>2
      <3>4. /\ Cardinality(Passed') = i - 1 /\ Cardinality(Unposted') = j
            /\ Cardinality(Unlinked') = k /\ Cardinality(Taken') = l + 1
        BY <2>3, <3>2
      <3>5. m = semaphore + (i - 1) + (j) /\ accepted = popped + m + (k) + (l + 1)
        BY <2>4, <3>3
      <3> QED
        BY <3>1, <3>4, <3>5
    <2> QED
      BY <1>1, <2>3, <2>6 DEF CountInv
  <1> QED
    BY <1>4, <1>12, <1>13, <1>14, <1>15, <1>16, <1>17, <1>18, <1>19 DEF Base, ListInv, s2

\* The entry that is freed is the popper's alone.
LEMMA PopReturnStep ==
  ASSUME Base, NEW s \in Seq(Entry), ListInv(s), NEW c \in Consumer, PopReturn(c)
  PROVE  Base' /\ ListInv(s)'
  <1>1. /\ pc[c] = "popReturn" /\ pc' = [pc EXCEPT ![c] = "client"] /\ popped' = popped + 1
        /\ allocated' = allocated \ {element[c]} /\ element' = [element EXCEPT ![c] = NULL]
        /\ UNCHANGED <<semaphore, mutex, oldest, newest, newer, userData, freed, calls, accepted, polled>>
    BY DEF PopReturn, Goto
  <1>2. c \in Thread /\ c \notin Producer /\ pc \in [Thread -> Place] /\ "client" \in Place
    BY Names DEF Base, PlaceInv, Place, ConsumerPlace
  <1>3. pc' \in [Thread -> Place] /\ pc'[c] = "client" /\ \A u \in Thread : u # c => pc'[u] = pc[u]
    BY <1>1, <1>2, Moved
  <1>4. element' \in [Thread -> Null(Entry)] /\ \A u \in Thread : u # c => element'[u] = element[u]
    BY <1>1, <1>2 DEF Base, TypeOK, Null
  <1>5. TypeOK'
    BY <1>1, <1>4 DEF Base, TypeOK
  <1>6. PlaceInv'
    BY <1>2, <1>3, Names DEF Base, PlaceInv, ConsumerPlace
  <1>7. MutexInv'
    BY <1>1, <1>3 DEF Base, MutexInv
  <1>8. DestroyInv'
    BY <1>1, <1>2, <1>3, Names DEF Base, DestroyInv
  <1>9. NobodyInsideWhenFreed'
    BY <1>1, <1>2 DEF Base, NobodyInsideWhenFreed
  <1>10. ListIs(s)'
    BY <1>1, SameList DEF ListInv
  <1>11. EntryInv(s)'
    <2>1. Holds(c) /\ \A t \in Thread : Holds(t)' => Holds(t) /\ t # c /\ element'[t] = element[t]
      BY <1>1, <1>3, <1>4 DEF Holds
    <2>2. \A i \in 1..Len(s) : s[i] \in allocated'
      BY <1>1, <1>2, <2>1 DEF ListInv, EntryInv
    <2>3. \A t \in Thread : Holds(t)' => element'[t] \in allocated' /\ \A i \in 1..Len(s) : s[i] # element'[t]
      BY <1>1, <1>2, <2>1 DEF ListInv, EntryInv
    <2> QED
      BY <1>1, <2>1, <2>2, <2>3 DEF ListInv, EntryInv
  <1>12. CountInv(s)'
    <2>1. "client" \in ConsumerPlace /\ PlaceInv /\ CountInv(s)
      BY DEF ConsumerPlace, Base, ListInv
    <2>2. ConsumerCounted(c, "client")
      BY <1>1, <2>1, ConsumerCounts
    <2>3. /\ IsFiniteSet(Unlinked') /\ IsFiniteSet(Unposted') /\ IsFiniteSet(Passed') /\ IsFiniteSet(Taken')
          /\ Cardinality(Unlinked') = Cardinality(Unlinked)
          /\ Cardinality(Unposted') = Cardinality(Unposted)
          /\ Cardinality(Passed') = Cardinality(Passed)
          /\ Cardinality(Taken') = Cardinality(Taken) - 1
          /\ Cardinality(Unlinked) \in Nat /\ Cardinality(Unposted) \in Nat
          /\ Cardinality(Passed) \in Nat /\ Cardinality(Taken) \in Nat
      BY <1>1, <2>2 DEF ConsumerCounted
    <2>4. Len(s) \in Nat /\ semaphore \in Nat /\ accepted \in Nat /\ popped \in Nat
      BY DEF Base, TypeOK
    <2> QED
      BY <1>1, <2>3, <2>4 DEF ListInv, CountInv
  <1> QED
    BY <1>5, <1>6, <1>7, <1>8, <1>9, <1>10, <1>11, <1>12 DEF Base, ListInv

\* queue_poll changes what the consumer knows, not the queue.
LEMMA PollStep ==
  ASSUME Base, NEW s \in Seq(Entry), ListInv(s), NEW c \in Consumer, Poll(c)
  PROVE  Base' /\ ListInv(s)'
  <1>1. /\ polled' \in {polled \cup {c}, polled \ {c}}
        /\ UNCHANGED <<semaphore, mutex, oldest, newest, newer, userData, allocated, freed, pc, element, calls,
                       accepted, popped>>
    BY DEF Poll, list
  <1> USE <1>1
  <1>2. TypeOK'
    BY DEF Base, TypeOK
  <1>3. PlaceInv' /\ MutexInv' /\ NobodyInsideWhenFreed' /\ DestroyInv'
    BY DEF Base, PlaceInv, MutexInv, NobodyInsideWhenFreed, DestroyInv, AllPopped
  <1>4. ListIs(s)' /\ EntryInv(s)'
    BY SameList, SameEntries DEF ListInv, Holds
  <1>5. CountInv(s)'
    BY DEF ListInv, CountInv, Unlinked, Unposted, Passed, Taken, In
  <1> QED
    BY <1>2, <1>3, <1>4, <1>5 DEF Base, ListInv

-----------------------------------------------------------------------------
(* queue_destroy *)

\* A consumer that is the only one calls queue_destroy, when all is popped or the queue
\* is not empty.
LEMMA CallDestroyStep ==
  ASSUME Base, NEW s \in Seq(Entry), ListInv(s), NEW c \in Consumer, CallDestroy(c)
  PROVE  Base' /\ ListInv(s)'
  <1>1. /\ pc[c] = "client" /\ pc' = [pc EXCEPT ![c] = "destroyLock"] /\ InUse
        /\ (\A d \in Consumer : pc[d] = "client") /\ (AllPopped \/ newest # NULL)
        /\ UNCHANGED <<semaphore, mutex, oldest, newest, newer, userData, allocated, freed, element, calls, accepted, polled, popped>>
    BY DEF CallDestroy, Goto, list, clients
  <1>2. c \in Thread /\ c \notin Producer /\ pc \in [Thread -> Place] /\ "destroyLock" \in Place
    BY Names DEF Base, PlaceInv, Place, ConsumerPlace
  <1>3. pc' \in [Thread -> Place] /\ pc'[c] = "destroyLock" /\ \A u \in Thread : u # c => pc'[u] = pc[u]
    BY <1>1, <1>2, Moved
  <1>4. TypeOK'
    BY <1>1, <1>2 DEF Base, TypeOK, Null
  <1>5. PlaceInv'
    BY <1>2, <1>3, Names DEF Base, PlaceInv, ConsumerPlace
  <1>6. MutexInv'
    BY <1>1, <1>3, Names DEF Base, MutexInv
  <1>7. DestroyInv'
    BY <1>1, <1>2, <1>3, Names DEF InUse, Base, DestroyInv, AllPopped
  <1>8. NobodyInsideWhenFreed'
    BY <1>1 DEF InUse, NobodyInsideWhenFreed
  <1>9. ListIs(s)' /\ EntryInv(s)'
    BY <1>1, <1>3, SameList, SameEntries DEF ListInv, Holds
  <1>10. CountInv(s)'
    <2>1. "destroyLock" \in ConsumerPlace /\ PlaceInv /\ CountInv(s)
      BY DEF ConsumerPlace, Base, ListInv
    <2>2. ConsumerCounted(c, "destroyLock")
      BY <1>1, <2>1, ConsumerCounts
    <2>3. /\ IsFiniteSet(Unlinked') /\ IsFiniteSet(Unposted') /\ IsFiniteSet(Passed') /\ IsFiniteSet(Taken')
          /\ Cardinality(Unlinked') = Cardinality(Unlinked)
          /\ Cardinality(Unposted') = Cardinality(Unposted)
          /\ Cardinality(Passed') = Cardinality(Passed)
          /\ Cardinality(Taken') = Cardinality(Taken)
          /\ Cardinality(Unlinked) \in Nat /\ Cardinality(Unposted) \in Nat
          /\ Cardinality(Passed) \in Nat /\ Cardinality(Taken) \in Nat
      BY <1>1, <2>2 DEF ConsumerCounted
    <2>4. Len(s) \in Nat /\ semaphore \in Nat /\ accepted \in Nat /\ popped \in Nat
      BY DEF Base, TypeOK
    <2> QED
      BY <1>1, <2>3, <2>4 DEF ListInv, CountInv
  <1> QED
    BY <1>4, <1>5, <1>6, <1>7, <1>8, <1>9, <1>10 DEF Base, ListInv

\* The destroyer gets the mutex.
LEMMA DestroyLockStep ==
  ASSUME Base, NEW s \in Seq(Entry), ListInv(s), NEW c \in Consumer, DestroyLock(c)
  PROVE  Base' /\ ListInv(s)'
  <1>1. /\ pc[c] = "destroyLock" /\ pc' = [pc EXCEPT ![c] = "destroyBody"] /\ mutex = NULL /\ mutex' = c
        /\ UNCHANGED <<semaphore, oldest, newest, newer, userData, allocated, freed, element, calls, accepted, polled, popped>>
    BY DEF DestroyLock, Goto, Lock, list, clients
  <1>2. c \in Thread /\ c \notin Producer /\ pc \in [Thread -> Place] /\ "destroyBody" \in Place
    BY Names DEF Base, PlaceInv, Place, ConsumerPlace
  <1>3. pc' \in [Thread -> Place] /\ pc'[c] = "destroyBody" /\ \A u \in Thread : u # c => pc'[u] = pc[u]
    BY <1>1, <1>2, Moved
  <1>4. TypeOK'
    BY <1>1, <1>2 DEF Base, TypeOK, Null
  <1>5. PlaceInv'
    BY <1>2, <1>3, Names DEF Base, PlaceInv, ConsumerPlace
  <1>6. MutexInv'
    BY <1>1, <1>3, Names DEF Base, MutexInv
  <1>7. DestroyInv'
    BY <1>1, <1>2, <1>3, Names DEF Base, DestroyInv, AllPopped
  <1>8. NobodyInsideWhenFreed'
    BY <1>1, <1>2, <1>3 DEF Base, NobodyInsideWhenFreed
  <1>9. ListIs(s)' /\ EntryInv(s)'
    BY <1>1, <1>3, SameList, SameEntries DEF ListInv, Holds
  <1>10. CountInv(s)'
    <2>1. "destroyBody" \in ConsumerPlace /\ PlaceInv /\ CountInv(s)
      BY DEF ConsumerPlace, Base, ListInv
    <2>2. ConsumerCounted(c, "destroyBody")
      BY <1>1, <2>1, ConsumerCounts
    <2>3. /\ IsFiniteSet(Unlinked') /\ IsFiniteSet(Unposted') /\ IsFiniteSet(Passed') /\ IsFiniteSet(Taken')
          /\ Cardinality(Unlinked') = Cardinality(Unlinked)
          /\ Cardinality(Unposted') = Cardinality(Unposted)
          /\ Cardinality(Passed') = Cardinality(Passed)
          /\ Cardinality(Taken') = Cardinality(Taken)
          /\ Cardinality(Unlinked) \in Nat /\ Cardinality(Unposted) \in Nat
          /\ Cardinality(Passed) \in Nat /\ Cardinality(Taken) \in Nat
      BY <1>1, <2>2 DEF ConsumerCounted
    <2>4. Len(s) \in Nat /\ semaphore \in Nat /\ accepted \in Nat /\ popped \in Nat
      BY DEF Base, TypeOK
    <2> QED
      BY <1>1, <2>3, <2>4 DEF ListInv, CountInv
  <1> QED
    BY <1>4, <1>5, <1>6, <1>7, <1>8, <1>9, <1>10 DEF Base, ListInv

\* A refused queue_destroy leaves the mutex locked.
LEMMA DestroyRefusedStep ==
  ASSUME Base, NEW s \in Seq(Entry), ListInv(s), NEW c \in Consumer, DestroyRefused(c)
  PROVE  Base' /\ ListInv(s)'
  <1>1. /\ pc[c] = "destroyBody" /\ pc' = [pc EXCEPT ![c] = "client"] /\ newest # NULL
        /\ UNCHANGED <<semaphore, mutex, oldest, newest, newer, userData, allocated, freed, element, calls, accepted, polled, popped>>
    BY DEF DestroyRefused, Goto, list, clients
  <1>2. c \in Thread /\ c \notin Producer /\ pc \in [Thread -> Place] /\ "client" \in Place
    BY Names DEF Base, PlaceInv, Place, ConsumerPlace
  <1>3. pc' \in [Thread -> Place] /\ pc'[c] = "client" /\ \A u \in Thread : u # c => pc'[u] = pc[u]
    BY <1>1, <1>2, Moved
  <1>4. TypeOK'
    BY <1>1, <1>2 DEF Base, TypeOK, Null
  <1>5. PlaceInv'
    BY <1>2, <1>3, Names DEF Base, PlaceInv, ConsumerPlace
  <1>6. MutexInv'
    BY <1>1, <1>3, Names DEF Base, MutexInv
  <1>7. DestroyInv'
    BY <1>1, <1>2, <1>3, Names DEF Base, DestroyInv, AllPopped
  <1>8. NobodyInsideWhenFreed'
    BY <1>1, <1>2, <1>3 DEF Base, NobodyInsideWhenFreed
  <1>9. ListIs(s)' /\ EntryInv(s)'
    BY <1>1, <1>3, SameList, SameEntries DEF ListInv, Holds
  <1>10. CountInv(s)'
    <2>1. "client" \in ConsumerPlace /\ PlaceInv /\ CountInv(s)
      BY DEF ConsumerPlace, Base, ListInv
    <2>2. ConsumerCounted(c, "client")
      BY <1>1, <2>1, ConsumerCounts
    <2>3. /\ IsFiniteSet(Unlinked') /\ IsFiniteSet(Unposted') /\ IsFiniteSet(Passed') /\ IsFiniteSet(Taken')
          /\ Cardinality(Unlinked') = Cardinality(Unlinked)
          /\ Cardinality(Unposted') = Cardinality(Unposted)
          /\ Cardinality(Passed') = Cardinality(Passed)
          /\ Cardinality(Taken') = Cardinality(Taken)
          /\ Cardinality(Unlinked) \in Nat /\ Cardinality(Unposted) \in Nat
          /\ Cardinality(Passed) \in Nat /\ Cardinality(Taken) \in Nat
      BY <1>1, <2>2 DEF ConsumerCounted
    <2>4. Len(s) \in Nat /\ semaphore \in Nat /\ accepted \in Nat /\ popped \in Nat
      BY DEF Base, TypeOK
    <2> QED
      BY <1>1, <2>3, <2>4 DEF ListInv, CountInv
  <1> QED
    BY <1>4, <1>5, <1>6, <1>7, <1>8, <1>9, <1>10 DEF Base, ListInv

\* The queue is freed when no thread is left in it: an empty list whose elements have
\* all been popped has no thread on its way in or out.
LEMMA DestroyFreeStep ==
  ASSUME Base, NEW s \in Seq(Entry), ListInv(s), NEW c \in Consumer, DestroyFree(c)
  PROVE  Base' /\ ListInv(s)'
  <1>1. /\ pc[c] = "destroyBody" /\ pc' = [pc EXCEPT ![c] = "client"] /\ mutex' = NULL
        /\ newest = NULL /\ freed' = TRUE
        /\ UNCHANGED <<semaphore, oldest, newest, newer, userData, allocated, element, calls, accepted, polled, popped>>
    BY DEF DestroyFree, Goto, Unlock, list, clients
  <1>2. c \in Thread /\ c \notin Producer /\ pc \in [Thread -> Place] /\ "client" \in Place
    BY Names DEF Base, PlaceInv, Place, ConsumerPlace
  <1>3. pc' \in [Thread -> Place] /\ pc'[c] = "client" /\ \A u \in Thread : u # c => pc'[u] = pc[u]
    BY <1>1, <1>2, Moved
  <1>4. TypeOK'
    BY <1>1, <1>2 DEF Base, TypeOK, Null
  <1>5. PlaceInv'
    BY <1>2, <1>3, Names DEF Base, PlaceInv, ConsumerPlace
  <1>6. MutexInv'
    BY <1>1, <1>3, Names DEF Base, MutexInv
  <1>7. DestroyInv'
    BY <1>1, <1>2, <1>3, Names DEF Base, DestroyInv
  <1>8. NobodyInsideWhenFreed'
    <2>1. s = << >>
      BY <1>1, Names DEF ListInv, ListIs
    <2>2. AllPopped /\ \A d \in Consumer : d # c => pc[d] = "client"
      BY <1>1 DEF Base, DestroyInv
    <2>3. /\ IsFiniteSet(Unlinked) /\ IsFiniteSet(Unposted)
          /\ Cardinality(Unlinked) \in Nat /\ Cardinality(Unposted) \in Nat
          /\ Cardinality(Passed) \in Nat /\ Cardinality(Taken) \in Nat
      BY FS_CardinalityType DEF ListInv, CountInv
    <2>4. /\ 0 = semaphore + Cardinality(Passed) + Cardinality(Unposted)
          /\ popped = popped + 0 + Cardinality(Unlinked) + Cardinality(Taken)
          /\ semaphore \in Nat /\ popped \in Nat
      <3>1. Len(s) = 0
        BY <2>1
      <3> QED
        BY <2>2, <3>1 DEF ListInv, CountInv, AllPopped, Base, TypeOK
    <2>5. Cardinality(Unlinked) = 0 /\ Cardinality(Unposted) = 0
      BY <2>3, <2>4
    <2>6. Unlinked = {} /\ Unposted = {}
      BY <2>3, <2>5, FS_EmptySet
    <2>7. \A p \in Producer : pc[p] = "client"
      BY <2>6 DEF Base, PlaceInv, ProducerPlace, Unlinked, Unposted, In
    <2> QED
      BY <1>3, <2>2, <2>7, Names DEF NobodyInsideWhenFreed
  <1>9. ListIs(s)' /\ EntryInv(s)'
    BY <1>1, <1>3, SameList, SameEntries DEF ListInv, Holds
  <1>10. CountInv(s)'
    <2>1. "client" \in ConsumerPlace /\ PlaceInv /\ CountInv(s)
      BY DEF ConsumerPlace, Base, ListInv
    <2>2. ConsumerCounted(c, "client")
      BY <1>1, <2>1, ConsumerCounts
    <2>3. /\ IsFiniteSet(Unlinked') /\ IsFiniteSet(Unposted') /\ IsFiniteSet(Passed') /\ IsFiniteSet(Taken')
          /\ Cardinality(Unlinked') = Cardinality(Unlinked)
          /\ Cardinality(Unposted') = Cardinality(Unposted)
          /\ Cardinality(Passed') = Cardinality(Passed)
          /\ Cardinality(Taken') = Cardinality(Taken)
          /\ Cardinality(Unlinked) \in Nat /\ Cardinality(Unposted) \in Nat
          /\ Cardinality(Passed) \in Nat /\ Cardinality(Taken) \in Nat
      BY <1>1, <2>2 DEF ConsumerCounted
    <2>4. Len(s) \in Nat /\ semaphore \in Nat /\ accepted \in Nat /\ popped \in Nat
      BY DEF Base, TypeOK
    <2> QED
      BY <1>1, <2>3, <2>4 DEF ListInv, CountInv
  <1> QED
    BY <1>4, <1>5, <1>6, <1>7, <1>8, <1>9, <1>10 DEF Base, ListInv

-----------------------------------------------------------------------------
(* The invariant *)

\* queue_create makes an empty list, and nobody is in the queue.
LEMMA InitInv == Init => Inv
  <1> SUFFICES ASSUME Init
               PROVE  Inv
    OBVIOUS
  <1>1. TypeOK
    <2>1. 0 \in 0..MaxPush
      BY QueueAssumption
    <2>2. calls \in [Producer -> 0..MaxPush]
      BY <2>1 DEF Init
    <2>3. /\ newer \in [Entry -> Null(Entry)] /\ userData \in [Entry -> Null(Element)]
          /\ element \in [Thread -> Null(Entry)]
      BY DEF Init, Null
    <2>4. mutex \in Null(Thread) /\ oldest \in Null(Entry) /\ newest \in Null(Entry)
      BY DEF Init, Null
    <2> QED
      BY <2>2, <2>3, <2>4 DEF Init, TypeOK
  <1>2. \A t \in Thread : pc[t] = "client"
    BY DEF Init
  <1>3. PlaceInv
    BY <1>2, Names DEF Init, PlaceInv, Place, ProducerPlace, ConsumerPlace
  <1>4. MutexInv /\ DestroyInv /\ NobodyInsideWhenFreed
    BY <1>2, Names DEF MutexInv, DestroyInv, NobodyInsideWhenFreed
  <1>5. << >> \in Seq(Entry) /\ Len(<< >>) = 0
    OBVIOUS
  <1>6. ListIs(<< >>)
    BY <1>5 DEF Init, ListIs
  <1>7. EntryInv(<< >>)
    BY <1>2, <1>5 DEF Init, EntryInv, Holds
  <1>8. Unlinked = {} /\ Unposted = {} /\ Passed = {} /\ Taken = {}
    BY <1>2, Names DEF Unlinked, Unposted, Passed, Taken, In
  <1>9. CountInv(<< >>)
    BY <1>5, <1>8, FS_EmptySet DEF Init, CountInv
  <1> QED
    BY <1>1, <1>3, <1>4, <1>5, <1>6, <1>7, <1>9 DEF Inv, Base, ListInv

\* What a step makes of the list s.
Kept(s) == ListInv(s)' /\ freed' = freed /\ \A i \in 1..Len(s) : userData'[s[i]] = userData[s[i]]

Grown(s) ==
  /\ ~freed /\ UNCHANGED <<freed, userData>>
  /\ \E e \in Entry : userData[e] \in Element /\ ListInv(Append(s, e))'

Shrunk(s) == s # << >> /\ ~freed /\ UNCHANGED <<freed, userData>> /\ ListInv(Tail(s))'

Gone(s) == s = << >> /\ ~freed /\ freed' = TRUE /\ UNCHANGED userData /\ ListInv(s)'

\* A step changes the list by an element at its end or its front, or not at all,
\* and frees the queue only with the list empty.
LEMMA StepList ==
  ASSUME Base, NEW s \in Seq(Entry), ListInv(s), [Next]_vars
  PROVE  Base' /\ (Kept(s) \/ Grown(s) \/ Shrunk(s) \/ Gone(s))
  <1>0. freed' = freed /\ UNCHANGED userData => (ListInv(s)' => Kept(s))
    BY DEF Kept
  <1>1. CASE UNCHANGED vars
    <2>1. UNCHANGED <<semaphore, mutex, oldest, newest, newer, userData, allocated, freed, pc, element, calls,
                      accepted, polled, popped>>
      BY <1>1 DEF vars
    <2> USE <2>1
    <2>2. TypeOK' /\ PlaceInv' /\ MutexInv' /\ NobodyInsideWhenFreed' /\ DestroyInv'
      BY DEF Base, TypeOK, PlaceInv, MutexInv, NobodyInsideWhenFreed, DestroyInv, AllPopped
    <2>3. ListIs(s)' /\ EntryInv(s)'
      BY SameList, SameEntries DEF ListInv, Holds
    <2>4. CountInv(s)'
      BY DEF ListInv, CountInv, Unlinked, Unposted, Passed, Taken, In
    <2> QED
      BY <1>0, <2>2, <2>3, <2>4 DEF Base, ListInv
  <1>2. ASSUME NEW p \in Producer, PushAlloc(p)
        PROVE  Base' /\ Kept(s)
    <2>1. Base' /\ ListInv(s)'
      BY <1>2, PushAllocStep
    <2>2. PICK e \in Entry \ allocated : userData' = [userData EXCEPT ![e] = <<p, calls[p] + 1>>]
      BY <1>2 DEF PushAlloc
    <2>3. \A i \in 1..Len(s) : s[i] \in allocated /\ s[i] \in Entry
      BY DEF ListInv, EntryInv
    <2>4. \A i \in 1..Len(s) : userData'[s[i]] = userData[s[i]]
      BY <2>2, <2>3 DEF Base, TypeOK
    <2>5. freed' = freed
      BY <1>2 DEF PushAlloc
    <2> QED
      BY <2>1, <2>4, <2>5 DEF Kept
  <1>3. ASSUME NEW p \in Producer, PushNoMemory(p) \/ PushLock(p) \/ PushUnlock(p) \/ PushPost(p)
        PROVE  Base' /\ Kept(s)
    <2>1. Base' /\ ListInv(s)'
      BY <1>3, PushNoMemoryStep, PushLockStep, PushUnlockStep, PushPostStep
    <2>2. UNCHANGED <<freed, userData>>
      BY <1>3 DEF PushNoMemory, PushLock, PushUnlock, PushPost, list
    <2> QED
      BY <1>0, <2>1, <2>2
  <1>4. ASSUME NEW p \in Producer, PushLink(p)
        PROVE  Base' /\ Grown(s)
    <2>1. PICK e : e = element[p]
      OBVIOUS
    <2>2. e \in Entry /\ Base' /\ ListInv(Append(s, e))'
      BY <1>4, <2>1, PushLinkStep
    <2>3. UNCHANGED <<freed, userData>> /\ pc[p] = "pushLink" /\ p \in Thread
      BY <1>4, Names DEF PushLink, Goto
    <2>4. ~freed
      BY <2>3 DEF Base, NobodyInsideWhenFreed, TypeOK
    <2>5. userData[e] \in Element
      BY <2>1, <2>3 DEF ListInv, EntryInv, Holds
    <2> QED
      BY <2>2, <2>3, <2>4, <2>5 DEF Grown
  <1>5. ASSUME NEW c \in Consumer,
               \/ CallPop(c) \/ CallWaitFor(c) \/ Poll(c) \/ WaitForFails(c)
               \/ PopSemWait(c) \/ PopLock(c) \/ PopUnlock(c) \/ PopReturn(c)
        PROVE  Base' /\ Kept(s)
    <2>1. Base' /\ ListInv(s)'
      BY <1>5, CallPopStep, CallWaitForStep, PollStep, WaitForFailsStep, PopSemWaitStep, PopLockStep,
         PopUnlockStep, PopReturnStep
    <2>2. UNCHANGED <<freed, userData>>
      BY <1>5 DEF CallPop, CallWaitFor, Poll, WaitForFails, PopSemWait, PopLock, PopUnlock, PopReturn, list
    <2> QED
      BY <1>0, <2>1, <2>2
  <1>6. ASSUME NEW c \in Consumer, PopUnlink(c)
        PROVE  Base' /\ Shrunk(s)
    <2>1. s # << >> /\ Base' /\ ListInv(Tail(s))'
      BY <1>6, PopUnlinkStep
    <2>2. UNCHANGED <<freed, userData>> /\ pc[c] = "popUnlink" /\ c \in Thread
      BY <1>6, Names DEF PopUnlink, Goto
    <2>3. ~freed
      BY <2>2 DEF Base, NobodyInsideWhenFreed, TypeOK
    <2> QED
      BY <2>1, <2>2, <2>3 DEF Shrunk
  <1>7. ASSUME NEW c \in Consumer, CallDestroy(c) \/ DestroyLock(c) \/ DestroyRefused(c)
        PROVE  Base' /\ Kept(s)
    <2>1. Base' /\ ListInv(s)'
      BY <1>7, CallDestroyStep, DestroyLockStep, DestroyRefusedStep
    <2>2. UNCHANGED <<freed, userData>>
      BY <1>7 DEF CallDestroy, DestroyLock, DestroyRefused, list
    <2> QED
      BY <1>0, <2>1, <2>2
  <1>8. ASSUME NEW c \in Consumer, DestroyFree(c)
        PROVE  Base' /\ Gone(s)
    <2>1. Base' /\ ListInv(s)'
      BY <1>8, DestroyFreeStep
    <2>2. newest = NULL /\ freed' = TRUE /\ UNCHANGED userData /\ pc[c] = "destroyBody" /\ c \in Thread
      BY <1>8, Names DEF DestroyFree, Goto, list
    <2>3. ~freed
      BY <2>2 DEF Base, NobodyInsideWhenFreed, TypeOK
    <2>4. s = << >>
      BY <2>2, Names DEF ListInv, ListIs
    <2> QED
      BY <2>1, <2>2, <2>3, <2>4 DEF Gone
  <1>9. CASE Next
    BY <1>2, <1>3, <1>4, <1>5, <1>6, <1>7, <1>8, <1>9 DEF Next, Pushing, Popping, Destroying
  <1> QED
    BY <1>1, <1>9

\* Every step keeps the invariant.
LEMMA NextInv == Inv /\ [Next]_vars => Inv'
  <1> SUFFICES ASSUME Inv, [Next]_vars
               PROVE  Inv'
    OBVIOUS
  <1>1. Base
    BY DEF Inv
  <1>2. PICK s \in Seq(Entry) : ListInv(s)
    BY DEF Inv
  <1>3. Base' /\ (Kept(s) \/ Grown(s) \/ Shrunk(s) \/ Gone(s))
    BY <1>1, <1>2, StepList
  <1>4. \E s2 \in Seq(Entry) : ListInv(s2)'
    <2>1. CASE Kept(s) \/ Gone(s)
      BY <2>1 DEF Kept, Gone
    <2>2. CASE Grown(s)
      <3>1. PICK e \in Entry : ListInv(Append(s, e))'
        BY <2>2 DEF Grown
      <3>2. Append(s, e) \in Seq(Entry)
        BY AppendProperties
      <3> QED
        BY <3>1, <3>2
    <2>3. CASE Shrunk(s)
      <3>1. Tail(s) \in Seq(Entry) /\ ListInv(Tail(s))'
        BY <2>3, HeadTailProperties DEF Shrunk
      <3> QED
        BY <3>1
    <2> QED
      BY <1>3, <2>1, <2>2, <2>3
  <1> QED
    BY <1>3, <1>4 DEF Inv

\* The inductive invariant: a chain of distinct live entries from oldest to newest that
\* no thread holds privately, a semaphore that counts those whose push is complete and
\* whose pop has not begun, and nobody left in a queue being destroyed (queue.c).
THEOREM Invariance == Spec => []Inv
  BY InitInv, NextInv, PTL DEF Spec

-----------------------------------------------------------------------------
(* What the invariant says of the properties the runs check *)

Elements == [n \in 1..ListLength |-> userData[EntryAt[n]]]

\* The list that EntryAt and ListLength describe is the sequence s.
ListFact ==
  \A s \in Seq(Entry) : ListIs(s) =>
    /\ ListLength = Len(s) /\ Len(s) \in Nat /\ Len(s) <= Cardinality(Entry)
    /\ \A n \in 1..Len(s) : EntryAt[n] = s[n]
    /\ Elements = [n \in 1..Len(s) |-> userData[s[n]]]

\* Following newer from oldest one meets the entries of the list, in their order.
LEMMA ListFacts == ListFact
  <1> SUFFICES ASSUME NEW s \in Seq(Entry), ListIs(s)
               PROVE  /\ ListLength = Len(s) /\ Len(s) \in Nat /\ Len(s) <= Cardinality(Entry)
                      /\ \A n \in 1..Len(s) : EntryAt[n] = s[n]
                      /\ Elements = [n \in 1..Len(s) |-> userData[s[n]]]
    BY DEF ListFact
  <1>1. Len(s) \in 0..MaxLength /\ MaxLength \in Nat
    BY LengthBound
  <1>2. \A n \in 1..(MaxLength + 1) : EntryAt[n] = IF n <= Len(s) THEN s[n] ELSE NULL
    BY EntryAtIs
  <1>3. \A n \in 1..Len(s) : s[n] \in Entry /\ s[n] # NULL
    BY Names
  <1>4. \A n \in 1..Len(s) : EntryAt[n] = s[n]
    BY <1>1, <1>2
  <1>5. {n \in 1..(MaxLength + 1) : EntryAt[n] # NULL} = 1..Len(s)
    BY <1>1, <1>2, <1>3
  <1>6. ListLength = Len(s)
    <2>1. Cardinality(1..Len(s)) = Len(s)
      <3>1. Len(s) \in Nat /\ 1 \in Int /\ Len(s) \in Int
        BY <1>1
      <3> QED
        BY <3>1, FS_Interval, SMTT(30)
    <2> QED
      BY <1>5, <2>1 DEF ListLength, MaxLength
  <1>7. Elements = [n \in 1..Len(s) |-> userData[s[n]]]
    BY <1>4, <1>6 DEF Elements
  <1> QED
    BY <1>1, <1>4, <1>6, <1>7 DEF MaxLength

\* The list is a chain from oldest to newest of live entries that no pusher or popper
\* holds privately, and a consumer that has got through sem_wait finds an element in it,
\* however many threads push, pop and poll (queue.c: queue_push, doPop, validate).
THEOREM Sound == Spec => []QueueSound
  <1>1. Inv => QueueSound
    <2> SUFFICES ASSUME Inv
                 PROVE  QueueSound
      OBVIOUS
    <2>1. PICK s \in Seq(Entry) : ListInv(s)
      BY DEF Inv
    <2>2. /\ ListLength = Len(s) /\ Len(s) \in Nat /\ Len(s) <= Cardinality(Entry)
          /\ \A n \in 1..Len(s) : EntryAt[n] = s[n]
      BY <2>1, ListFacts DEF ListFact, ListInv
    <2>3. ListValid
      <3>1. newest = IF ListLength = 0 THEN NULL ELSE EntryAt[ListLength]
        <4>1. s = << >> <=> Len(s) = 0
          OBVIOUS
        <4> QED
          BY <2>1, <2>2, <4>1 DEF ListInv, ListIs
      <3>2. \A n \in 1..ListLength :
              /\ EntryAt[n] \in allocated
              /\ \A t \in Thread : Holds(t) => element[t] # EntryAt[n]
        BY <2>1, <2>2 DEF ListInv, EntryInv
      <3> QED
        BY <2>2, <3>1, <3>2 DEF ListValid, Holds
    <2>4. PopFindsElement
      <3>1. Passed = {c \in Consumer : pc[c] \in {"popLock", "popUnlink"}}
        BY DEF Passed, In
      <3>2. Cardinality(Passed) \in Nat /\ Cardinality(Unposted) \in Nat
        BY <2>1, FS_CardinalityType DEF ListInv, CountInv
      <3>3. ListLength = semaphore + Cardinality(Passed) + Cardinality(Unposted) /\ semaphore \in Nat
        BY <2>1, <2>2 DEF ListInv, CountInv, Inv, Base, TypeOK
      <3>4. ListLength >= semaphore + Cardinality(Passed)
        BY <3>2, <3>3
      <3>5. \A c \in Consumer : pc[c] = "popUnlink" => oldest # NULL
        BY <2>1, PassedFinds DEF Inv
      <3> QED
        BY <3>1, <3>4, <3>5 DEF PopFindsElement
    <2> QED
      BY <2>3, <2>4 DEF QueueSound, Inv, Base
  <1> QED
    BY <1>1, Invariance, PTL

\* Nobody is inside a function of the queue when it has been freed, although a producer
\* posts the semaphore after its element can be popped (queue.c: queue_destroy).
THEOREM FreedUnused == Spec => []NobodyInsideWhenFreed
  <1>1. Inv => NobodyInsideWhenFreed
    BY DEF Inv, Base
  <1> QED
    BY <1>1, Invariance, PTL

\* A step of the code puts an element at the end of the FIFO queue, takes one from its
\* front, destroys it while it is empty, or leaves it as it is.
LEMMA StepSimulation ==
  ASSUME Inv, [Next]_vars, ListFact'
  PROVE  [Fifo!Next]_(Fifo!vars)
  <1>0. Elements = [n \in 1..ListLength |-> userData[EntryAt[n]]]
    BY DEF Elements
  <1>1. PICK s \in Seq(Entry) : ListInv(s)
    BY DEF Inv
  <1>2. Kept(s) \/ Grown(s) \/ Shrunk(s) \/ Gone(s)
    BY <1>1, StepList DEF Inv
  <1>3. Elements = [n \in 1..Len(s) |-> userData[s[n]]]
    BY <1>1, ListFacts DEF ListFact, ListInv
  <1>4. ASSUME NEW r \in Seq(Entry), ListInv(r)' PROVE Elements' = [n \in 1..Len(r) |-> userData'[r[n]]]
    BY <1>4 DEF ListFact, ListInv
  <1>5. CASE Kept(s)
    <2>1. Elements' = Elements
      BY <1>3, <1>4, <1>5 DEF Kept
    <2> QED
      BY <1>5, <2>1 DEF Fifo!vars, Elements, Kept
  <1>6. CASE Grown(s)
    <2>1. PICK e \in Entry : userData[e] \in Element /\ ListInv(Append(s, e))'
      BY <1>6 DEF Grown
    <2> DEFINE r == Append(s, e)
    <2>2. r \in Seq(Entry) /\ Len(r) = Len(s) + 1 /\ r[Len(s) + 1] = e /\ \A n \in 1..Len(s) : r[n] = s[n]
      BY AppendProperties
    <2> HIDE DEF r
    <2>3. Elements' = [n \in 1..Len(r) |-> userData[r[n]]]
      BY <1>4, <1>6, <2>1, <2>2 DEF Grown, r
    <2>4. Elements' = Append(Elements, userData[e])
      BY <1>3, <2>2, <2>3
    <2> QED
      BY <1>6, <2>1, <2>4 DEF Fifo!Next, Fifo!Put, Elements, Grown
  <1>7. CASE Shrunk(s)
    <2> DEFINE r == Tail(s)
    <2>1. r \in Seq(Entry) /\ Len(r) = Len(s) - 1 /\ Len(s) \in Nat \ {0} /\ \A n \in 1..Len(r) : r[n] = s[n + 1]
      BY <1>7, HeadTailProperties, EmptySeq DEF Shrunk
    <2> HIDE DEF r
    <2>2. Elements' = [n \in 1..Len(r) |-> userData[r[n]]]
      BY <1>4, <1>7, <2>1 DEF Shrunk, r
    <2>3. Elements # << >> /\ Elements' = Tail(Elements)
      BY <1>3, <2>1, <2>2
    <2> QED
      BY <1>7, <2>3 DEF Fifo!Next, Fifo!Take, Elements, Shrunk
  <1>8. CASE Gone(s)
    <2>1. Elements = << >>
      BY <1>3, <1>8 DEF Gone
    <2>2. Elements' = Elements
      BY <1>3, <1>4, <1>8 DEF Gone
    <2> QED
      BY <1>8, <2>1, <2>2 DEF Fifo!Next, Fifo!Destroy, Elements, Gone
  <1> QED
    BY <1>2, <1>5, <1>6, <1>7, <1>8

\* queue.c implements the FIFO queue of queue.h for any number of threads: each element
\* is taken once, in the order of linking, and the queue is only destroyed empty.
THEOREM Refinement == Spec => ImplementsFifo
  <1>1. Init => Fifo!Init
    <2> SUFFICES ASSUME Init
                 PROVE  Fifo!Init
      OBVIOUS
    <2>1. PICK s \in Seq(Entry) : ListInv(s)
      BY InitInv DEF Inv
    <2>2. s = << >>
      BY <2>1, Names DEF Init, ListInv, ListIs
    <2>3. Elements = [n \in 1..Len(s) |-> userData[s[n]]]
      BY <2>1, ListFacts DEF ListFact, ListInv
    <2>4. Elements = << >>
      BY <2>2, <2>3
    <2> QED
      BY <2>4 DEF Init, Fifo!Init, Elements
  <1>2. ListFact' /\ Inv /\ [Next]_vars => [Fifo!Next]_(Fifo!vars)
    BY StepSimulation
  <1>3. ListFact
    BY ListFacts
  <1> QED
    BY <1>1, <1>2, <1>3, Invariance, PTL DEF Spec, ImplementsFifo, Fifo!Spec
=============================================================================
