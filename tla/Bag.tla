-------------------------------- MODULE Bag ---------------------------------
(***************************************************************************)
(* The bag of bag.c: an array that grows, without order; removal moves the *)
(* last element into the gap.  bagLock is compiled in only if              *)
(* _POSIX_MUTEX_THREADS is defined, which nothing defines, and bagAdd and  *)
(* bagRemove never take it: callers serialise, and a function is one step. *)
(* Two bags, so that the functions with two of them have both.             *)
(***************************************************************************)
EXTENDS Integers, Sequences, FiniteSets, SequencesExt

CONSTANTS
  BagElement,
  BagCapacity, BagIncrement,   \* the arguments of bagCreate
  BagMaxElements               \* bound on the elements of a bag

ASSUME BagAssumption ==
  BagCapacity \in Nat /\ BagIncrement \in Nat /\ BagMaxElements \in Nat

VARIABLES
  bags,       \* the sBag structs
  bagIter,    \* a BagIterator on bag "x", or the loop of bagForEach on it
  bagHolds    \* history: how often each element is in each bag

bagVars == <<bags, bagIter, bagHolds>>

BagId == {"x", "y"}

bagCreate(capacity, increment) ==
  [capacity |-> capacity, capacityIncrement |-> increment, array |-> << >>]

(* Multisets, as the number of copies of each element *)
NoCopies == [e \in BagElement |-> 0]
OneCopy(e) == [d \in BagElement |-> IF d = e THEN 1 ELSE 0]
Together(m, n) == [e \in BagElement |-> m[e] + n[e]]
Without(m, e) == [d \in BagElement |-> IF d = e /\ m[d] > 0 THEN m[d] - 1 ELSE m[d]]
Only(m, keep) == [e \in BagElement |-> IF e \in keep THEN m[e] ELSE 0]

NoIterator == [exists |-> FALSE, current |-> 0, due |-> NoCopies, seen |-> NoCopies]

BagInit ==
  /\ bags = [b \in BagId |-> bagCreate(BagCapacity, BagIncrement)]
  /\ bagIter = NoIterator
  /\ bagHolds = [b \in BagId |-> NoCopies]

---------------------------------------------------------------------------
(* The operations on one bag *)

Mut_IncreaseDoubles(bag) ==
  IF Len(bag.array) < bag.capacity THEN bag
  ELSE [bag EXCEPT !.capacity = IF bag.capacityIncrement = 0 THEN 2 * @
                                ELSE @ + bag.capacityIncrement]

ensureIncCapacity(bag) ==
  IF Len(bag.array) < bag.capacity THEN bag
  ELSE [bag EXCEPT !.capacity = IF bag.capacityIncrement # 0
                                THEN @ + bag.capacityIncrement
                                ELSE IF @ = 0 THEN 1 ELSE 2 * @]

Plus(bag, e) == [ensureIncCapacity(bag) EXCEPT !.array = Append(@, e)]

(* The last element takes the place of element i.                          *)
Mut_GapClosedByShift(array, i) == SubSeq(array, 1, i - 1)

GapFilled(array, i) == Front([array EXCEPT ![i] = Last(array)])

Minus(bag, e) ==
  LET at == {i \in DOMAIN bag.array : bag.array[i] = e}
  IN IF at = {} THEN bag
     ELSE [bag EXCEPT !.array = GapFilled(@, CHOOSE i \in at : \A j \in at : i <= j)]

(* bagAdd2 for those elements of another bag that are to be kept.          *)
AddIf(bag, e, keep) == IF e \in keep THEN Plus(bag, e) ELSE bag

AddEach(bag, array, keep) ==
  LET at[n \in 0 .. Len(array)] ==
        IF n = 0 THEN bag ELSE AddIf(at[n - 1], array[n], keep)
  IN at[Len(array)]

(* The loop of bagFilter2: an element that fails is replaced by the last   *)
(* one, which is looked at next.                                           *)
FilterOne(p, keep) ==
  IF p.array[p.i] \in keep THEN [p EXCEPT !.i = @ + 1]
  ELSE [p EXCEPT !.array = GapFilled(@, p.i)]

Kept(array, keep) ==
  LET loop[n \in 0 .. Len(array)] ==
        IF n = 0 THEN [i |-> 1, array |-> array] ELSE FilterOne(loop[n - 1], keep)
  IN loop[Len(array)].array

---------------------------------------------------------------------------
(* Actions.  A bag with an iterator gets no removal (README): the          *)
(* iterator would miss the element that is moved.                          *)

Quiet(b) == b = "y" \/ ~bagIter.exists

(* An element added to bag "x" is met by its iterator too.                 *)
Due(b, more) ==
  IF b = "x" /\ bagIter.exists THEN [bagIter EXCEPT !.due = Together(@, more)] ELSE bagIter

bagAdd(b, e) ==
  /\ Len(bags[b].array) < BagMaxElements
  /\ bags' = [bags EXCEPT ![b] = Plus(@, e)]
  /\ bagHolds' = [bagHolds EXCEPT ![b] = Together(@, OneCopy(e))]
  /\ bagIter' = Due(b, OneCopy(e))

bagRemoveMaybe(b, e) ==
  /\ Quiet(b)
  /\ bags' = [bags EXCEPT ![b] = Minus(@, e)]
  /\ bagHolds' = [bagHolds EXCEPT ![b] = Without(@, e)]
  /\ UNCHANGED bagIter

bagFilter2(b, keep) ==
  /\ Quiet(b)
  /\ bags' = [bags EXCEPT ![b].array = Kept(@, keep)]
  /\ bagHolds' = [bagHolds EXCEPT ![b] = Only(@, keep)]
  /\ UNCHANGED bagIter

(* Filtering bag "x" into a new bag, here "y".                             *)
bagFilter(keep) ==
  /\ bags' = [bags EXCEPT !["y"] = AddEach(bagCreate(10, 10), bags["x"].array, keep)]
  /\ bagHolds' = [bagHolds EXCEPT !["y"] = Only(bagHolds["x"], keep)]
  /\ UNCHANGED bagIter

bagDuplicate ==
  /\ bags' = [bags EXCEPT !["y"] = bags["x"]]
  /\ bagHolds' = [bagHolds EXCEPT !["y"] = bagHolds["x"]]
  /\ UNCHANGED bagIter

(* bagForEach2 over the source with bagAdd2 on the result, another bag.    *)
bagAppend(result, source) ==
  /\ result # source
  /\ Len(bags[result].array) + Len(bags[source].array) <= BagMaxElements
  /\ bags' = [bags EXCEPT ![result] = AddEach(@, bags[source].array, BagElement)]
  /\ bagHolds' = [bagHolds EXCEPT ![result] = Together(@, bagHolds[source])]
  /\ bagIter' = Due(result, bagHolds[source])

bagIteratorCreate ==
  /\ ~bagIter.exists
  /\ bagIter' = [NoIterator EXCEPT !.exists = TRUE, !.due = bagHolds["x"]]
  /\ UNCHANGED <<bags, bagHolds>>

bagIteratorHasNext == bagIter.current < Len(bags["x"].array)

(* The next element of an iterator, or the next round of bagForEach, which *)
(* reads noElements in every round.                                        *)
bagIteratorNext ==
  /\ bagIter.exists /\ bagIteratorHasNext
  /\ bagIter' = [bagIter EXCEPT
                   !.current = @ + 1,
                   !.seen = Together(@, OneCopy(bags["x"].array[bagIter.current + 1]))]
  /\ UNCHANGED <<bags, bagHolds>>

bagIteratorDestroy ==
  /\ bagIter.exists
  /\ bagIter' = NoIterator
  /\ UNCHANGED <<bags, bagHolds>>

BagNext ==
  \/ \E b \in BagId, e \in BagElement : bagAdd(b, e) \/ bagRemoveMaybe(b, e)
  \/ \E b \in BagId, keep \in SUBSET BagElement : bagFilter2(b, keep)
  \/ \E keep \in SUBSET BagElement : bagFilter(keep)
  \/ bagDuplicate \/ \E r, s \in BagId : bagAppend(r, s)
  \/ bagIteratorCreate \/ bagIteratorNext \/ bagIteratorDestroy

---------------------------------------------------------------------------
Contents(array) ==
  [e \in BagElement |-> Cardinality({i \in DOMAIN array : array[i] = e})]

(* Growing, filling gaps with the last element and filtering in place      *)
(* neither lose nor double an element: each bag holds what its definition  *)
(* as a multiset says, within its capacity, and an iteration that is at    *)
(* its end has met everything once.                                        *)
BagSound ==
  /\ \A b \in BagId :
       /\ Contents(bags[b].array) = bagHolds[b]
       /\ Len(bags[b].array) <= bags[b].capacity
  /\ bagIter.exists /\ ~bagIteratorHasNext => bagIter.seen = bagIter.due
=============================================================================
