-------------------------------- MODULE Hash --------------------------------
(***************************************************************************)
(* The hash table of hash.c: tables as values, the operations as operators *)
(* that return the new table, for the components that keep tables.  A      *)
(* table has chains of entries; the entries are records, `field' names the *)
(* component of the record that is the table's key (what calcIndx and      *)
(* compData look at).  Cursors are kept apart from the tables: every cell  *)
(* (an entry in a table) has the list of the cursors that are at it.       *)
(*                                                                         *)
(* The table has no lock (the semaphore of hash.c is for the cursor list   *)
(* of one cell), so an operation is one step: callers serialise them.      *)
(***************************************************************************)
EXTENDS Integers, Sequences, FiniteSets, SequencesExt

CONSTANTS
  HashCursor,   \* the cursors that may exist
  calcIndx      \* calcIndx[field][value]: the hash value of a key

NoCursor == "NULL"
NoElement == << >>

---------------------------------------------------------------------------
(* Tables *)

HashCreateTable(sz, field) ==
  [size |-> sz, field |-> field, elementCount |-> 0,
   infoArray |-> [i \in 0 .. sz - 1 |-> << >>]]

Hashval(ht, key) == calcIndx[ht.field][key] % ht.size

(* The place of the first cell of the chain with this key, 0 for none.     *)
FindInfo(ht, key) ==
  LET chain == ht.infoArray[Hashval(ht, key)]
      at == {i \in DOMAIN chain : chain[i][ht.field] = key}
  IN IF at = {} THEN 0 ELSE CHOOSE i \in at : \A j \in at : i <= j

HashElements(ht) == UNION {Range(ht.infoArray[i]) : i \in 0 .. ht.size - 1}

(* The record found, as a set: empty for NULL.                             *)
HashFind(ht, key) ==
  LET i == FindInfo(ht, key)
  IN IF i = 0 THEN {} ELSE {ht.infoArray[Hashval(ht, key)][i]}

(* An equivalent record keeps its place and nothing is added.              *)
HashAdd(ht, e) ==
  LET h == Hashval(ht, e[ht.field])
  IN IF FindInfo(ht, e[ht.field]) # 0 THEN ht
     ELSE [ht EXCEPT !.infoArray[h] = <<e>> \o @, !.elementCount = @ + 1]

(* The record with the key of the argument is removed, which need not be   *)
(* the argument itself.                                                    *)
HashDelete(ht, e) ==
  LET h == Hashval(ht, e[ht.field])
      i == FindInfo(ht, e[ht.field])
  IN IF i = 0 THEN ht
     ELSE [ht EXCEPT !.infoArray[h] = RemoveAt(@, i), !.elementCount = @ - 1]

(* The order in which a cursor meets the elements.                         *)
HashOrder(ht) ==
  LET chains[n \in 0 .. ht.size] ==
        IF n = 0 THEN << >> ELSE chains[n - 1] \o ht.infoArray[n - 1]
  IN chains[ht.size]

---------------------------------------------------------------------------
(* Cursors.  w.cursor[c] is the struct of cursor c, w.first[cell] the      *)
(* firstCursor of a cell.  `element' is the cell or NoElement.  `due',     *)
(* `seen' and `again' are history, of the traversal since GoFirst: the     *)
(* elements present all the time and not met, the ones met, and whether    *)
(* one was met twice.  w.bypassed is history, too: a cursor left a list as *)
(* its first and was not.  w.dangling: a cursor or a cell that was freed   *)
(* was written to or is about to be, and what follows is undefined.        *)

Cell(ht, e) == <<ht.field, e>>

IdleCursor ==
  [exists |-> FALSE, field |-> "", hashIndex |-> -1, element |-> NoElement,
   nextCursor |-> NoCursor, prevCursor |-> NoCursor,
   due |-> {}, seen |-> {}, again |-> FALSE]

addCursorToList(w, c) ==
  LET el == w.cursor[c].element
      next == w.first[el]
      w1 == [w EXCEPT !.cursor[c].nextCursor = next,
                      !.cursor[c].prevCursor = NoCursor,
                      !.first[el] = c]
  IN IF next = NoCursor THEN w1
     ELSE [w1 EXCEPT !.cursor[next].prevCursor = c,
                     !.dangling = @ \/ ~w.cursor[next].exists]

Mut_RemoveLeavesFirst(w, c) ==
  LET r == w.cursor[c]
      w1 == IF r.prevCursor = NoCursor THEN w
            ELSE [w EXCEPT !.cursor[r.prevCursor].nextCursor = r.nextCursor]
  IN IF r.nextCursor = NoCursor THEN w1
     ELSE [w1 EXCEPT !.cursor[r.nextCursor].prevCursor = r.prevCursor]

(* prevCursor is cleared before it is handed to the next cursor: the next  *)
(* cursor gets NULL whether or not there is a cursor before this one.      *)
removeCursorFromList(w, c) ==
  LET r == w.cursor[c]
      w1 == IF r.prevCursor # NoCursor
            THEN [w EXCEPT !.cursor[r.prevCursor].nextCursor = r.nextCursor,
                           !.cursor[c].prevCursor = NoCursor]
            ELSE [w EXCEPT !.first[r.element] = r.nextCursor]
      w2 == IF r.nextCursor = NoCursor THEN w1
            ELSE [w1 EXCEPT !.cursor[r.nextCursor].prevCursor = w1.cursor[c].prevCursor,
                            !.cursor[c].nextCursor = NoCursor]
      linked == {r.prevCursor, r.nextCursor} \ {NoCursor}
  IN [w2 EXCEPT !.bypassed = @ \/ (r.prevCursor = NoCursor /\ w.first[r.element] # c),
                !.dangling = @ \/ \E d \in linked : ~w.cursor[d].exists]

moveCursorToNextIndex(w, ht, c) ==
  LET full == {i \in 0 .. ht.size - 1 :
                 i > w.cursor[c].hashIndex /\ ht.infoArray[i] # << >>}
      index == CHOOSE i \in full : \A j \in full : i <= j
  IN IF full = {}
     THEN [w EXCEPT !.cursor[c].hashIndex = ht.size,
                    !.cursor[c].element = NoElement]
     ELSE addCursorToList(
            [w EXCEPT !.cursor[c].hashIndex = index,
                      !.cursor[c].element = Cell(ht, Head(ht.infoArray[index]))],
            c)

(* History of a move: what the cursor is at now.                           *)
Met(w, c) ==
  IF w.cursor[c].element = NoElement THEN [w EXCEPT !.cursor[c].seen = {}]
  ELSE LET e == w.cursor[c].element[2]
       IN [w EXCEPT !.cursor[c].seen = @ \cup {e},
                    !.cursor[c].due = @ \ {e},
                    !.cursor[c].again = @ \/ e \in w.cursor[c].seen]

Detached(w, c) ==
  IF w.cursor[c].element = NoElement THEN w
  ELSE [removeCursorFromList(w, c) EXCEPT !.cursor[c].element = NoElement]

HashCursorGoFirst(w, ht, c) ==
  LET w1 == [Detached(w, c) EXCEPT !.cursor[c].hashIndex = -1,
                                   !.cursor[c].due = HashElements(ht),
                                   !.cursor[c].seen = {}]
  IN Met(moveCursorToNextIndex(w1, ht, c), c)

HashCursorCreate(w, ht, c) ==
  HashCursorGoFirst(
    [w EXCEPT !.cursor[c] = [IdleCursor EXCEPT !.exists = TRUE, !.field = ht.field]],
    ht, c)

HashCursorDestroy(w, c) == [Detached(w, c) EXCEPT !.cursor[c] = IdleCursor]

HashCursorPastLastElement(w, ht, c) == w.cursor[c].hashIndex >= ht.size

Mut_GoNextSkipsChain(w, ht, c) ==
  Met(moveCursorToNextIndex(Detached(w, c), ht, c), c)

(* The caller has asked HashCursorPastLastElement.                         *)
HashCursorGoNext(w, ht, c) ==
  LET e == w.cursor[c].element[2]
      chain == ht.infoArray[w.cursor[c].hashIndex]
      at == CHOOSE i \in DOMAIN chain : chain[i] = e
      w1 == Detached(w, c)
  IN Met(IF at = Len(chain) THEN moveCursorToNextIndex(w1, ht, c)
         ELSE addCursorToList(
                [w1 EXCEPT !.cursor[c].element = Cell(ht, chain[at + 1])], c),
         c)

(* What HashAdd writes to the new cell.                                    *)
NewCell(w, ht, e) ==
  IF FindInfo(ht, e[ht.field]) # 0 THEN w ELSE [w EXCEPT !.first[Cell(ht, e)] = NoCursor]

(* The cells are freed, whether or not a cursor is at them.  History: a    *)
(* removed element is no longer due, and one that is added again has not   *)
(* been seen.                                                              *)
Freed(w, ht, es) ==
  [w EXCEPT
     !.dangling = @ \/ \E c \in HashCursor : w.cursor[c].element \in {Cell(ht, e) : e \in es},
     !.cursor = [c \in HashCursor |->
        IF w.cursor[c].field # ht.field THEN w.cursor[c]
        ELSE [w.cursor[c] EXCEPT !.due = @ \ es, !.seen = @ \ es]]]

---------------------------------------------------------------------------
(* What the tables and the lists have to be *)

(* Every entry is in the chain of its key, once, and is counted.           *)
HashTableSound(ht) ==
  /\ \A i \in 0 .. ht.size - 1 : \A j \in DOMAIN ht.infoArray[i] :
       Hashval(ht, ht.infoArray[i][j][ht.field]) = i
  /\ \A e, f \in HashElements(ht) : e[ht.field] = f[ht.field] => e = f
  /\ \A i \in 0 .. ht.size - 1 : IsInjective(ht.infoArray[i])
  /\ ht.elementCount = Cardinality(HashElements(ht))

(* The cursors reached from the firstCursor of a cell.                     *)
CursorsOfCell(w, cell) ==
  IF w.first[cell] = NoCursor THEN {} ELSE
  LET at[n \in 0 .. Cardinality(HashCursor)] ==
        IF n = 0 THEN w.first[cell]
        ELSE IF at[n - 1] = NoCursor THEN NoCursor
        ELSE w.cursor[at[n - 1]].nextCursor
  IN {at[n] : n \in 0 .. Cardinality(HashCursor)} \ {NoCursor}
=============================================================================
