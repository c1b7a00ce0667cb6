------------------------------ MODULE IDTable -------------------------------
(***************************************************************************)
(* The ID table of idTable.c: an array of slots whose free ones are linked *)
(* into a list through the slots themselves.  It has no lock: a function   *)
(* is one step.                                                            *)
(*                                                                         *)
(* Slots are slotSize bytes apart, but some functions index the array as   *)
(* one of sTableSlot, whose size differs with pointers of eight bytes: they*)
(* look at other bytes then.  What the program does after such a value, or *)
(* one from outside the array, has been used is undefined; the model stops *)
(* there, and where an assertion fails.  A build with assertions.          *)
(***************************************************************************)
EXTENDS Integers, Sequences, FiniteSets, SequencesExt

CONSTANTS
  IdtElement,
  IdtPointerSizes,   \* sizeof( void * ), by build
  IdtInitialCount,   \* the argument of idt_create
  IdtMaxIndex,       \* bound on the indices put and on the table
  IdtMaxLoaded       \* bound on the elements of a file

ASSUME IdtAssumption ==
  /\ IdtPointerSizes \subseteq {4, 8}
  /\ IdtInitialCount \in Nat \ {0} /\ IdtMaxIndex \in Nat /\ IdtMaxLoaded \in Nat
  /\ IdtInitialCount <= IdtMaxIndex + 1 /\ 2 * IdtMaxLoaded <= IdtMaxIndex + 1

VARIABLES
  idt,
  toRead,      \* elements that idt_load2 has still to read
  idtPointer,  \* sizeof( void * )
  idtFile,     \* the first line of the file that idt_save has written
  idtState     \* "running", or why it has stopped

idtVars == <<idt, toRead, idtPointer, idtFile, idtState>>

(* The first line that file_readLine returns of a file: the cookie, and in *)
(* one of idt_save the comment that follows it without a newline.          *)
Cookie == "cookie"
SavedCookie == "cookie# application data format version"
NoFile == "none"

(* sTableSlot: a Boolean, and a union that is as large as a pointer; the   *)
(* slots of idt_create2 count the union's int and the element.             *)
sizeofTableSlot == 2 * idtPointer
slotSize == sizeofTableSlot + idtPointer - 4

(* idt->table[ index ] and ELEMENT( idt, index ) are the same slot.        *)
SameSlot(index) == index * sizeofTableSlot = index * slotSize

Stops(why) == idtState' = why /\ UNCHANGED <<idt, idtPointer, idtFile>>
Runs == UNCHANGED <<idtPointer, idtFile, idtState>>

(* A slot is free, with the next free one, or used, with its element: the  *)
(* union of sTableSlot is one field.                                       *)
FreeSlot(next) == [isFree |-> TRUE, data |-> next]
UsedSlot(e) == [isFree |-> FALSE, data |-> e]

idt_create(count) ==
  [table |-> [i \in 0 .. count - 1 |-> FreeSlot(IF i = count - 1 THEN -1 ELSE i + 1)],
   tableSize |-> count, firstFree |-> 0, elementCount |-> 0]

IdtInit ==
  /\ idt = idt_create(IdtInitialCount) /\ toRead = 0
  /\ idtPointer \in IdtPointerSizes /\ idtFile = NoFile /\ idtState = "running"

(* The new slots come before the old ones in the free list.                *)
Mut_EnlargeForgetsOldFree(t) ==
  LET newSize == 2 * t.tableSize
  IN [t EXCEPT !.table = [i \in 0 .. newSize - 1 |->
                            IF i < t.tableSize THEN t.table[i]
                            ELSE FreeSlot(IF i = newSize - 1 THEN -1 ELSE i + 1)],
               !.tableSize = newSize, !.firstFree = t.tableSize]

idt_enlarge(t) ==
  LET newSize == 2 * t.tableSize
  IN [t EXCEPT !.table = [i \in 0 .. newSize - 1 |->
                            IF i < t.tableSize THEN t.table[i]
                            ELSE FreeSlot(IF i = newSize - 1 THEN t.firstFree ELSE i + 1)],
               !.tableSize = newSize, !.firstFree = t.tableSize]

(* Enlarged until the index fits.                                          *)
Enlarging(t, index) ==
  LET e[n \in 0 .. index + 1] ==
        IF n = 0 THEN t
        ELSE IF index < e[n - 1].tableSize THEN e[n - 1] ELSE idt_enlarge(e[n - 1])
  IN e

EnlargedFor(t, index) == Enlarging(t, index)[index + 1]

idt_isElementAllocated(t, index) == index < t.tableSize /\ ~t.table[index].isFree

idt_add(e) ==
  LET t == IF idt.firstFree = -1 THEN idt_enlarge(idt) ELSE idt
      index == t.firstFree
  IN /\ idt.firstFree # -1 \/ 2 * idt.tableSize <= IdtMaxIndex + 1
     /\ t.table[index].isFree
     /\ idt' = [t EXCEPT !.firstFree = t.table[index].data,
                         !.table[index] = UsedSlot(e),
                         !.elementCount = @ + 1]
     /\ Runs

(* The assertion that the slot is in use looks at table[ index ].          *)
idt_remove(index) ==
  /\ idt_isElementAllocated(idt, index)
  /\ \/ /\ idt' = [idt EXCEPT !.table[index] = FreeSlot(idt.firstFree),
                              !.firstFree = index,
                              !.elementCount = @ - 1]
        /\ Runs
     \/ ~SameSlot(index) /\ Stops("removeAsserts")

(* The free list is searched for the slot before `index'; an index that is *)
(* not in it is in use, and nothing is put there.                          *)
Mut_PutOverwrites(t0, index, e) ==
  [EnlargedFor(t0, index) EXCEPT !.table[index] = UsedSlot(e)]

PutAt(t0, index, e) ==
  LET t == EnlargedFor(t0, index)
      prev == {i \in 0 .. t.tableSize - 1 : t.table[i].isFree /\ t.table[i].data = index}
      put == [t EXCEPT !.table[index] = UsedSlot(e), !.elementCount = @ + 1]
  IN IF t.firstFree = index THEN [put EXCEPT !.firstFree = t.table[index].data]
     ELSE IF prev = {} THEN t
     ELSE [put EXCEPT !.table[CHOOSE i \in prev : TRUE].data = t.table[index].data]

(* With no slot free the search starts at slot -1; and when the index is   *)
(* the first of the list, the next one is read from table[ index ].        *)
PutDefined(t, index) ==
  /\ t.firstFree # -1 \/ index >= t.tableSize
  /\ EnlargedFor(t, index).firstFree = index => SameSlot(index)

idt_putElementAt(index, e) ==
  /\ EnlargedFor(idt, index).tableSize <= IdtMaxIndex + 1
  /\ \/ PutDefined(idt, index) /\ idt' = PutAt(idt, index, e) /\ Runs
     \/ ~PutDefined(idt, index) /\ Stops("undefined")

(* The elements that are saved, and the assertion that counts them, go by  *)
(* table[ i ].                                                             *)
idt_save ==
  \/ idtFile' = SavedCookie /\ UNCHANGED <<idt, idtPointer, idtState>>
  \/ /\ \E i \in DOMAIN idt.table : ~SameSlot(i)
     /\ Stops("saveAsserts") \/ Stops("undefined")

(* The cookie is compared with the first line, in an assertion; then the   *)
(* header gives the number of elements.  A program that has no table makes *)
(* one with room for twice as many, which for none writes to slot -1.      *)
idt_load(cookie, count) ==
  /\ idt.elementCount = 0
  /\ \/ cookie = Cookie /\ count > 0 /\ idt' = idt_create(2 * count) /\ toRead' = count /\ Runs
     \/ cookie # Cookie /\ Stops("loadAsserts") /\ UNCHANGED toRead
     \/ cookie = Cookie /\ count = 0 /\ Stops("undefined") /\ UNCHANGED toRead

(* A table that is given is appended to.                                   *)
idt_load2(cookie, count) ==
  \/ cookie = Cookie /\ toRead' = count /\ UNCHANGED idt /\ Runs
  \/ cookie # Cookie /\ Stops("loadAsserts") /\ UNCHANGED toRead

(* One turn of its loop: the function of the application that reads an     *)
(* element puts it at the index read before.                               *)
ReadElement(index, e) == idt_putElementAt(index, e) /\ toRead' = toRead - 1

(* The files are those that idt_save has written, and those that another   *)
(* program has, in the format of idt_load.                                 *)
IdtNext ==
  /\ idtState = "running"
  /\ \/ /\ toRead = 0
        /\ \/ \E e \in IdtElement : idt_add(e)
           \/ \E index \in 0 .. IdtMaxIndex : idt_remove(index)
           \/ \E index \in 0 .. IdtMaxIndex, e \in IdtElement : idt_putElementAt(index, e)
           \/ idt_save
        /\ UNCHANGED toRead
     \/ /\ toRead = 0
        /\ \E cookie \in {Cookie, idtFile} \ {NoFile}, count \in 0 .. IdtMaxLoaded :
             idt_load(cookie, count) \/ idt_load2(cookie, count)
     \/ /\ toRead > 0
        /\ \E index \in 0 .. IdtMaxIndex, e \in IdtElement : ReadElement(index, e)

---------------------------------------------------------------------------
(* The slots met from firstFree, n of them or fewer.                       *)
IdtFreeList ==
  LET at[n \in 0 .. idt.tableSize] ==
        IF n = 0 THEN idt.firstFree
        ELSE IF at[n - 1] = -1 THEN -1 ELSE idt.table[at[n - 1]].data
  IN at

(* The list threaded through the slots ends, and holds the free slots, all *)
(* of them and each once, whatever the order of additions, removals, puts  *)
(* into the middle of the list and enlargements; the rest is counted.  It  *)
(* is so in builds of either pointer size, until an assertion fails or a   *)
(* value is read from outside the slots.                                   *)
IdtFreeListSound ==
  /\ Cardinality({i \in DOMAIN idt.table : ~idt.table[i].isFree}) = idt.elementCount
  /\ IdtFreeList[idt.tableSize] = -1
  /\ Range(IdtFreeList) \ {-1} = {i \in DOMAIN idt.table : idt.table[i].isFree}

IdtIds == [i \in {j \in DOMAIN idt.table : ~idt.table[j].isFree} |-> idt.table[i].data]

(* An element keeps its id, through enlargements and when a file is loaded *)
(* on top, and an id in use is not given away again: a put to it changes   *)
(* nothing.                                                                *)
IM == INSTANCE IdMap WITH Item <- IdtElement, Id <- 0 .. IdtMaxIndex,
                           ids <- IdtIds

IdtImplementsIdMap == IM!IdMap

(* idTable.h:65 offers idt_save and idt_load for restoring a table.  What  *)
(* the one writes the other does not accept (idTable.c:263, 316).          *)
SavedTableLoads == idtState # "loadAsserts"

(* A put to an id that is in use is an error that is reported              *)
(* (idTable.c:230); in a full table the search for it leaves the array.    *)
PutIsDefined == idtState # "undefined"

(* An element in use can be removed (idTable.c:161).  With pointers of     *)
(* eight bytes the assertion looks at other bytes.                         *)
RemoveFindsSlot == idtState # "removeAsserts"
=============================================================================
