------------------------------ MODULE WordMap -------------------------------
(***************************************************************************)
(* The word map of wordMap.c: entries of a name and a number, found by     *)
(* either, in two hash tables over the same entries (or in one of them,    *)
(* by the type of the map).                                                *)
(*                                                                         *)
(* The map has no lock: each function is one step.  An entry may be added  *)
(* whose name or number the map has already: each table drops it or not    *)
(* for itself.  Callers delete what they can find, and only while no       *)
(* cursor of theirs is at it.                                              *)
(***************************************************************************)
EXTENDS Hash

CONSTANTS
  WordName, WordNumber,
  WordMapCursors,         \* bound: the cursors on a map of each type
  DefaultHashtableSize    \* DEFAULT_HASHTABLE_SIZE

ASSUME WordMapAssumption ==
  /\ WordNumber \subseteq Nat
  /\ DefaultHashtableSize \in Nat \ {0}
  /\ \A n \in WordName : calcIndx["name"][n] \in Nat
  /\ \A k \in WordNumber : calcIndx["number"][k] \in Nat

VARIABLES
  map,           \* the sWordMap: its type and its two tables
  cursors,       \* the cursors on both tables (module Hash)
  clashed,       \* history: one table took an entry that the other dropped
  wordMapState   \* "runs", or which assertion has failed

wordMapVars == <<map, cursors, clashed, wordMapState>>

Entry == [name : WordName, number : WordNumber]

(* WORDMAP_BYNAME, WORDMAP_BYNUMBER, WORDMAP_BYNAME_NUMBER: two mask bits. *)
WordMapType == 1 .. 3
ByName(type) == type % 2 = 1
ByNumber(type) == type \div 2 = 1

wordMap_create2(type, hashTableSize) ==
  [type |-> type,
   byName |-> HashCreateTable(hashTableSize, "name"),
   byNumber |-> HashCreateTable(hashTableSize, "number")]

NoCursors ==
  [cursor |-> [c \in HashCursor |-> IdleCursor],
   first |-> [cell \in {"name", "number"} \X Entry |-> NoCursor],
   bypassed |-> FALSE, dangling |-> FALSE]

WordMapInit ==
  /\ \E type \in WordMapType : map = wordMap_create2(type, DefaultHashtableSize)
  /\ cursors = NoCursors /\ clashed = FALSE /\ wordMapState = "runs"

---------------------------------------------------------------------------
(* One entry, added to each table the type asks for.                       *)
Mut_AddByNameOnly(m, e) ==
  [m EXCEPT !.byName = IF ByName(m.type) THEN HashAdd(@, e) ELSE @,
            !.byNumber = IF ~ByName(m.type) THEN HashAdd(@, e) ELSE @]

Added(m, e) ==
  [m EXCEPT !.byName = IF ByName(m.type) THEN HashAdd(@, e) ELSE @,
            !.byNumber = IF ByNumber(m.type) THEN HashAdd(@, e) ELSE @]

(* The entries wordMap_findByName and wordMap_findByNumber find.           *)
wordMap_findByName(m, n) ==
  IF ByName(m.type) THEN HashFind(m.byName, n) ELSE {}

wordMap_findByNumber(m, k) == HashFind(m.byNumber, k)

wordMap_getNoElements(m) ==
  IF ByNumber(m.type) THEN m.byNumber.elementCount ELSE m.byName.elementCount

(* The table that wordMap_save writes.                                     *)
MainTable(m) == IF ByName(m.type) THEN m.byName ELSE m.byNumber

Words(m) == HashElements(MainTable(m))

(* Two tables, and only one of them has the key of the entry.              *)
Clash(m, e) ==
  m.type = 3 /\ (wordMap_findByName(m, e.name) = {}) # (wordMap_findByNumber(m, e.number) = {})

wordMap_add(e) ==
  /\ map' = Added(map, e)
  /\ clashed' = (clashed \/ Clash(map, e))
  /\ cursors' = NewCell(NewCell(cursors, map.byName, e), map.byNumber, e)
  /\ UNCHANGED wordMapState

NobodyAt(e) ==
  \A c \in HashCursor : cursors.cursor[c].element \notin {<<"name", e>>, <<"number", e>>}

(* HashDelete finds by the key of its table, and frees the cell: of the    *)
(* other table, that of whichever entry has the key there.                 *)
Deleted(m, e) ==
  [m EXCEPT !.byName = IF ByName(m.type) THEN HashDelete(@, e) ELSE @,
            !.byNumber = IF ByNumber(m.type) THEN HashDelete(@, e) ELSE @]

DeletedUnder(w, m, e) ==
  Freed(Freed(w, m.byName, wordMap_findByName(m, e.name)),
        m.byNumber, wordMap_findByNumber(m, e.number))

(* assert( tempInt == 1 ): HashDelete has found the key in each table.     *)
DeleteStops(m, e) ==
  \/ ByName(m.type) /\ wordMap_findByName(m, e.name) = {}
  \/ ByNumber(m.type) /\ wordMap_findByNumber(m, e.number) = {}

DeleteEntry(e) ==
  /\ NobodyAt(e)
  /\ map' = Deleted(map, e)
  /\ cursors' = DeletedUnder(cursors, map, e)
  /\ wordMapState' = IF DeleteStops(map, e) THEN "deleteAsserts" ELSE wordMapState
  /\ UNCHANGED clashed

wordMap_deleteByNumber(k) ==
  ByNumber(map.type) /\ \E e \in wordMap_findByNumber(map, k) : DeleteEntry(e)

wordMap_deleteByName(n) ==
  ByName(map.type) /\ \E e \in wordMap_findByName(map, n) : DeleteEntry(e)

---------------------------------------------------------------------------
(* Saving writes version, name, type and count, and one line for each      *)
(* element a cursor meets; that cursor is created and destroyed in the     *)
(* call and leaves the lists as they were.                                 *)
wordMap_save(m) ==
  [version |-> 2, type |-> m.type, count |-> MainTable(m).elementCount,
   lines |-> HashOrder(MainTable(m))]

(* A file of version 1 has no type: it is of a map with both tables.       *)
OfVersion1(file) == [file EXCEPT !.version = 1]

(* Loading makes tables of `count' chains and adds the lines in order.     *)
Mut_LoadStopsEarly(file) ==
  LET m[i \in 0 .. file.count - 1] ==
        IF i = 0 THEN wordMap_create2(file.type, file.count)
        ELSE Added(m[i - 1], file.lines[i])
  IN m[file.count - 1]

LoadedFrom(file) ==
  LET type == IF file.version = 1 THEN 3 ELSE file.type
      m[i \in 0 .. file.count] ==
        IF i = 0 THEN wordMap_create2(type, file.count)
        ELSE Added(m[i - 1], file.lines[i])
  IN m[file.count]

(* A program saves the map, and one that starts later loads it.  An empty  *)
(* one asks for tables of no chains: HashCreateTable asserts that there    *)
(* are some.                                                               *)
wordMap_load(version) ==
  /\ version = 1 => map.type = 3
  /\ cursors' = NoCursors
  /\ LET file == wordMap_save(map)
     IN IF file.count = 0
        THEN wordMapState' = "loadAsserts" /\ UNCHANGED <<map, clashed>>
        ELSE /\ map' = LoadedFrom(IF version = 1 THEN OfVersion1(file) ELSE file)
             /\ clashed' = (map.type = 3 /\ \E d, e \in Words(map) : d # e /\ d.number = e.number)
             /\ UNCHANGED wordMapState

---------------------------------------------------------------------------
(* Cursors *)

TableOf(m, field) == IF field = "name" THEN m.byName ELSE m.byNumber

wordMap_cursor_create(c, field) ==
  /\ ~cursors.cursor[c].exists /\ c \in WordMapCursors[map.type]
  /\ IF field = "name" THEN ByName(map.type) ELSE ByNumber(map.type)
  /\ cursors' = HashCursorCreate(cursors, TableOf(map, field), c)
  /\ UNCHANGED <<map, clashed, wordMapState>>

wordMap_cursor_destroy(c) ==
  /\ cursors.cursor[c].exists
  /\ cursors' = HashCursorDestroy(cursors, c)
  /\ UNCHANGED <<map, clashed, wordMapState>>

wordMap_cursor_goFirst(c) ==
  /\ cursors.cursor[c].exists
  /\ cursors' = HashCursorGoFirst(cursors, TableOf(map, cursors.cursor[c].field), c)
  /\ UNCHANGED <<map, clashed, wordMapState>>

wordMap_cursor_goNext(c) ==
  LET ht == TableOf(map, cursors.cursor[c].field)
  IN /\ cursors.cursor[c].exists
     /\ ~HashCursorPastLastElement(cursors, ht, c)
     /\ cursors' = HashCursorGoNext(cursors, ht, c)
     /\ UNCHANGED <<map, clashed, wordMapState>>

(* With a list cut short, or a write to what was freed, the model ends.    *)
WordMapNext ==
  /\ wordMapState = "runs" /\ ~cursors.bypassed /\ ~cursors.dangling
  /\ \/ \E e \in Entry : wordMap_add(e)
     \/ \E k \in WordNumber : wordMap_deleteByNumber(k)
     \/ \E n \in WordName : wordMap_deleteByName(n)
     \/ \E version \in {1, 2} : wordMap_load(version)
     \/ \E c \in HashCursor :
          \/ \E field \in {"name", "number"} : wordMap_cursor_create(c, field)
          \/ wordMap_cursor_destroy(c)
          \/ wordMap_cursor_goFirst(c)
          \/ wordMap_cursor_goNext(c)

---------------------------------------------------------------------------
(* Each table is sound and finds its entries, whatever is added.  As long  *)
(* as no entry was taken by one table only, the two are one dictionary     *)
(* through additions, deletions by either key (each table is searched with *)
(* its own), and a save and load into tables of another size: they hold    *)
(* the same entries, the count is theirs, and the asserts of the delete    *)
(* functions (tempInt == 1) hold.                                          *)
TablesAgree ==
  /\ map.type \in WordMapType
  /\ HashTableSound(map.byName) /\ HashTableSound(map.byNumber)
  /\ \A e \in HashElements(map.byName) : wordMap_findByName(map, e.name) = {e}
  /\ \A e \in HashElements(map.byNumber) : wordMap_findByNumber(map, e.number) = {e}
  /\ ~clashed =>
       /\ map.type = 3 => HashElements(map.byName) = HashElements(map.byNumber)
       /\ wordMap_getNoElements(map) = Cardinality(Words(map))
       /\ wordMapState # "deleteAsserts"

(* The asserts of the delete functions, wordMap.c:424 and :452, for maps   *)
(* to which any entries are added (the comment at :469 tells of several of *)
(* one name).                                                              *)
DeleteAssertHolds == wordMapState # "deleteAsserts"

(* A cursor is in the list of the cell it is at and in no other, so that   *)
(* firstCursor tells whether a cell may be freed (hash.c:76).              *)
CursorsListed ==
  \A cell \in DOMAIN cursors.first :
    CursorsOfCell(cursors, cell) = {c \in HashCursor : cursors.cursor[c].element = cell}

(* No freed cursor is written to.                                          *)
NothingDangles == ~cursors.dangling

(* The lists are right until a cursor that others have joined in front of  *)
(* leaves a list as its first: its prevCursor was lost when a cursor went  *)
(* from between the two.  A cell is never freed under a cursor unless the  *)
(* tables disagree, and a cell with a cursor is in its table.              *)
CursorsSound ==
  /\ ~cursors.bypassed => CursorsListed
  /\ ~clashed => NothingDangles
  /\ ~cursors.dangling =>
       \A c \in HashCursor :
         LET r == cursors.cursor[c]
         IN r.element # NoElement => r.element[2] \in HashElements(TableOf(map, r.element[1]))

(* While other entries come and go, a traversal meets every entry that is  *)
(* there all the time before it is past the last element, and none twice.  *)
TraversalComplete ==
  \A c \in HashCursor :
    LET r == cursors.cursor[c]
    IN /\ ~r.again
       /\ r.exists /\ HashCursorPastLastElement(cursors, TableOf(map, r.field), c)
            => r.due = {}

(* The word map is a dictionary: an entry comes into every index that has  *)
(* not its key, goes by its keys, and a load, which alone makes tables of  *)
(* another size, makes the indices from the entries of the first.          *)
Fields(type) ==
  {f \in {"name", "number"} : IF f = "name" THEN ByName(type) ELSE ByNumber(type)}

Indices(m) == [f \in Fields(m.type) |-> HashElements(TableOf(m, f))]

D == INSTANCE Dictionary WITH Name <- WordName, Number <- WordNumber, index <- Indices(map)

LoadKeepsWords ==
  [][MainTable(map').size # MainTable(map).size => Words(map') = Words(map)]_map

ImplementsDictionary == D!Dictionary /\ LoadKeepsWords
=============================================================================
