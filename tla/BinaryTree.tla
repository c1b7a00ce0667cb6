----------------------------- MODULE BinaryTree -----------------------------
(***************************************************************************)
(* The binary search tree of bt.c.  A node is named by its value.          *)
(* bt_remove leaves the node where it is: it hangs the left subtree of the *)
(* node below its right one as well, or changes the father of the node,    *)
(* and takes the count down.  The value is still found, and may be removed *)
(* again; then the links can form a circle, and a call on it never returns.*)
(***************************************************************************)
EXTENDS Integers, Sequences, FiniteSets

CONSTANTS
  BtValues,
  BtMaxRemovals   \* bound on the calls of bt_remove

ASSUME BtAssumption == BtValues \subseteq Nat /\ BtMaxRemovals \in Nat

VARIABLES
  btRoot, btNode, btCount, btCurrent,
  btAdded,     \* history: the values added
  btRemovals,  \* history: the number of removals
  btLost       \* a call goes round in a circle

btVars == <<btRoot, btNode, btCount, btCurrent, btAdded, btRemovals, btLost>>

nil == -1
NoNode == [left |-> nil, right |-> nil, father |-> nil, direction |-> "none"]

bt_create ==
  /\ btRoot = nil /\ btCount = 0 /\ btCurrent = nil
  /\ btNode = [v \in BtValues |-> NoNode]
  /\ btAdded = {} /\ btRemovals = 0 /\ btLost = FALSE

(* The nodes on the way from the root to a value, or to where it belongs.  *)
Path(v) ==
  LET at[n \in 0 .. Cardinality(BtValues)] ==
        IF n = 0 THEN btRoot
        ELSE IF at[n - 1] \in {nil, v} THEN at[n - 1]
        ELSE IF v < at[n - 1] THEN btNode[at[n - 1]].left ELSE btNode[at[n - 1]].right
  IN at

bt_find(v) == \E n \in DOMAIN Path(v) : Path(v)[n] = v

SearchEnds(v) == Path(v)[Cardinality(BtValues)] \in {nil, v}

Leftmost(from) ==
  LET at[n \in 0 .. Cardinality(BtValues)] ==
        IF n = 0 THEN from
        ELSE IF btNode[at[n - 1]].left = nil THEN at[n - 1] ELSE btNode[at[n - 1]].left
  IN at[Cardinality(BtValues)]

DescentEnds(from) == btNode[Leftmost(from)].left = nil

Mut_AddForgetsDirection(v) ==
  LET on == {n \in DOMAIN Path(v) : Path(v)[n] # nil}
      father == IF on = {} THEN nil ELSE Path(v)[Cardinality(on) - 1]
      side == IF v < father THEN "left" ELSE "right"
  IN /\ ~bt_find(v) /\ SearchEnds(v)
     /\ btRoot' = IF father = nil THEN v ELSE btRoot
     /\ btNode' = [w \in BtValues |->
          CASE w = v -> [NoNode EXCEPT !.father = father]
            [] w = father -> [btNode[w] EXCEPT ![side] = v]
            [] OTHER -> btNode[w]]
     /\ btCount' = btCount + 1
     /\ btAdded' = btAdded \cup {v}
     /\ UNCHANGED <<btCurrent, btRemovals, btLost>>

(* A value that is found, one that was removed included, is refused.       *)
bt_add(v) ==
  LET on == {n \in DOMAIN Path(v) : Path(v)[n] # nil}
      father == IF on = {} THEN nil ELSE Path(v)[Cardinality(on) - 1]
      side == IF v < father THEN "left" ELSE "right"
  IN /\ ~bt_find(v) /\ SearchEnds(v)
     /\ btRoot' = IF father = nil THEN v ELSE btRoot
     /\ btNode' = [w \in BtValues |->
          CASE w = v -> [NoNode EXCEPT !.father = father,
                                       !.direction = IF father = nil THEN "none" ELSE side]
            [] w = father -> [btNode[w] EXCEPT ![side] = v]
            [] OTHER -> btNode[w]]
     /\ btCount' = btCount + 1
     /\ btAdded' = btAdded \cup {v}
     /\ UNCHANGED <<btCurrent, btRemovals, btLost>>

(* A value that is not found is refused.                                   *)
bt_remove(v) ==
  LET d == btNode[v]
  IN /\ bt_find(v) /\ btRemovals < BtMaxRemovals
     /\ d.right # nil => DescentEnds(d.right)
     /\ btNode' = IF d.right = nil THEN [btNode EXCEPT ![v].father = d.left]
                  ELSE [btNode EXCEPT ![Leftmost(d.right)].left = d.left]
     /\ btCount' = btCount - 1
     /\ btRemovals' = btRemovals + 1
     /\ UNCHANGED <<btRoot, btCurrent, btAdded, btLost>>

bt_GoFirst ==
  /\ btRoot # nil => DescentEnds(btRoot)
  /\ btCurrent' = IF btRoot = nil THEN nil ELSE Leftmost(btRoot)
  /\ UNCHANGED <<btRoot, btNode, btCount, btAdded, btRemovals, btLost>>

(* Up from a node, to the first father that is reached from the left.      *)
Climb_(v) ==
  LET at[n \in 0 .. Cardinality(BtValues)] ==
        IF n = 0 THEN [node |-> btNode[v].father, dir |-> btNode[v].direction]
        ELSE IF at[n - 1].node = nil \/ at[n - 1].dir = "left" THEN at[n - 1]
        ELSE [node |-> btNode[at[n - 1].node].father, dir |-> btNode[at[n - 1].node].direction]
  IN at[Cardinality(BtValues)]

(* Where bt_GoNext goes from a node: down to the right, or up.             *)
Following_(v) ==
  IF btNode[v].right # nil THEN Leftmost(btNode[v].right) ELSE Climb_(v).node

FollowingEnds(v) ==
  IF btNode[v].right # nil THEN DescentEnds(btNode[v].right)
  ELSE Climb_(v).node = nil \/ Climb_(v).dir = "left"

bt_GoNext ==
  /\ btCurrent # nil /\ FollowingEnds(btCurrent)
  /\ btCurrent' = Following_(btCurrent)
  /\ UNCHANGED <<btRoot, btNode, btCount, btAdded, btRemovals, btLost>>

(* A call that goes round in a circle: of bt_find or bt_add, bt_remove,    *)
(* bt_GoFirst or bt_GoNext.                                                *)
NeverReturns ==
  /\ \/ \E v \in BtValues : ~SearchEnds(v)
     \/ \E v \in BtValues : bt_find(v) /\ btNode[v].right # nil /\ ~DescentEnds(btNode[v].right)
     \/ btRoot # nil /\ ~DescentEnds(btRoot)
     \/ btCurrent # nil /\ ~FollowingEnds(btCurrent)
  /\ btLost' = TRUE
  /\ UNCHANGED <<btRoot, btNode, btCount, btCurrent, btAdded, btRemovals>>

BtNext ==
  /\ ~btLost
  /\ \/ \E v \in BtValues : bt_add(v) \/ bt_remove(v)
     \/ bt_GoFirst \/ bt_GoNext \/ NeverReturns

---------------------------------------------------------------------------
(* The least value above v, nil for none.                                  *)
Successor(v) ==
  IF \E w \in btAdded : w > v
  THEN CHOOSE w \in btAdded : w > v /\ \A x \in btAdded : x > v => w <= x
  ELSE nil

(* What is found is what was ever added, whatever links removals change;   *)
(* the count is that of additions less removals; and as long as nothing    *)
(* was removed bt_GoFirst and bt_GoNext visit the values in their order,   *)
(* by the fathers and directions bt_add leaves in the nodes, and every     *)
(* call returns.                                                           *)
BtSound ==
  /\ \A v \in BtValues : bt_find(v) <=> v \in btAdded
  /\ btCount = Cardinality(btAdded) - btRemovals
  /\ btRemovals = 0 =>
       /\ \A v \in btAdded : Following_(v) = Successor(v)
       /\ btRoot # nil => Leftmost(btRoot) = Successor(nil)
       /\ ~btLost

(* bt.h: bt_remove returns TRUE if the value was deleted.  It is found     *)
(* after that as before.                                                   *)
RemovedIsGone == Cardinality({v \in BtValues : bt_find(v)}) = Cardinality(btAdded) - btRemovals
=============================================================================
