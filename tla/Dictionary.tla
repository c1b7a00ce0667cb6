----------------------------- MODULE Dictionary -----------------------------
(***************************************************************************)
(* What a word map promises: pairs of a name and a number, in an index for *)
(* each of the two fields or for one of them.  An index has a pair for a   *)
(* key: a pair that is added comes into every index that has not its key,  *)
(* and with a pair that is deleted go those that have one of its keys,     *)
(* each from the index of that key.  With pairs of which no two share one  *)
(* key only, the indices are the same.                                     *)
(***************************************************************************)
CONSTANTS Name, Number

VARIABLE index   \* index[f]: the pairs that are found by field f

Pair == [name : Name, number : Number]

Indexed(s, f, e) == IF \E p \in s : p[f] = e[f] THEN s ELSE s \cup {e}

Without(s, f, e) == {p \in s : p[f] # e[f]}

AddPair == \E e \in Pair : index' = [f \in DOMAIN index |-> Indexed(index[f], f, e)]

DeletePair ==
  \E g \in DOMAIN index : \E e \in index[g] :
    index' = [f \in DOMAIN index |-> Without(index[f], f, e)]

(* One pair for every key that the pairs have.                             *)
IndexOf(s, f, pairs) ==
  /\ s \subseteq pairs
  /\ \A e \in pairs : \E p \in s : p[f] = e[f]
  /\ \A p, q \in s : p[f] = q[f] => p = q

(* Saving writes the pairs of the first index, and loading indexes them.   *)
First == IF "name" \in DOMAIN index THEN "name" ELSE "number"

Reload ==
  /\ DOMAIN index' = DOMAIN index /\ index'[First] = index[First]
  /\ \A f \in DOMAIN index : IndexOf(index'[f], f, index[First])

Dictionary ==
  /\ DOMAIN index \subseteq {"name", "number"} /\ \A f \in DOMAIN index : index[f] = {}
  /\ [][Reload \/ AddPair \/ DeletePair]_index
=============================================================================
