------------------------------- MODULE IdMap --------------------------------
(***************************************************************************)
(* What an ID table promises: elements under ids that stay theirs until    *)
(* they are removed.                                                       *)
(***************************************************************************)
CONSTANTS Item, Id

VARIABLE ids     \* a function from the ids in use to the elements

AddId ==
  \E i \in Id, x \in Item :
    /\ i \notin DOMAIN ids
    /\ ids' = [j \in DOMAIN ids \cup {i} |-> IF j = i THEN x ELSE ids[j]]

RemoveId == \E i \in DOMAIN ids : ids' = [j \in DOMAIN ids \ {i} |-> ids[j]]

IdMap == ids = << >> /\ [][AddId \/ RemoveId]_ids
=============================================================================
