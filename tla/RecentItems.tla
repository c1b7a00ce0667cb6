---------------------------- MODULE RecentItems -----------------------------
(***************************************************************************)
(* What a circular buffer promises: the most recent items, at most Size of *)
(* them, oldest first; a push into a full buffer drops the oldest.         *)
(***************************************************************************)
EXTENDS Integers, Sequences

CONSTANTS Item, Size

VARIABLE items

Push ==
  \E x \in Item :
    items' = Append(IF Len(items) = Size THEN Tail(items) ELSE items, x)

PopOldest == items # << >> /\ items' = Tail(items)

Empty == items' = << >>

RecentItems == items = << >> /\ [][Push \/ PopOldest \/ Empty]_items
=============================================================================
