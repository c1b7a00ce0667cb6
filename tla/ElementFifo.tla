---------------------------- MODULE ElementFifo ----------------------------
(***************************************************************************)
(* What queue.h promises: elements leave in the order in which they were   *)
(* put in, each of them once, and a queue can only be destroyed while it   *)
(* is empty.                                                               *)
(***************************************************************************)
EXTENDS Sequences

CONSTANT Element

VARIABLES elements,    \* in the queue, oldest first
          destroyed

vars == <<elements, destroyed>>

Init == elements = << >> /\ destroyed = FALSE

Put(x) == ~destroyed /\ elements' = Append(elements, x) /\ UNCHANGED destroyed

Take == ~destroyed /\ elements # << >> /\ elements' = Tail(elements) /\ UNCHANGED destroyed

Destroy == ~destroyed /\ elements = << >> /\ destroyed' = TRUE /\ UNCHANGED elements

Next == (\E x \in Element : Put(x)) \/ Take \/ Destroy

Spec == Init /\ [][Next]_vars

=============================================================================
