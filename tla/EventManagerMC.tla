--------------------------- MODULE EventManagerMC ---------------------------
(* Instances of EventManager for TLC; clients and event memory are interchangeable. *)
EXTENDS EventManager, TLC

Symmetry == Permutations(Client) \cup Permutations(Event)
=============================================================================
