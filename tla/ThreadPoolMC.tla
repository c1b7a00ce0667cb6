---------------------------- MODULE ThreadPoolMC ----------------------------
(* Instances of ThreadPool for TLC; threads are interchangeable. *)
EXTENDS ThreadPool, TLC

Symmetry == Permutations(Worker) \cup Permutations(Caller)
=============================================================================
