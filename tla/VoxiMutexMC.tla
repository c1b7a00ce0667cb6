---------------------------- MODULE VoxiMutexMC ----------------------------
(* Instances of VoxiMutex for TLC; threads and strings are interchangeable. *)
EXTENDS VoxiMutex, TLC

Symmetry == Permutations(Thread)
=============================================================================
