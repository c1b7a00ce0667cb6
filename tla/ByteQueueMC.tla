---------------------------- MODULE ByteQueueMC ----------------------------
(* Instances of ByteQueue for TLC. *)
EXTENDS ByteQueue
=============================================================================
