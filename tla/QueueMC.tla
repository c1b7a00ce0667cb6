------------------------------ MODULE QueueMC ------------------------------
(* The instance of Queue for TLC; its values are in the configurations. *)
EXTENDS Queue
=============================================================================
