----------------------------- MODULE TextRPCMC -----------------------------
(* Model values for TLC: a caller on each side. *)
EXTENDS TextRPC

CONSTANTS c1, s1

ClientOnly == [t \in Caller |-> "client"]
BothSides  == [t \in Caller |-> IF t = s1 THEN "server" ELSE "client"]
SameVersion    == [s \in Side |-> 0]
ClientIsNewer  == [s \in Side |-> IF s = "client" THEN 2 ELSE 1]
ServerIsNewer  == [s \in Side |-> IF s = "client" THEN 1 ELSE 2]

=============================================================================
