------------------------------ MODULE TimerMC -------------------------------
(* Timer with a client that adds and cancels and one that sleeps.          *)
EXTENDS Timer

MCDelays == {1}

(* One-shot events and random ones in the tick, repetitive ones in a thread*)
(* of their own.                                                           *)
MCKinds == {<<0, 0, FALSE>>, <<1, 1, TRUE>>, <<1, 2, FALSE>>}

Spec == TimerSpec /\ TimerFairness
=============================================================================
