------------------------------ MODULE Monitor ------------------------------
(***************************************************************************)
(* What threading.h promises of a VoxiMutex together with one condition    *)
(* variable: a lock that its holder may take again, that is handed over    *)
(* only when it has been unlocked as often as it was locked, and that a    *)
(* waiting thread gives up entirely and gets back at the depth it had.     *)
(* Nothing of the semaphore and pthread mutex inside is visible here.      *)
(***************************************************************************)
EXTENDS Naturals

CONSTANTS Thread,      \* the threads that use the lock
          NoThread     \* "nobody"

VARIABLES holder,      \* the thread inside the lock, or NoThread
          depth,       \* how many times each thread has locked it
          waiting,     \* threads blocked on the condition variable
          ready        \* threads woken up, which need the lock again

vars == <<holder, depth, waiting, ready>>

Init ==
  /\ holder = NoThread
  /\ depth = [t \in Thread |-> 0]
  /\ waiting = {}
  /\ ready = {}

Acquire(t) ==
  /\ holder = NoThread
  /\ depth[t] = 0
  /\ holder' = t
  /\ depth' = [depth EXCEPT ![t] = 1]
  /\ UNCHANGED <<waiting, ready>>

Reenter(t) ==
  /\ holder = t
  /\ depth' = [depth EXCEPT ![t] = @ + 1]
  /\ UNCHANGED <<holder, waiting, ready>>

Release(t) ==
  /\ holder = t
  /\ depth' = [depth EXCEPT ![t] = @ - 1]
  /\ holder' = IF depth[t] = 1 THEN NoThread ELSE t
  /\ UNCHANGED <<waiting, ready>>

\* Giving up the lock and starting to wait is one step.
Wait(t) ==
  /\ holder = t
  /\ holder' = NoThread
  /\ waiting' = waiting \cup {t}
  /\ UNCHANGED <<depth, ready>>

\* A notification, a timeout or a spurious wakeup.
Wake(ts) ==
  /\ waiting' = waiting \ ts
  /\ ready' = ready \cup ts
  /\ UNCHANGED <<holder, depth>>

Resume(t) ==
  /\ t \in ready
  /\ holder = NoThread
  /\ holder' = t
  /\ ready' = ready \ {t}
  /\ UNCHANGED <<depth, waiting>>

Next ==
  \/ \E t \in Thread : Acquire(t) \/ Reenter(t) \/ Release(t) \/ Wait(t) \/ Resume(t)
  \/ \E ts \in SUBSET waiting : Wake(ts)

Spec == Init /\ [][Next]_vars

=============================================================================
