---------------------------- MODULE StateMachine ----------------------------
(***************************************************************************)
(* The state machines of stateMachine.c: a definition with its classes and *)
(* states, and machines that run over it, each in a thread or in a state   *)
(* function of another.  stateMachine_run calls, for each state, the entry *)
(* functions of its class and of itself and then the exit functions of     *)
(* itself and of its class; the functions choose the next state and may    *)
(* ask for an immediate exit, as may another thread.  A function that is   *)
(* NULL is one that does nothing.                                          *)
(***************************************************************************)
EXTENDS Integers, FiniteSets

CONSTANTS StateMachines, MachineStates, StateClasses

VARIABLES
  smDef,      \* machineCount, the bags of classes and states, destroyed
  smClass,    \* stateCount of each class
  smState,    \* the class of each state, noClass for none
  smMachine   \* the fields of each machine, and the function it is in

smVars == <<smDef, smClass, smState, smMachine>>

noState == "noState"
noClass == "noClass"

(* No class and no state are NULL, which is neither.                       *)
ASSUME SmAssumption == noClass \notin StateClasses /\ noState \notin MachineStates

NoMachine == [live |-> FALSE, currentState |-> noState, nextState |-> noState,
              immediateExit |-> FALSE, nuanceSemantics |-> FALSE, own |-> FALSE,
              in |-> "none"]

stateMachine_defCreate ==
  /\ smDef = [machineCount |-> 0, classes |-> {}, states |-> {}, destroyed |-> FALSE]
  /\ smClass = [c \in StateClasses |-> 0]
  /\ smState = [s \in MachineStates |-> noClass]
  /\ smMachine = [m \in StateMachines |-> NoMachine]

Running(m) == smMachine[m].in # "none"

---------------------------------------------------------------------------
(* The definition                                                          *)

stateMachine_createClass(c) ==
  /\ ~smDef.destroyed /\ c \notin smDef.classes
  /\ smDef' = [smDef EXCEPT !.classes = @ \cup {c}]
  /\ smClass' = [smClass EXCEPT ![c] = 0]
  /\ UNCHANGED <<smState, smMachine>>

(* A class that still has states is kept, and an error returned.           *)
stateMachine_destroyClass(c) ==
  /\ ~smDef.destroyed /\ c \in smDef.classes
  /\ smClass[c] = 0
  /\ smDef' = [smDef EXCEPT !.classes = @ \ {c}]
  /\ UNCHANGED <<smClass, smState, smMachine>>

stateMachine_createState(s, c) ==
  /\ ~smDef.destroyed /\ s \notin smDef.states
  /\ c \in smDef.classes \cup {noClass}
  /\ smDef' = [smDef EXCEPT !.states = @ \cup {s}]
  /\ smState' = [smState EXCEPT ![s] = c]
  /\ smClass' = IF c = noClass THEN smClass ELSE [smClass EXCEPT ![c] = @ + 1]
  /\ UNCHANGED smMachine

Mut_DestroyKeepsCount(s) ==
  /\ ~smDef.destroyed /\ s \in smDef.states
  /\ \A m \in StateMachines :
       smMachine[m].live => s \notin {smMachine[m].currentState, smMachine[m].nextState}
  /\ smDef' = [smDef EXCEPT !.states = @ \ {s}]
  /\ smState' = [smState EXCEPT ![s] = noClass]
  /\ UNCHANGED <<smClass, smMachine>>

(* The caller's part: no machine is in the state or on its way to it.      *)
stateMachine_destroyState(s) ==
  /\ ~smDef.destroyed /\ s \in smDef.states
  /\ \A m \in StateMachines :
       smMachine[m].live => s \notin {smMachine[m].currentState, smMachine[m].nextState}
  /\ smDef' = [smDef EXCEPT !.states = @ \ {s}]
  /\ smState' = [smState EXCEPT ![s] = noClass]
  /\ smClass' = IF smState[s] = noClass THEN smClass
                ELSE [smClass EXCEPT ![smState[s]] = @ - 1]
  /\ UNCHANGED smMachine

(* Refused while there are machines.  All states go, which takes the count *)
(* of every class down; a class whose count is not zero then stops the     *)
(* destruction with an error.                                              *)
stateMachine_defDestroy ==
  LET left == [c \in StateClasses |->
                 smClass[c] - Cardinality({s \in smDef.states : smState[s] = c})]
      kept == {c \in smDef.classes : left[c] # 0}
  IN /\ ~smDef.destroyed /\ smDef.machineCount = 0
     /\ smDef' = [smDef EXCEPT !.states = {}, !.classes = kept, !.destroyed = kept = {}]
     /\ smClass' = left
     /\ smState' = [s \in MachineStates |-> noClass]
     /\ UNCHANGED smMachine

---------------------------------------------------------------------------
(* The machines                                                            *)

stateMachine_create(m, nuance) ==
  /\ ~smDef.destroyed /\ ~smMachine[m].live
  /\ smMachine' = [smMachine EXCEPT ![m] =
       [NoMachine EXCEPT !.live = TRUE, !.nuanceSemantics = nuance]]
  /\ smDef' = [smDef EXCEPT !.machineCount = @ + 1]
  /\ UNCHANGED <<smClass, smState>>

stateMachine_destroy(m) ==
  /\ smMachine[m].live /\ ~Running(m)
  /\ smMachine' = [smMachine EXCEPT ![m] = NoMachine]
  /\ smDef' = [smDef EXCEPT !.machineCount = @ - 1]
  /\ UNCHANGED <<smClass, smState>>

(* What was set before the run is forgotten.                               *)
stateMachine_run(m, s) ==
  /\ smMachine[m].live /\ ~Running(m) /\ s \in smDef.states
  /\ smMachine' = [smMachine EXCEPT
       ![m].currentState = s, ![m].nextState = noState, ![m].immediateExit = FALSE,
       ![m].in = "classEntry"]
  /\ UNCHANGED <<smDef, smClass, smState>>

stateMachine_createAndRun(m, s, nuance) ==
  /\ ~smDef.destroyed /\ ~smMachine[m].live /\ s \in smDef.states
  /\ smMachine' = [smMachine EXCEPT ![m] =
       [NoMachine EXCEPT !.live = TRUE, !.nuanceSemantics = nuance, !.own = TRUE,
                         !.currentState = s, !.in = "classEntry"]]
  /\ smDef' = [smDef EXCEPT !.machineCount = @ + 1]
  /\ UNCHANGED <<smClass, smState>>

(* Called by a function of the machine; an error when the next state is    *)
(* set and the machine has Nuance semantics.                               *)
stateMachine_setNextState(m, s) ==
  /\ Running(m) /\ s \in smDef.states
  /\ ~(smMachine[m].nuanceSemantics /\ smMachine[m].nextState # noState)
  /\ smMachine' = [smMachine EXCEPT ![m].nextState = s]
  /\ UNCHANGED <<smDef, smClass, smState>>

stateMachine_setImmediateExit(m) ==
  /\ smMachine[m].live
  /\ smMachine' = [smMachine EXCEPT ![m].immediateExit = TRUE]
  /\ UNCHANGED <<smDef, smClass, smState>>

(* The run ends; the machine of createAndRun goes with it.                 *)
RunEnds(m, machine) ==
  /\ smMachine' = [smMachine EXCEPT ![m] =
       IF machine.own THEN NoMachine ELSE [machine EXCEPT !.in = "none"]]
  /\ smDef' = IF machine.own THEN [smDef EXCEPT !.machineCount = @ - 1] ELSE smDef

After == [classEntry |-> "stateEntry", stateEntry |-> "stateExit", stateExit |-> "classExit"]

Mut_ExitNotImmediate(m) ==
  /\ Running(m) /\ smMachine[m].in # "classExit"
  /\ IF smMachine[m].immediateExit /\ smMachine[m].in # "stateExit"
     THEN RunEnds(m, smMachine[m])
     ELSE smMachine' = [smMachine EXCEPT ![m].in = After[@]] /\ UNCHANGED smDef
  /\ UNCHANGED <<smClass, smState>>

(* An entry function or the exit function of the state returns.            *)
FunctionReturns(m) ==
  /\ Running(m) /\ smMachine[m].in # "classExit"
  /\ IF smMachine[m].immediateExit THEN RunEnds(m, smMachine[m])
     ELSE smMachine' = [smMachine EXCEPT ![m].in = After[@]] /\ UNCHANGED smDef
  /\ UNCHANGED <<smClass, smState>>

(* The exit function of the class returns: the next state is current, even *)
(* when the run ends here.                                                 *)
ClassExitReturns(m) ==
  LET machine == [smMachine[m] EXCEPT !.currentState = smMachine[m].nextState,
                                      !.nextState = noState]
  IN /\ smMachine[m].in = "classExit"
     /\ IF machine.immediateExit \/ machine.currentState = noState THEN RunEnds(m, machine)
        ELSE /\ smMachine' = [smMachine EXCEPT ![m] = [machine EXCEPT !.in = "classEntry"]]
             /\ UNCHANGED smDef
     /\ UNCHANGED <<smClass, smState>>

SmNext ==
  \/ \E c \in StateClasses : stateMachine_createClass(c) \/ stateMachine_destroyClass(c)
  \/ \E s \in MachineStates :
       \/ \E c \in StateClasses \cup {noClass} : stateMachine_createState(s, c)
       \/ stateMachine_destroyState(s)
  \/ stateMachine_defDestroy
  \/ \E m \in StateMachines :
       \/ \E nuance \in BOOLEAN :
            \/ stateMachine_create(m, nuance)
            \/ \E s \in MachineStates : stateMachine_createAndRun(m, s, nuance)
       \/ stateMachine_destroy(m)
       \/ \E s \in MachineStates : stateMachine_run(m, s) \/ stateMachine_setNextState(m, s)
       \/ stateMachine_setImmediateExit(m)
       \/ FunctionReturns(m) \/ ClassExitReturns(m)

---------------------------------------------------------------------------
(* The counters that guard destruction tell the truth after any sequence   *)
(* of calls: so a class goes only after its states, the definition only    *)
(* after its machines, the definition is never left half destroyed         *)
(* (stateMachine.c:96), and a live machine never refers to a freed state.  *)
SmCountsGuard ==
  /\ \A c \in smDef.classes : smClass[c] = Cardinality({s \in smDef.states : smState[s] = c})
  /\ \A s \in smDef.states : smState[s] \in smDef.classes \cup {noClass}
  /\ smDef.machineCount = Cardinality({m \in StateMachines : smMachine[m].live})
  /\ smDef.destroyed => smDef.states = {} /\ smDef.classes = {} /\ smDef.machineCount = 0
  /\ \A m \in StateMachines : smMachine[m].live =>
       {smMachine[m].currentState, smMachine[m].nextState} \subseteq smDef.states \cup {noState}

(* Once an immediate exit is asked for in a run, whoever asks and from     *)
(* whichever function, no further function of the machine is called: its   *)
(* run ends with the function it is in.                                    *)
ExitIsImmediate ==
  [][\A m \in StateMachines :
       Running(m) /\ smMachine[m].immediateExit =>
         smMachine'[m].in \in {smMachine[m].in, "none"}]_smVars

(* stateMachine.c keeps its counters and obeys an immediate exit.          *)
StateMachineSound == []SmCountsGuard /\ ExitIsImmediate
=============================================================================
