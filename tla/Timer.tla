------------------------------- MODULE Timer --------------------------------
(***************************************************************************)
(* The timer event manager of timer.c.  The events wait in a doubly linked *)
(* list ordered by time, under listLock.  The tick of the sound device     *)
(* takes the due events from the list, and calls their handlers with the   *)
(* lock held, or in a new thread of the event.  Clients add events, cancel *)
(* the ones they still may cancel, and sleep.                              *)
(*                                                                         *)
(* Where the behaviour of the program is undefined the model stops; such a *)
(* state satisfies TimerUndefined: an event thread writes the list without *)
(* the lock while somebody else is inside, or after the shutdown, or a     *)
(* cancelled event has been triggered while the client waited for listLock.*)
(*                                                                         *)
(* The time runs without bound: times are kept relative to timerTimeMillis *)
(* and move down with each tick.  A time further back than any interval is *)
(* kept at TimerLongPast, from where no interval leads into the future.    *)
(***************************************************************************)
EXTENDS Integers, Sequences, FiniteSets

CONSTANTS
  TimerEvent,        \* what malloc returns
  TimerClient,
  TimerSleepers,     \* bound: the clients that sleep; the others add and cancel
  callbackInterval,  \* time between two ticks
  TimerMaxInterval,  \* bound: the intervals asked for
  TimerDelays,       \* bound: the times asked for
  TimerKinds         \* bound: the kinds of event, <<lo, hi, newThread>>

ASSUME TimerAssumption ==
  /\ "noEvent" \notin TimerEvent \cup TimerClient
  /\ callbackInterval \in Nat \ {0}
  /\ TimerSleepers \subseteq TimerClient
  /\ TimerMaxInterval \in Nat /\ TimerDelays \subseteq -1 .. TimerMaxInterval

VARIABLES
  firstTE,
  timerEvents,     \* the fields of each event; where it is
  listLock,        \* its owner: a client, "tick", "shutdown" or "nobody"
  tickPc,          \* the tick: idle, at listLock, in the loop, in a handler
  clientPc,
  clientEvent,     \* the event a client's call works on
  timerHandle,     \* the event a client may cancel, noEvent for none
  timerDevice      \* the state of the manager

timerVars == <<firstTE, timerEvents, listLock, tickPc, clientPc, clientEvent,
               timerHandle, timerDevice>>

noEvent == "noEvent"
TimerLongPast == 0 - TimerMaxInterval

(* lo and hi are the interval of a repetitive event, the bounds of a random*)
(* one, 0 for one-shot; sleeper is the client of tem_sleep.                *)
Blank == [where |-> "free", atTimeMillis |-> 0, lo |-> 0, hi |-> 0, newThread |-> FALSE,
          sleeper |-> noEvent, nextTE |-> noEvent, prevTE |-> noEvent]

tem_startup ==
  /\ firstTE = noEvent
  /\ timerEvents = [e \in TimerEvent |-> Blank]
  /\ listLock = "nobody"
  /\ tickPc = "idle"
  /\ clientPc = [c \in TimerClient |-> "out"]
  /\ clientEvent = [c \in TimerClient |-> noEvent]
  /\ timerHandle = [c \in TimerClient |-> noEvent]
  /\ timerDevice = "running"

Inserting == {e \in TimerEvent : timerEvents[e].where = "insert"}

TimerUndefined ==
  \/ Inserting # {} /\ listLock # "nobody"
  \/ Cardinality(Inserting) > 1
  \/ Inserting # {} /\ timerDevice = "stopped"
  \/ \E c \in TimerClient : clientPc[c] = "unlink" /\ timerHandle[c] = noEvent

---------------------------------------------------------------------------
(* The list, as a value [first, ev].                                       *)

(* The events that insertAnEvent passes on its way to the place of time.   *)
Passed(l, time) ==
  {e \in TimerEvent : l.ev[e].where = "list" /\ l.ev[e].atTimeMillis < time}

Mut_InsertForgetsFirst(l, event) ==
  [first |-> l.first,
   ev |-> [l.ev EXCEPT ![event].where = "list", ![event].nextTE = l.first,
                       ![event].prevTE = noEvent]]

insertAnEvent(l, event) ==
  LET time == l.ev[event].atTimeMillis
      passed == Passed(l, time)
      before == IF passed = {} THEN noEvent
                ELSE CHOOSE e \in passed : l.ev[e].nextTE \notin passed
      after == IF before = noEvent THEN l.first ELSE l.ev[before].nextTE
  IN [first |-> IF before = noEvent THEN event ELSE l.first,
      ev |-> [e \in TimerEvent |->
        CASE e = event -> [l.ev[e] EXCEPT !.where = "list", !.nextTE = after,
                                          !.prevTE = before]
          [] e = before -> [l.ev[e] EXCEPT !.nextTE = event]
          [] e = after -> [l.ev[e] EXCEPT !.prevTE = event]
          [] OTHER -> l.ev[e]]]

Mut_TakenKeepsPrev(l) ==
  LET event == l.first
      next == l.ev[event].nextTE
      where == IF l.ev[event].newThread THEN "thread" ELSE "tick"
  IN [first |-> next, ev |-> [l.ev EXCEPT ![event].where = where]]

(* The tick takes the first event from the list.  The pointers of an event *)
(* outside the list are not read before insertAnEvent sets them.           *)
TakeFirst(l) ==
  LET event == l.first
      next == l.ev[event].nextTE
      where == IF l.ev[event].newThread THEN "thread" ELSE "tick"
  IN [first |-> next,
      ev |-> [e \in TimerEvent |->
        CASE e = event -> [l.ev[e] EXCEPT !.where = where, !.nextTE = noEvent,
                                          !.prevTE = noEvent]
          [] e = next -> [l.ev[e] EXCEPT !.prevTE = noEvent]
          [] OTHER -> l.ev[e]]]

(* tem_cancel between the lock and the unlock.                             *)
Unlinked(l, event) ==
  LET next == l.ev[event].nextTE
      prev == l.ev[event].prevTE
  IN [first |-> IF prev = noEvent THEN next ELSE l.first,
      ev |-> [e \in TimerEvent |->
        CASE e = event -> Blank
          [] e = prev -> [l.ev[e] EXCEPT !.nextTE = next]
          [] e = next -> [l.ev[e] EXCEPT !.prevTE = prev]
          [] OTHER -> l.ev[e]]]

TheList == [first |-> firstTE, ev |-> timerEvents]
ListBecomes(l) == firstTE' = l.first /\ timerEvents' = l.ev

---------------------------------------------------------------------------
(* The tick                                                                *)

Earlier(time) ==
  IF time - callbackInterval < TimerLongPast THEN TimerLongPast ELSE time - callbackInterval

(* The time moves before listLock is asked for.                            *)
timerCallbackFunction ==
  /\ tickPc = "idle" /\ timerDevice = "running"
  /\ timerEvents' = [e \in TimerEvent |->
       IF timerEvents[e].where = "free" THEN timerEvents[e]
       ELSE [timerEvents[e] EXCEPT !.atTimeMillis = Earlier(@)]]
  /\ tickPc' = "lock"
  /\ UNCHANGED <<firstTE, listLock, clientPc, clientEvent, timerHandle,
                 timerDevice>>

TickLock ==
  /\ tickPc = "lock" /\ listLock = "nobody"
  /\ tickPc' = "loop" /\ listLock' = "tick"
  /\ UNCHANGED <<firstTE, timerEvents, clientPc, clientEvent,
                 timerHandle, timerDevice>>

Due == firstTE # noEvent /\ timerEvents[firstTE].atTimeMillis <= 0

(* A due event leaves the list; its handle is no longer valid.             *)
TickTake ==
  /\ tickPc = "loop" /\ Due
  /\ ListBecomes(TakeFirst(TheList))
  /\ tickPc' = IF timerEvents[firstTE].newThread THEN "loop" ELSE "handler"
  /\ timerHandle' = [c \in TimerClient |->
                       IF timerHandle[c] = firstTE THEN noEvent ELSE timerHandle[c]]
  /\ UNCHANGED <<listLock, clientPc, clientEvent, timerDevice>>

TickUnlock ==
  /\ tickPc = "loop" /\ ~Due
  /\ tickPc' = "idle" /\ listLock' = "nobody"
  /\ UNCHANGED <<firstTE, timerEvents, clientPc, clientEvent,
                 timerHandle, timerDevice>>

(* What a handler may return: the time doOneEvent suggests, TIMER_STOP or  *)
(* a time of its own; sleep_wakeHandler returns the suggestion.  TIMER_STOP*)
(* is one of the times that are not in the future.                         *)
timerStop == 0

NextTimes(event) ==
  LET v == timerEvents[event]
  IN CASE v.lo = 0 -> {timerStop}
       [] v.lo = v.hi /\ v.lo # 0 -> {v.atTimeMillis + v.lo}
       [] OTHER -> {v.atTimeMillis + i : i \in v.lo .. v.hi - 1}

HandlerResults(event) ==
  IF timerEvents[event].sleeper # noEvent THEN NextTimes(event)
  ELSE NextTimes(event) \cup {timerStop, TimerMaxInterval}

Again(time) == time > 0

(* The handler of a sleeper posts its semaphore.                           *)
Woken(event) ==
  [c \in TimerClient |-> IF timerEvents[event].sleeper = c THEN "awake" ELSE clientPc[c]]

(* doOneEvent in the tick, with listLock held: the event is inserted again *)
(* at the time the handler returned, or freed.                             *)
doOneEvent(event, time) ==
  /\ tickPc = "handler" /\ timerEvents[event].where = "tick"
  /\ clientPc' = Woken(event)
  /\ IF Again(time)
     THEN ListBecomes(insertAnEvent([first |-> firstTE,
            ev |-> [timerEvents EXCEPT ![event].atTimeMillis = time]], event))
     ELSE timerEvents' = [timerEvents EXCEPT ![event] = Blank] /\ UNCHANGED firstTE
  /\ tickPc' = "loop"
  /\ UNCHANGED <<listLock, clientEvent, timerHandle, timerDevice>>

(* The same in a thread of the event; an event that happens again comes to *)
(* insertAnEvent without the lock.                                         *)
eventThreadFunc(event, time) ==
  /\ timerEvents[event].where = "thread"
  /\ timerEvents' = [timerEvents EXCEPT ![event] =
       IF Again(time) THEN [@ EXCEPT !.atTimeMillis = time, !.where = "insert"] ELSE Blank]
  /\ UNCHANGED <<firstTE, listLock, tickPc, clientPc, clientEvent,
                 timerHandle, timerDevice>>

EventThreadInserts(event) ==
  /\ timerEvents[event].where = "insert"
  /\ ListBecomes(insertAnEvent(TheList, event))
  /\ UNCHANGED <<listLock, tickPc, clientPc, clientEvent, timerHandle,
                 timerDevice>>

---------------------------------------------------------------------------
(* The clients.  A call makes its event, with a time reckoned from the     *)
(* time it reads then, and asks for the lock after that.                   *)

Make(c, at, lo, hi, newThread, sleeper) ==
  /\ clientPc[c] = "out" /\ timerDevice = "running"
  /\ <<lo, hi, newThread>> \in TimerKinds
  /\ \E e \in TimerEvent :
       /\ timerEvents[e].where = "free"
       /\ e = CHOOSE f \in TimerEvent : timerEvents[f].where = "free"
       /\ timerEvents' = [timerEvents EXCEPT ![e] =
            [Blank EXCEPT !.where = "new", !.atTimeMillis = at, !.lo = lo, !.hi = hi,
                          !.newThread = newThread,
                          !.sleeper = IF sleeper THEN c ELSE noEvent]]
       /\ clientEvent' = [clientEvent EXCEPT ![c] = e]
  /\ clientPc' = [clientPc EXCEPT ![c] = "addLock"]
  /\ UNCHANGED <<firstTE, listLock, tickPc, timerHandle, timerDevice>>

tem_addOneShotAbsolute(c, at, newThread) == Make(c, at, 0, 0, newThread, FALSE)

tem_addOneShotRelative(c, time, newThread) ==
  tem_addOneShotAbsolute(c, time, newThread)

AtLeastResolution(i) == IF i < callbackInterval THEN callbackInterval ELSE i

tem_addRepetitive(c, interval, newThread) ==
  LET i == AtLeastResolution(interval)
  IN Make(c, i, i, i, newThread, FALSE)

(* min = max divides by zero in calcRandomInterval.                        *)
tem_addRandom(c, min, max, newThread) ==
  LET lo == AtLeastResolution(min)
      hi == AtLeastResolution(max)
  IN /\ lo < hi
     /\ \E i \in lo .. hi - 1 : Make(c, i, lo, hi, newThread, FALSE)

tem_sleep(c, ms) == Make(c, ms, 0, 0, FALSE, TRUE)

tem_cancel(c) ==
  /\ clientPc[c] = "out" /\ timerDevice = "running" /\ timerHandle[c] # noEvent
  /\ clientPc' = [clientPc EXCEPT ![c] = "cancelLock"]
  /\ clientEvent' = [clientEvent EXCEPT ![c] = timerHandle[c]]
  /\ UNCHANGED <<firstTE, timerEvents, listLock, tickPc, timerHandle,
                 timerDevice>>

ClientLock(c) ==
  /\ clientPc[c] \in {"addLock", "cancelLock"} /\ listLock = "nobody"
  /\ listLock' = c
  /\ clientPc' = [clientPc EXCEPT ![c] = IF @ = "addLock" THEN "link" ELSE "unlink"]
  /\ UNCHANGED <<firstTE, timerEvents, tickPc, clientEvent, timerHandle,
                 timerDevice>>

(* Only the two functions for one-shot events return the event.            *)
ClientInserts(c) ==
  LET event == clientEvent[c]
  IN /\ clientPc[c] = "link"
     /\ ListBecomes(insertAnEvent(TheList, event))
     /\ listLock' = "nobody"
     /\ LET sleeps == timerEvents[event].sleeper = c
            cancellable == timerEvents[event].lo = 0 /\ ~sleeps
        IN /\ clientPc' = [clientPc EXCEPT ![c] = IF sleeps THEN "asleep" ELSE "out"]
           /\ timerHandle' = [timerHandle EXCEPT ![c] = IF cancellable THEN event ELSE @]
     /\ clientEvent' = [clientEvent EXCEPT ![c] = noEvent]
     /\ UNCHANGED <<tickPc, timerDevice>>

ClientUnlinks(c) ==
  /\ clientPc[c] = "unlink"
  /\ ListBecomes(Unlinked(TheList, clientEvent[c]))
  /\ listLock' = "nobody"
  /\ clientPc' = [clientPc EXCEPT ![c] = "out"]
  /\ timerHandle' = [timerHandle EXCEPT ![c] = noEvent]
  /\ clientEvent' = [clientEvent EXCEPT ![c] = noEvent]
  /\ UNCHANGED <<tickPc, timerDevice>>

SleepReturns(c) ==
  /\ clientPc[c] = "awake"
  /\ clientPc' = [clientPc EXCEPT ![c] = "out"]
  /\ UNCHANGED <<firstTE, timerEvents, listLock, tickPc, clientEvent,
                 timerHandle, timerDevice>>

---------------------------------------------------------------------------
(* tem_shutdown, called when no client is inside an add or a cancel.  The  *)
(* device calls no more; a tick that runs keeps the lock to its end.       *)
tem_shutdown ==
  /\ timerDevice = "running"
  /\ \A c \in TimerClient : clientPc[c] \in {"out", "asleep", "awake"}
  /\ timerDevice' = "stopping"
  /\ UNCHANGED <<firstTE, timerEvents, listLock, tickPc, clientPc,
                 clientEvent, timerHandle>>

(* The events of the list are freed; firstTE keeps its value.              *)
ShutdownFrees ==
  /\ timerDevice = "stopping" /\ listLock = "nobody" /\ tickPc = "idle"
  /\ timerDevice' = "stopped"
  /\ timerEvents' = [e \in TimerEvent |->
                       IF timerEvents[e].where = "list" THEN Blank ELSE timerEvents[e]]
  /\ timerHandle' = [c \in TimerClient |-> noEvent]
  /\ UNCHANGED <<firstTE, listLock, tickPc, clientPc, clientEvent>>

TimerHandlers ==
  \E e \in TimerEvent : \E time \in HandlerResults(e) : doOneEvent(e, time)

TimerAdd(c) ==
  \E newThread \in BOOLEAN :
    \/ \E t \in TimerDelays : \/ tem_addOneShotAbsolute(c, t, newThread)
                              \/ tem_addOneShotRelative(c, t, newThread)
    \/ \E i \in 0 .. TimerMaxInterval :
         \/ tem_addRepetitive(c, i, newThread)
         \/ \E max \in 0 .. TimerMaxInterval : tem_addRandom(c, i, max, newThread)

TimerNext ==
  /\ ~TimerUndefined
  /\ \/ timerCallbackFunction \/ TickLock \/ TickTake \/ TickUnlock
     \/ TimerHandlers
     \/ \E e \in TimerEvent :
          \/ \E time \in HandlerResults(e) : eventThreadFunc(e, time)
          \/ EventThreadInserts(e)
     \/ \E c \in TimerClient \ TimerSleepers : TimerAdd(c) \/ tem_cancel(c)
     \/ \E c \in TimerSleepers, ms \in TimerDelays : tem_sleep(c, ms)
     \/ \E c \in TimerClient :
          \/ ClientLock(c) \/ ClientInserts(c) \/ ClientUnlinks(c)
          \/ SleepReturns(c)
     \/ tem_shutdown \/ ShutdownFrees

TimerSpec == tem_startup /\ [][TimerNext]_timerVars

(* The thread that holds listLock goes on, handlers return, the sound      *)
(* device calls back, and a tick that finds listLock free again and again  *)
(* gets it.                                                                *)
TimerFairness ==
  /\ SF_timerVars(~TimerUndefined /\ (timerCallbackFunction \/ TickLock))
  /\ WF_timerVars(~TimerUndefined /\
       (\/ TickTake \/ TickUnlock \/ TimerHandlers
        \/ \E c \in TimerClient : ClientInserts(c) \/ ClientUnlinks(c)))

---------------------------------------------------------------------------
Listed == {e \in TimerEvent : timerEvents[e].where = "list"}

(* While the manager runs, the pointers of timer.c are those of one list,  *)
(* from firstTE through nextTE and back through prevTE, with exactly the   *)
(* events in it that wait, in the order of their times: none was lost, and *)
(* none that runs, or was freed, is reached, whatever the tick, the        *)
(* handlers that ask to be called again and cancellations did to it.  At   *)
(* most one event runs in the tick, and a valid handle is of an event that *)
(* waits (so that tem_cancel unlinks what is linked).                      *)
TimerListSound ==
  timerDevice # "stopped" =>
    /\ Listed = {} <=> firstTE = noEvent
    /\ firstTE # noEvent => firstTE \in Listed /\ timerEvents[firstTE].prevTE = noEvent
    /\ \A e \in Listed :
         LET next == timerEvents[e].nextTE
             prev == timerEvents[e].prevTE
         IN /\ next # noEvent =>
                 /\ next \in Listed /\ timerEvents[next].prevTE = e
                 /\ timerEvents[e].atTimeMillis <= timerEvents[next].atTimeMillis
            /\ prev = noEvent <=> e = firstTE
            /\ prev # noEvent => prev \in Listed /\ timerEvents[prev].nextTE = e
    /\ Cardinality({e \in TimerEvent : timerEvents[e].where = "tick"}) =
         IF tickPc = "handler" THEN 1 ELSE 0
    /\ \A c \in TimerClient : timerHandle[c] # noEvent => timerHandle[c] \in Listed

(* A thread that called tem_sleep wakes up, whatever others add, cancel    *)
(* and sleep, unless the manager is shut down (which frees the event of a  *)
(* sleeper, timer.c:171-178, and leaves it asleep).                        *)
SleepersWake ==
  \A c \in TimerSleepers :
    clientPc[c] = "asleep" ~>
      clientPc[c] = "awake" \/ timerDevice # "running" \/ TimerUndefined

(* insertAnEvent "assumes that the list has been locked" (timer.c:623).    *)
InsertIsLocked == Inserting = {}
=============================================================================
