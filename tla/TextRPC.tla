------------------------------ MODULE TextRPC ------------------------------
(***************************************************************************)
(* One connection of textRPC.c: negotiation of the protocol, calls in both *)
(* directions, also by functions that are being called, and the loss of    *)
(* the connection.  A side has one thread that reads the socket and calls  *)
(* connection_sock_handler; calls that come in are dispatched in threads   *)
(* of a ThreadPool, which makes a new one when all are in use (module      *)
(* ThreadPool), called here by the side and the id of the call.            *)
(*                                                                         *)
(* Ids of calls in progress differ by less than the size of the hash table *)
(* outstandingCalls, so its operations touch different buckets.  The text  *)
(* of a call is the thread that makes it, and the result answers a text.   *)
(***************************************************************************)
EXTENDS Integers, Sequences, FiniteSets, SequencesExt

CONSTANTS Caller,      \* application threads that make calls
          Home,          \* the side each of them is on
          Latest,        \* LATEST_PROTOCOL_VERSION of the program on each side
          MaxCalls,      \* bound: calls that a side makes
          Callbacks,     \* may a called function make a call?
          MayBreak,      \* may the connection be lost?
          SpuriousWakeups

Side == {"client", "server"}

ASSUME TextRPCAssumption ==
  /\ Caller \cap (Side \X Nat) = {}         \* none is a thread of the pool
  /\ Home \in [Caller -> Side]
  /\ Latest \in [Side -> Nat]
  /\ MaxCalls \in Nat
  /\ {Callbacks, MayBreak, SpuriousWakeups} \subseteq BOOLEAN

Other(s) == IF s = "client" THEN "server" ELSE "client"

Worker == Side \X (0..MaxCalls)      \* the caller's side and callId
Thread == Caller \cup Worker
On(t)  == IF t \in Caller THEN Home[t] ELSE Other(t[1])
NoCall == -1
NoText == <<>>

VARIABLES protocolState, protocolVersion, nextCallId,
          outstandingCalls,     \* ids in the hash table
          result,               \* their error and result
          chan,                 \* messages on their way to a side
          broken,               \* has the connection been lost?
          reader, current,      \* the reading thread, and the call it handles the return of
          create,               \* textRPC_client_create
          negotiator,           \* the thread of negotiate_protocol
          opened, closed,       \* callConnectionOpened, callConnectionClosed
          pc, callId,           \* per thread, textRPC_call or call_threadFunc
          input,                \* per worker, the text of the call
          crashed

connection == <<protocolState, protocolVersion>>
table      == <<nextCallId, outstandingCalls, result>>
readers    == <<reader, current>>
setup      == <<create, negotiator, opened, closed>>
threads    == <<pc, callId, input>>
vars       == <<protocolState, protocolVersion, nextCallId, outstandingCalls, result, chan, broken,
                reader, current, create, negotiator, opened, closed, pc, callId, input, crashed>>

Unanswered == [type |-> "none", text |-> NoText]

Init ==
  /\ protocolState = [s \in Side |-> "initializing"]
  /\ protocolVersion = [s \in Side |-> -1]
  /\ nextCallId = [s \in Side |-> 0]
  /\ outstandingCalls = [s \in Side |-> {}]
  /\ result = [k \in Worker |-> Unanswered]
  /\ chan = [s \in Side |-> <<>>]
  /\ broken = FALSE
  /\ reader = [s \in Side |-> "none"] /\ current = [s \in Side |-> NoCall]
  /\ create = "start" /\ negotiator = "none"
  /\ opened = [s \in Side |-> "no"] /\ closed = [s \in Side |-> "no"]
  /\ pc = [t \in Thread |-> IF t \in Caller THEN "idle" ELSE "none"]
  /\ callId = [t \in Thread |-> NoCall]
  /\ input = [k \in Worker |-> NoText]
  /\ crashed = [s \in Side |-> "no"]

\* The process on side s ends, and its socket is closed.
Crash(s, how) ==
  /\ crashed' = [crashed EXCEPT ![s] = how]
  /\ broken' = TRUE
  /\ UNCHANGED <<connection, table, chan, readers, setup, threads>>

-----------------------------------------------------------------------------
(* sock_send.  A write to a lost connection fails, or its data is lost. *)

sock_send(s, type, n, text) ==
  chan' = IF broken THEN chan
          ELSE [chan EXCEPT ![Other(s)] = Append(@, [type |-> type, n |-> n, text |-> text])]

MayFail == broken

\* Of what is under way when the connection is lost, a part arrives.
Break ==
  /\ MayBreak /\ ~broken /\ create # "start"
  /\ broken' = TRUE
  /\ \E toClient \in Prefixes(chan["client"]), toServer \in Prefixes(chan["server"]) :
       chan' = [chan EXCEPT !["client"] = toClient, !["server"] = toServer]
  /\ UNCHANGED <<connection, table, readers, setup, threads, crashed>>

-----------------------------------------------------------------------------
(* textRPC_client_create *)

Mut_ClientConnectFromMinusOne ==
  /\ create = "start"
  /\ create' = "connected"
  /\ protocolState' = [protocolState EXCEPT !["client"] = "negotiating"]
  /\ protocolVersion' = [protocolVersion EXCEPT !["client"] = Latest["client"]]
  /\ nextCallId' = [nextCallId EXCEPT !["client"] = -1]
  /\ reader' = [reader EXCEPT !["client"] = "reading"]
  /\ UNCHANGED <<outstandingCalls, result, chan, broken, current, negotiator, opened, closed, threads, crashed>>

\* Up to sock_connect, which starts the reading thread.
ClientConnect ==
  /\ create = "start"
  /\ create' = "connected"
  /\ protocolState' = [protocolState EXCEPT !["client"] = "negotiating"]
  /\ protocolVersion' = [protocolVersion EXCEPT !["client"] = Latest["client"]]
  /\ nextCallId' = [nextCallId EXCEPT !["client"] = 1]
  /\ reader' = [reader EXCEPT !["client"] = "reading"]
  /\ UNCHANGED <<outstandingCalls, result, chan, broken, current, negotiator, opened, closed, threads, crashed>>

Mut_ClientDoesNotWait ==
  /\ create = "connected"
  /\ create' = "created"
  /\ UNCHANGED <<connection, table, chan, broken, readers, negotiator, opened, closed, threads, crashed>>

\* tcpSocketConnection is set, and initFinishedCondition waited for, once.
ClientWait ==
  /\ create = "connected"
  /\ create' = "waiting"
  /\ UNCHANGED <<connection, table, chan, broken, readers, negotiator, opened, closed, threads, crashed>>

ClientCreated ==
  /\ create = "woken"
  /\ create' = "created"
  /\ UNCHANGED <<connection, table, chan, broken, readers, negotiator, opened, closed, threads, crashed>>

\* pthread_cond_broadcast of the client's initFinishedCondition.
InitFinished == create' = IF create = "waiting" THEN "woken" ELSE create

\* Has tcpSocketConnection, or tcpConnection, been set on side s?
Assigned(s) == s = "client" => create \notin {"start", "connected"}

-----------------------------------------------------------------------------
(* server_sock_handler, connection_create and negotiate_protocol *)

ServerAccept ==
  /\ create # "start" /\ reader["server"] = "none"
  /\ protocolState' = [protocolState EXCEPT !["server"] = "negotiating"]
  /\ negotiator' = "run"
  /\ reader' = [reader EXCEPT !["server"] = "reading"]
  /\ UNCHANGED <<protocolVersion, table, chan, broken, current, create, opened, closed, threads, crashed>>

Negotiate ==
  /\ negotiator = "run"
  /\ \/ MayFail /\ Crash("server", "negotiate")                  \* assert( error == NULL )
     \/ /\ sock_send("server", "request", Latest["server"], NoText)
        /\ negotiator' = "done"
        /\ UNCHANGED <<connection, table, broken, readers, create, opened, closed, threads, crashed>>

-----------------------------------------------------------------------------
(* connection_sock_handler, in the reading thread of side s *)

Mut_MessageUnthreaded(s, types) ==
  /\ reader[s] = "reading" /\ chan[s] # <<>>
  /\ Head(chan[s]).type \in types
  /\ \A k \in Worker : On(k) = s => pc[k] \in {"none", "ended", "exited"}

\* The next line that the reading thread gets is one of these messages.
Message(s, types) ==
  /\ reader[s] = "reading" /\ chan[s] # <<>>
  /\ Head(chan[s]).type \in types

Mut_Negotiated(s, remoteVersion) == remoteVersion

Negotiated(s, remoteVersion) == IF remoteVersion > Latest[s] THEN Latest[s] ELSE remoteVersion

\* The lower version is used and sent back, and textRPC_client_create woken.
HandleRequest(s) ==
  /\ Message(s, {"request"})
  /\ \/ MayFail /\ Crash(s, "request")                    \* assert( error == NULL )
     \/ LET v == Negotiated(s, Head(chan[s]).n)
        IN /\ protocolVersion' = [protocolVersion EXCEPT ![s] = v]
           /\ protocolState' = [protocolState EXCEPT ![s] = "running"]
           /\ chan' = [chan EXCEPT ![s] = Tail(@),
                                   ![Other(s)] = IF broken THEN @
                                                 ELSE Append(@, [type |-> "version", n |-> v, text |-> NoText])]
           /\ InitFinished
           /\ opened' = [opened EXCEPT ![s] = "run"]
           /\ UNCHANGED <<table, broken, readers, negotiator, closed, threads, crashed>>

HandleVersion(s) ==
  /\ Message(s, {"version"}) /\ protocolState[s] = "negotiating"
  /\ protocolVersion' = [protocolVersion EXCEPT ![s] = Head(chan[s]).n]
  /\ protocolState' = [protocolState EXCEPT ![s] = "running"]
  /\ chan' = [chan EXCEPT ![s] = Tail(@)]
  /\ opened' = [opened EXCEPT ![s] = "run"]
  /\ UNCHANGED <<table, broken, readers, create, negotiator, closed, threads, crashed>>

Mut_HandleCallNoCopy(s) ==
  /\ Message(s, {"C"})
  /\ LET k == <<Other(s), Head(chan[s]).n>>
     IN IF protocolState[s] = "running"
        THEN /\ pc' = [pc EXCEPT ![k] = "dispatch"]
             /\ input' = [j \in Worker |-> IF On(j) = s THEN Head(chan[s]).text ELSE input[j]]
        ELSE UNCHANGED <<pc, input>>
  /\ chan' = [chan EXCEPT ![s] = Tail(@)]
  /\ UNCHANGED <<connection, table, broken, readers, setup, callId, crashed>>

\* A call that comes in before the negotiation is finished is dropped; a
\* later one is given a thread of the pool.
HandleCall(s) ==
  /\ Message(s, {"C"})
  /\ LET k == <<Other(s), Head(chan[s]).n>>
     IN IF protocolState[s] = "running"
        THEN /\ pc' = [pc EXCEPT ![k] = "dispatch"]
             /\ input' = [input EXCEPT ![k] = Head(chan[s]).text]
        ELSE UNCHANGED <<pc, input>>
  /\ chan' = [chan EXCEPT ![s] = Tail(@)]
  /\ UNCHANGED <<connection, table, broken, readers, setup, callId, crashed>>

\* The caller of id, which waits for its finishedCondition.
CallOf(t, s, id) == On(t) = s /\ callId[t] = id /\ pc[t] # "none"

Mut_ReturnWithoutMutex(s) ==
  /\ Message(s, {"R", "E"})
  /\ LET msg == Head(chan[s])
     IN IF msg.n \in outstandingCalls[s]
        THEN /\ result' = [result EXCEPT ![<<s, msg.n>>] = [type |-> msg.type, text |-> msg.text]]
             /\ reader' = [reader EXCEPT ![s] = "broadcast"]
             /\ current' = [current EXCEPT ![s] = msg.n]
        ELSE UNCHANGED <<result, reader, current>>
  /\ chan' = [chan EXCEPT ![s] = Tail(@)]
  /\ UNCHANGED <<connection, nextCallId, outstandingCalls, broken, setup, threads, crashed>>

\* handleReturn: the result is stored with the call's mutex locked, which the
\* caller holds until it waits.
HandleReturn(s) ==
  /\ Message(s, {"R", "E"})
  /\ LET msg == Head(chan[s])
     IN IF msg.n \in outstandingCalls[s]
        THEN /\ \A t \in Thread : CallOf(t, s, msg.n) => pc[t] \notin {"send", "sent"}
             /\ result' = [result EXCEPT ![<<s, msg.n>>] = [type |-> msg.type, text |-> msg.text]]
             /\ reader' = [reader EXCEPT ![s] = "broadcast"]
             /\ current' = [current EXCEPT ![s] = msg.n]
        ELSE UNCHANGED <<result, reader, current>>
  /\ chan' = [chan EXCEPT ![s] = Tail(@)]
  /\ UNCHANGED <<connection, nextCallId, outstandingCalls, broken, setup, threads, crashed>>

\* handleReturn: pthread_cond_broadcast, after the mutex has been unlocked.
ReturnBroadcast(s) ==
  /\ reader[s] = "broadcast"
  /\ pc' = [t \in Thread |-> IF CallOf(t, s, current[s]) /\ pc[t] = "wait" THEN "woken" ELSE pc[t]]
  /\ reader' = [reader EXCEPT ![s] = "reading"]
  /\ current' = [current EXCEPT ![s] = NoCall]
  /\ UNCHANGED <<connection, table, chan, broken, setup, callId, input, crashed>>

\* SOCK_DISCONNECT, after which ConnectionThreadFunc ends.
HandleDisconnect(s) ==
  /\ reader[s] = "reading" /\ broken /\ chan[s] = <<>>
  /\ reader' = [reader EXCEPT ![s] = "done"]
  /\ closed' = [closed EXCEPT ![s] = "run"]
  /\ UNCHANGED <<connection, table, chan, broken, current, create, negotiator, opened, threads, crashed>>

callConnectionOpened(s) ==
  /\ opened[s] = "run"
  /\ opened' = [opened EXCEPT ![s] = "called"]
  /\ UNCHANGED <<connection, table, chan, broken, readers, create, negotiator, closed, threads, crashed>>

\* On the client's side, server is NULL.
callConnectionClosed(s) ==
  /\ closed[s] = "run"
  /\ IF s = "client" THEN Crash(s, "closed")
     ELSE /\ closed' = [closed EXCEPT ![s] = "called"]
          /\ UNCHANGED <<connection, table, chan, broken, readers, create, negotiator, opened, threads, crashed>>

-----------------------------------------------------------------------------
(* textRPC_call, by an application thread or by a called function *)

FirstId(s) == IF s = "client" THEN 1 ELSE 0

\* An application calls over a connection that it got from
\* textRPC_client_create or in connectionOpenedFunc.
HasConnection(t) ==
  IF t \in Caller THEN pc[t] = "idle" /\ IF Home[t] = "client" THEN create = "created" ELSE opened["server"] = "called"
  ELSE Callbacks /\ pc[t] = "dispatch" /\ input[t] \in Caller

Mut_CallBeginSameId(t) ==
  LET s == On(t)
  IN /\ HasConnection(t)
     /\ nextCallId[s] < FirstId(s) + MaxCalls
     /\ callId' = [callId EXCEPT ![t] = nextCallId[s]]
     /\ outstandingCalls' = [outstandingCalls EXCEPT ![s] = @ \cup {nextCallId[s]}]
     /\ pc' = [pc EXCEPT ![t] = "send"]
     /\ UNCHANGED <<connection, nextCallId, result, chan, broken, readers, setup, input, crashed>>

\* A new id and an outstanding call, whose mutex is locked.
CallBegin(t) ==
  LET s == On(t)
  IN /\ HasConnection(t)
     /\ nextCallId[s] < FirstId(s) + MaxCalls
     /\ callId' = [callId EXCEPT ![t] = nextCallId[s]]
     /\ nextCallId' = [nextCallId EXCEPT ![s] = @ + 1]
     /\ outstandingCalls' = [outstandingCalls EXCEPT ![s] = @ \cup {nextCallId[s]}]
     /\ pc' = [pc EXCEPT ![t] = "send"]
     /\ UNCHANGED <<connection, result, chan, broken, readers, setup, input, crashed>>

\* The error of sock_send does not keep the caller from waiting.
CallSend(t) ==
  /\ pc[t] = "send"
  /\ IF ~Assigned(On(t)) THEN Crash(On(t), "socket")
     ELSE /\ sock_send(On(t), "C", callId[t], t)
          /\ pc' = [pc EXCEPT ![t] = "sent"]
          /\ UNCHANGED <<connection, table, broken, readers, setup, callId, input, crashed>>

CallWait(t) ==
  /\ pc[t] = "sent"
  /\ pc' = [pc EXCEPT ![t] = "wait"]
  /\ UNCHANGED <<connection, table, chan, broken, readers, setup, callId, input, crashed>>

Mut_CallEndPolls(t) ==
  LET s == On(t)
  IN /\ pc[t] = "woken" \/ (pc[t] = "wait" /\ result[<<s, callId[t]>>] # Unanswered)
     /\ outstandingCalls' = [outstandingCalls EXCEPT ![s] =
          IF result[<<s, callId[t]>>].type = "E" THEN @ ELSE @ \ {callId[t]}]
     /\ pc' = [pc EXCEPT ![t] = IF t \in Caller THEN "idle" ELSE "result"]
     /\ callId' = [callId EXCEPT ![t] = NoCall]
     /\ UNCHANGED <<connection, nextCallId, result, chan, broken, readers, setup, input, crashed>>

\* After an error the call is neither deleted nor freed.
CallEnd(t) ==
  LET s == On(t)
  IN /\ pc[t] = "woken"
     /\ outstandingCalls' = [outstandingCalls EXCEPT ![s] =
          IF result[<<s, callId[t]>>].type = "E" THEN @ ELSE @ \ {callId[t]}]
     /\ pc' = [pc EXCEPT ![t] = IF t \in Caller THEN "idle" ELSE "result"]
     /\ callId' = [callId EXCEPT ![t] = NoCall]
     /\ UNCHANGED <<connection, nextCallId, result, chan, broken, readers, setup, input, crashed>>

-----------------------------------------------------------------------------
(* call_threadFunc *)

\* dispatchFunc returns a result or an error, which is sent; if that fails,
\* the thread exits instead of going back to its pool.
Reply(k, type) ==
  /\ pc[k] \in {"dispatch", "result"}
  /\ IF ~Assigned(On(k)) THEN Crash(On(k), "socket")
     ELSE /\ sock_send(On(k), type, k[2], input[k])
          /\ \E end \in {"ended"} \cup (IF MayFail THEN {"exited"} ELSE {}) : pc' = [pc EXCEPT ![k] = end]
          /\ UNCHANGED <<connection, table, broken, readers, setup, callId, input, crashed>>

-----------------------------------------------------------------------------
(* pthread_cond_wait may return without a broadcast *)

SpuriousWakeup(t) ==
  /\ SpuriousWakeups /\ pc[t] = "wait"
  /\ pc' = [pc EXCEPT ![t] = "woken"]
  /\ UNCHANGED <<connection, table, chan, broken, readers, setup, callId, input, crashed>>

SpuriousInit ==
  /\ SpuriousWakeups /\ create = "waiting"
  /\ create' = "woken"
  /\ UNCHANGED <<connection, table, chan, broken, readers, negotiator, opened, closed, threads, crashed>>

-----------------------------------------------------------------------------

Alive(s) == crashed[s] = "no"

Client == Alive("client") /\ (ClientConnect \/ ClientWait \/ ClientCreated)
Server == Alive("server") /\ (ServerAccept \/ Negotiate)

\* The reading thread of side s, and the callbacks to its application.
Reading(s) ==
  /\ Alive(s)
  /\ \/ HandleRequest(s) \/ HandleVersion(s) \/ HandleCall(s)
     \/ HandleReturn(s) \/ ReturnBroadcast(s) \/ HandleDisconnect(s)

Reporting(s) == Alive(s) /\ (callConnectionOpened(s) \/ callConnectionClosed(s))
Calling(t)   == Alive(On(t)) /\ (CallSend(t) \/ CallWait(t) \/ CallEnd(t))
Replying(k)  == Alive(On(k)) /\ \E type \in {"R", "E"} : Reply(k, type)

Next ==
  \/ Client \/ Server
  \/ \E s \in Side : Reading(s) \/ Reporting(s)
  \/ \E t \in Thread : Calling(t) \/ (Alive(On(t)) /\ (CallBegin(t) \/ SpuriousWakeup(t)))
  \/ \E k \in Worker : Replying(k)
  \/ Break
  \/ Alive("client") /\ SpuriousInit

Spec == Init /\ [][Next]_vars

\* Threads that can run do run, and called functions return.
FairSpec ==
  /\ Spec
  /\ WF_vars(Client) /\ WF_vars(Server)
  /\ \A s \in Side : WF_vars(Reading(s)) /\ WF_vars(Reporting(s))
  /\ \A t \in Thread : WF_vars(Calling(t))
  /\ \A k \in Worker : WF_vars(Replying(k))

-----------------------------------------------------------------------------
(* Properties *)

\* The types of the state: what a TextRPCConnection, the socket and the
\* threads of both programs can hold.
TypeOK ==
  /\ protocolState \in [Side -> {"initializing", "negotiating", "running"}]
  /\ protocolVersion \in [Side -> Nat \cup {-1}]
  /\ nextCallId \in [Side -> 0..(MaxCalls + 1)]
  /\ outstandingCalls \in [Side -> SUBSET (0..MaxCalls)]
  /\ result \in [Worker -> [type : {"none", "R", "E"}, text : Thread \cup {NoText}]]
  /\ \A s \in Side : \A i \in 1..Len(chan[s]) :
       chan[s][i] \in [type : {"request", "version", "C", "R", "E"}, n : Nat, text : Thread \cup {NoText}]
  /\ broken \in BOOLEAN
  /\ reader \in [Side -> {"none", "reading", "broadcast", "done"}]
  /\ current \in [Side -> (0..MaxCalls) \cup {NoCall}]
  /\ create \in {"start", "connected", "waiting", "woken", "created"}
  /\ negotiator \in {"none", "run", "done"}
  /\ opened \in [Side -> {"no", "run", "called"}] /\ closed \in [Side -> {"no", "run", "called"}]
  /\ pc \in [Thread -> {"idle", "none", "dispatch", "send", "sent", "wait", "woken", "result", "ended", "exited"}]
  /\ callId \in [Thread -> (0..MaxCalls) \cup {NoCall}]
  /\ input \in [Worker -> Thread \cup {NoText}]
  /\ crashed \in [Side -> {"no", "negotiate", "request", "closed", "socket"}]

\* The assertions on the reply to the negotiation hold, and when both sides
\* run they use the same version, which both support.
VersionsAgree ==
  /\ Message("server", {"version"}) =>
       protocolVersion["server"] = -1 /\ Head(chan["server"]).n <= Latest["server"]
  /\ (\A s \in Side : protocolState[s] = "running") =>
       /\ protocolVersion["client"] = protocolVersion["server"]
       /\ \A s \in Side : protocolVersion[s] <= Latest[s]

\* connection_sock_handler never gets a call while it still negotiates, when
\* it would drop it: the version is ahead of the first call.
NoCallDropped ==
  \A s \in Side : Message(s, {"C"}) => protocolState[s] = "running"

\* A caller that goes on after finishedCondition has the result of its own
\* call, although calls are executed and answered in any order.
AnswerIsOwn ==
  \A t \in Thread : pc[t] = "woken" => result[<<On(t), callId[t]>>].text = t

\* textRPC_call does not free an outstanding call of which handleReturn, which
\* has unlocked its mutex, has yet to broadcast the condition.
BroadcastBeforeFree ==
  \A s \in Side : reader[s] = "broadcast" => current[s] \in outstandingCalls[s]

\* Where a call is: under way, being executed, under way back, or being returned.
Places(s, id) ==
  Cardinality({i \in 1..Len(chan[Other(s)]) : chan[Other(s)][i].type = "C" /\ chan[Other(s)][i].n = id})
  + Cardinality({i \in 1..Len(chan[s]) : chan[s][i].type \in {"R", "E"} /\ chan[s][i].n = id})
  + (IF pc[<<s, id>>] \in {"none", "ended", "exited"} THEN 0 ELSE 1)
  + (IF reader[s] = "broadcast" /\ current[s] = id THEN 1 ELSE 0)

\* As long as the connection lasts, a call whose caller waits is in exactly one
\* place: no message, execution or wakeup of it is lost or duplicated.
CallSomewhere ==
  \A t \in Thread : pc[t] \in {"sent", "wait"} /\ ~broken => Places(On(t), callId[t]) = 1

\* A call is executed at most once, whatever happens to the connection: a
\* thread that has executed it (call_threadFunc) does not get it again.
ExecutedOnce ==
  [][\A k \in Worker : pc[k] \in {"ended", "exited"} => pc'[k] = pc[k]]_vars

\* textRPC_call returns while the connection lasts, also when the called
\* function makes calls itself: the thread that reads the socket never waits
\* for one that executes a call.
CallReturns ==
  \A t \in Thread : pc[t] = "send" ~> pc[t] \in {"idle", "result"} \/ broken

\* textRPC_call returns, with a socket error if the connection is lost.
LostCallReturns ==
  \A t \in Thread : pc[t] = "send" ~> pc[t] \in {"idle", "result"} \/ ~Alive(On(t))

\* textRPC_client_create returns when the connection has been negotiated.
ClientCreateReturns ==
  protocolState["client"] = "running" ~> create = "created" \/ broken

\* textRPC_call goes on only after the return message was received.
WokenAfterReturn ==
  \A t \in Thread : pc[t] = "woken" => result[<<On(t), callId[t]>>].type # "none"

\* negotiate_protocol's assertion that sock_send succeeds holds.
NegotiateAssertHolds == crashed["server"] # "negotiate"

\* callConnectionClosed does not call a function of a server that is NULL.
ClosedByServerOnly == \A s \in Side : crashed[s] # "closed"

\* The socket is known to whoever sends on it.
SocketInitialised == \A s \in Side : crashed[s] # "socket"

(* The life of an outstanding call of textRPC.c: until its caller has the  *)
(* answer it is in one of the places that lead there, and it is not freed  *)
(* before handleReturn has broadcast its condition.                        *)
CallsTracked == TypeOK /\ BroadcastBeforeFree /\ CallSomewhere
=============================================================================
