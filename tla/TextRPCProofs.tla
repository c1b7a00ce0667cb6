--------------------------- MODULE TextRPCProofs ---------------------------
(***************************************************************************)
(* Proofs about TextRPC.  Four invariants, each using the ones before:     *)
(*   BaseInv    types and the negotiation of the protocol version;         *)
(*   CallInv    ids, calls and answers: every call is executed at most     *)
(*              once, and every message carries its caller's text;         *)
(*   OrderInv   the version is ahead of the first call;                    *)
(*   LifeInv    a call is in one place until its caller has the answer.    *)
(* BaseInv and CallInv hold whether wakeups are spurious or not.  The      *)
(* other two, and what follows from them, are about a pthread_cond_wait    *)
(* that returns only after a broadcast: the code does not test again what  *)
(* it waited for, and module TextRPC shows what a spurious wakeup does.    *)
(***************************************************************************)
EXTENDS TextRPC, SequenceTheorems, FiniteSetTheorems, TLAPS

\* The messages of connection_sock_handler: lines of the protocol, with what
\* the model keeps of them.
Msg == [type : {"request", "version", "C", "R", "E"}, n : Nat, text : Thread \cup {NoText}]

\* The types of the answers to a call.
Answer == {"R", "E"}

\* The states of a thread of the pool that has executed its call.
Served == {"ended", "exited"}

\* Is thread t inside textRPC_call, after it got an id?
InCall(t) == pc[t] \in {"send", "sent", "wait", "woken"}

\* Types: TypeOK, with the channels as sequences, and an id for every thread in
\* textRPC_call.
TypeInv ==
  /\ TypeOK
  /\ chan \in [Side -> Seq(Msg)]
  /\ \A t \in Thread : InCall(t) => callId[t] \in 0..MaxCalls

\* The version that the negotiation settles on.
Agreed == Negotiated("client", Latest["server"])

\* Before textRPC_client_create has connected, nothing runs on either side.
StartInv ==
  create = "start" =>
    /\ nextCallId["client"] = 0
    /\ \A s \in Side : reader[s] = "none" /\ opened[s] = "no"
    /\ \A t \in Thread : pc[t] \in {"idle", "none"}

\* The negotiation: a request is under way to the client only, a version to the
\* server only, at most one of each and with the right version; the client runs
\* before the server does.
NegotiationInv ==
  /\ negotiator # "none" => create # "start"
  /\ negotiator # "none" => reader["server"] # "none"
  /\ \A i \in 1..Len(chan["server"]) : chan["server"][i].type # "request"
  /\ \A i \in 1..Len(chan["client"]) : chan["client"][i].type # "version"
  /\ \A i \in 1..Len(chan["client"]) : chan["client"][i].type = "request" =>
       chan["client"][i].n = Latest["server"] /\ negotiator = "done" /\ protocolState["client"] # "running"
  /\ \A i \in 1..Len(chan["server"]) : chan["server"][i].type = "version" =>
       /\ chan["server"][i].n = Agreed /\ protocolState["client"] = "running" /\ protocolState["server"] # "running"
  /\ \A i, j \in 1..Len(chan["client"]) : chan["client"][i].type = "request" /\ chan["client"][j].type = "request" => i = j
  /\ \A i, j \in 1..Len(chan["server"]) : chan["server"][i].type = "version" /\ chan["server"][j].type = "version" => i = j
  /\ protocolState["client"] = "running" => negotiator = "done" /\ protocolVersion["client"] = Agreed
  /\ protocolState["server"] = "running" => protocolState["client"] = "running" /\ protocolVersion["server"] = Agreed
  /\ protocolState["server"] # "running" => protocolVersion["server"] = -1

\* A side and the other one.
LEMMA SideFacts ==
  /\ \A s \in Side : Other(s) \in Side /\ Other(s) # s /\ Other(Other(s)) = s
  /\ "client" \in Side /\ "server" \in Side /\ Other("client") = "server" /\ Other("server") = "client"
  BY DEF Side, Other

\* A worker is a thread that no application thread is, and runs on the other
\* side of its caller.
LEMMA ThreadFacts ==
  /\ \A k \in Worker : k \in Thread /\ k \notin Caller /\ k[1] \in Side /\ k[2] \in 0..MaxCalls /\ k = <<k[1], k[2]>>
  /\ \A s \in Side, id \in 0..MaxCalls : <<s, id>> \in Worker
  /\ \A t \in Thread : On(t) \in Side
  /\ \A k \in Worker : On(k) = Other(k[1])
  <1>1. ASSUME NEW k \in Worker PROVE k \in Thread /\ k \notin Caller /\ k[1] \in Side /\ k[2] \in 0..MaxCalls /\ k = <<k[1], k[2]>>
    BY TextRPCAssumption DEF Worker, Thread
  <1>2. ASSUME NEW s \in Side, NEW id \in 0..MaxCalls PROVE <<s, id>> \in Worker
    BY DEF Worker
  <1>3. ASSUME NEW k \in Worker PROVE On(k) = Other(k[1])
    BY <1>1 DEF On
  <1>4. ASSUME NEW t \in Thread PROVE On(t) \in Side
    <2>1. CASE t \in Caller
      BY <2>1, TextRPCAssumption DEF On
    <2>2. CASE t \in Worker
      BY <2>2, <1>1, <1>3, SideFacts
    <2> QED
      BY <2>1, <2>2 DEF Thread
  <1> QED
    BY <1>1, <1>2, <1>3, <1>4, Zenon

\* The version settled on is supported by both sides.
LEMMA AgreedFacts == Agreed \in Nat /\ Agreed <= Latest["client"] /\ Agreed <= Latest["server"]
  BY TextRPCAssumption DEF Agreed, Negotiated, Side

-----------------------------------------------------------------------------

\* A process ends.
CrashStep ==
  \E s \in Side, how \in {"negotiate", "request", "closed", "socket"} : Crash(s, how)

\* negotiate_protocol whose sock_send succeeds.
NegotiateSend ==
  /\ negotiator = "run"
  /\ sock_send("server", "request", Latest["server"], NoText)
  /\ negotiator' = "done"
  /\ UNCHANGED <<connection, table, broken, readers, create, opened, closed, threads, crashed>>

\* HandleRequest whose sock_send succeeds.
RequestAnswered(s) ==
  /\ Message(s, {"request"})
  /\ LET v == Negotiated(s, Head(chan[s]).n)
     IN /\ protocolVersion' = [protocolVersion EXCEPT ![s] = v]
        /\ protocolState' = [protocolState EXCEPT ![s] = "running"]
        /\ chan' = [chan EXCEPT ![s] = Tail(@),
                                ![Other(s)] = IF broken THEN @
                                              ELSE Append(@, [type |-> "version", n |-> v, text |-> NoText])]
        /\ InitFinished
        /\ opened' = [opened EXCEPT ![s] = "run"]
        /\ UNCHANGED <<table, broken, readers, negotiator, closed, threads, crashed>>

\* CallSend on a socket that is known.
CallSent(t) ==
  /\ pc[t] = "send"
  /\ sock_send(On(t), "C", callId[t], t)
  /\ pc' = [pc EXCEPT ![t] = "sent"]
  /\ UNCHANGED <<connection, table, broken, readers, setup, callId, input, crashed>>

\* Reply with a given type and end of the thread.
Replied(k, type, end) ==
  /\ pc[k] \in {"dispatch", "result"}
  /\ sock_send(On(k), type, k[2], input[k])
  /\ pc' = [pc EXCEPT ![k] = end]
  /\ UNCHANGED <<connection, table, broken, readers, setup, callId, input, crashed>>

\* Steps that touch no message, call or thread in textRPC_call.
Quiet ==
  \/ ClientWait \/ ClientCreated \/ SpuriousInit
  \/ \E s \in Side : HandleDisconnect(s) \/ callConnectionOpened(s)
  \/ /\ closed' = [closed EXCEPT !["server"] = "called"]
     /\ UNCHANGED <<connection, table, chan, broken, readers, create, negotiator, opened, threads, crashed>>

\* Steps that set the connection up.
ServerSteps == ClientConnect \/ ServerAccept \/ NegotiateSend

\* Steps of the reading thread of side s.
ReadSteps(s) == RequestAnswered(s) \/ HandleVersion(s) \/ HandleCall(s) \/ HandleReturn(s) \/ ReturnBroadcast(s)

\* Steps of thread t in textRPC_call.
CallSteps(t) == CallBegin(t) \/ CallSent(t) \/ CallWait(t) \/ CallEnd(t) \/ SpuriousWakeup(t)

\* The steps of Next, sorted by what they change; the invariance proofs split
\* on these cases.
LEMMA NextCases ==
  ASSUME Next
  PROVE  \/ CrashStep \/ Quiet \/ ServerSteps \/ Break
         \/ \E s \in Side : ReadSteps(s)
         \/ \E t \in Thread : CallSteps(t)
         \/ \E k \in Worker, type \in Answer, end \in Served : Replied(k, type, end)
  <1>1. CASE Client \/ (Alive("client") /\ SpuriousInit)
    BY <1>1 DEF Client, ServerSteps, Quiet
  <1>2. CASE Server
    BY <1>2, SideFacts, Zenon DEF Server, ServerSteps, Negotiate, NegotiateSend, CrashStep
  <1>3. ASSUME NEW s \in Side, Reading(s)
        PROVE  CrashStep \/ Quiet \/ ReadSteps(s)
    BY <1>3, Zenon DEF Reading, ReadSteps, HandleRequest, RequestAnswered, Quiet, CrashStep
  <1>4. ASSUME NEW s \in Side, Reporting(s)
        PROVE  CrashStep \/ Quiet
    <2>1. CASE callConnectionOpened(s)
      BY <2>1 DEF Quiet
    <2>2. CASE callConnectionClosed(s) /\ s = "client"
      BY <2>2, SideFacts, Zenon DEF callConnectionClosed, CrashStep
    <2>3. CASE callConnectionClosed(s) /\ s = "server"
      BY <2>3 DEF callConnectionClosed, Quiet
    <2> QED
      BY <1>4, <2>1, <2>2, <2>3 DEF Reporting, Side
  <1>5. ASSUME NEW t \in Thread, Calling(t) \/ (Alive(On(t)) /\ (CallBegin(t) \/ SpuriousWakeup(t)))
        PROVE  CrashStep \/ CallSteps(t)
    BY <1>5, ThreadFacts, Zenon DEF Calling, CallSteps, CallSend, CallSent, CrashStep
  <1>6. ASSUME NEW k \in Worker, Replying(k)
        PROVE  CrashStep \/ \E type \in Answer, end \in Served : Replied(k, type, end)
    <2>1. PICK type \in Answer : Reply(k, type)
      BY <1>6 DEF Replying, Answer
    <2>2. CASE ~Assigned(On(k))
      BY <2>1, <2>2, ThreadFacts, Zenon DEF Reply, CrashStep
    <2>3. CASE Assigned(On(k))
      <3>1. PICK end \in Served : pc' = [pc EXCEPT ![k] = end]
        BY <2>1, <2>3, Zenon DEF Reply, Served
      <3> QED
        BY <2>1, <2>3, <3>1, Zenon DEF Reply, Replied
    <2> QED
      BY <2>2, <2>3
  <1> QED
    <2>1. CASE \E s \in Side : Reading(s) \/ Reporting(s)
      BY <1>3, <1>4, <2>1
    <2>2. CASE \E t \in Thread : Calling(t) \/ (Alive(On(t)) /\ (CallBegin(t) \/ SpuriousWakeup(t)))
      BY <1>5, <2>2
    <2>3. CASE \E k \in Worker : Replying(k)
      BY <1>6, <2>3
    <2> QED
      BY <1>1, <1>2, <2>1, <2>2, <2>3 DEF Next

-----------------------------------------------------------------------------

\* The message that the reading thread gets.
LEMMA HeadFacts ==
  ASSUME TypeInv, NEW s \in Side, NEW types, Message(s, types)
  PROVE  /\ Head(chan[s]) \in Msg /\ Head(chan[s]).type \in types /\ Head(chan[s]).n \in Nat
         /\ Head(chan[s]).text \in Thread \cup {NoText}
         /\ Head(chan[s]) = chan[s][1] /\ chan[s] \in Seq(Msg) /\ Len(chan[s]) \in Nat /\ Len(chan[s]) > 0
         /\ Tail(chan[s]) \in Seq(Msg) /\ Len(Tail(chan[s])) = Len(chan[s]) - 1
         /\ \A i \in 1..(Len(chan[s]) - 1) : Tail(chan[s])[i] = chan[s][i + 1]
  <1>1. chan[s] \in Seq(Msg) /\ chan[s] # << >> /\ Head(chan[s]).type \in types
    BY DEF TypeInv, Message
  <1>2. Head(chan[s]) = chan[s][1] /\ Head(chan[s]) \in Msg
    BY <1>1
  <1> QED
    BY <1>1, <1>2 DEF Msg

\* What sock_send does to the channels.
LEMMA SendFacts ==
  ASSUME TypeInv, NEW s \in Side, NEW type \in {"request", "version", "C", "R", "E"}, NEW n \in Nat,
         NEW text \in Thread \cup {NoText}, sock_send(s, type, n, text)
  PROVE  /\ chan' \in [Side -> Seq(Msg)] /\ chan'[s] = chan[s]
         /\ broken => chan' = chan
         /\ ~broken =>
              /\ Len(chan'[Other(s)]) = Len(chan[Other(s)]) + 1
              /\ \A i \in 1..Len(chan[Other(s)]) : chan'[Other(s)][i] = chan[Other(s)][i]
              /\ chan'[Other(s)][Len(chan[Other(s)]) + 1] = [type |-> type, n |-> n, text |-> text]
  <1> DEFINE m == [type |-> type, n |-> n, text |-> text]
  <1>1. m \in Msg
    BY DEF Msg
  <1>2. chan' = IF broken THEN chan ELSE [chan EXCEPT ![Other(s)] = Append(@, m)]
    BY Zenon DEF sock_send
  <1> HIDE DEF m
  <1>3. Append(chan[Other(s)], m) \in Seq(Msg) /\ chan[Other(s)] \in Seq(Msg)
    BY <1>1, SideFacts DEF TypeInv
  <1>4. chan' \in [Side -> Seq(Msg)] /\ chan'[s] = chan[s]
    BY <1>2, <1>3, SideFacts DEF TypeInv
  <1>5. ASSUME ~broken PROVE chan'[Other(s)] = Append(chan[Other(s)], m)
    BY <1>2, <1>5, SideFacts DEF TypeInv
  <1>6. ASSUME ~broken
        PROVE  /\ Len(chan'[Other(s)]) = Len(chan[Other(s)]) + 1
               /\ \A i \in 1..Len(chan[Other(s)]) : chan'[Other(s)][i] = chan[Other(s)][i]
               /\ chan'[Other(s)][Len(chan[Other(s)]) + 1] = m
    BY <1>1, <1>3, <1>5, <1>6
  <1> QED
    BY <1>2, <1>4, <1>6, Zenon DEF m

\* What reading a message does to the channels.
LEMMA TakeFacts ==
  ASSUME TypeInv, NEW s \in Side, NEW types, Message(s, types), chan' = [chan EXCEPT ![s] = Tail(@)]
  PROVE  /\ chan' \in [Side -> Seq(Msg)] /\ chan'[Other(s)] = chan[Other(s)]
         /\ Len(chan'[s]) = Len(chan[s]) - 1
         /\ \A i \in 1..(Len(chan[s]) - 1) : chan'[s][i] = chan[s][i + 1]
  <1>1. chan'[s] = Tail(chan[s]) /\ chan'[Other(s)] = chan[Other(s)]
    BY SideFacts DEF TypeInv
  <1>2. Tail(chan[s]) \in Seq(Msg)
    BY HeadFacts
  <1>3. chan' \in [Side -> Seq(Msg)]
    BY <1>2, SideFacts DEF TypeInv
  <1> QED
    BY <1>1, <1>3, HeadFacts, Zenon

\* What the loss of the connection does to the channels.
LEMMA BreakFacts ==
  ASSUME TypeInv, Break
  PROVE  /\ chan' \in [Side -> Seq(Msg)]
         /\ \A s \in Side : /\ Len(chan'[s]) \in 0..Len(chan[s])
                            /\ \A i \in 1..Len(chan'[s]) : chan'[s][i] = chan[s][i]
  <1>1. ASSUME NEW s \in Side, NEW p \in Prefixes(chan[s])
        PROVE  p \in Seq(Msg) /\ Len(p) \in 0..Len(chan[s]) /\ \A i \in 1..Len(p) : p[i] = chan[s][i]
    <2>1. PICK l \in 0..Len(chan[s]) : p = SubSeq(chan[s], 1, l)
      BY <1>1 DEF Prefixes
    <2>2. chan[s] \in Seq(Msg) /\ Len(chan[s]) \in Nat
      BY DEF TypeInv
    <2> QED
      BY <2>1, <2>2
  <1>2. PICK c \in Prefixes(chan["client"]), d \in Prefixes(chan["server"]) :
          chan' = [chan EXCEPT !["client"] = c, !["server"] = d]
    BY DEF Break
  <1>3. chan'["client"] = c /\ chan'["server"] = d
    BY <1>2, SideFacts DEF TypeInv
  <1>4. chan' \in [Side -> Seq(Msg)]
    BY <1>1, <1>2, SideFacts DEF TypeInv
  <1>5. ASSUME NEW s \in Side
        PROVE  /\ Len(chan'[s]) \in 0..Len(chan[s])
               /\ \A i \in 1..Len(chan'[s]) : chan'[s][i] = chan[s][i]
    <2>1. CASE s = "client"
      BY <2>1, <1>1, <1>2, <1>3
    <2>2. CASE s = "server"
      BY <2>2, <1>1, <1>2, <1>3
    <2> QED
      BY <2>1, <2>2 DEF Side
  <1> QED
    BY <1>4, <1>5, Zenon

\* What answering the request does to the channels.
LEMMA RequestFacts ==
  ASSUME TypeInv, NEW s \in Side, RequestAnswered(s)
  PROVE  /\ chan' \in [Side -> Seq(Msg)]
         /\ Len(chan'[s]) = Len(chan[s]) - 1
         /\ \A i \in 1..(Len(chan[s]) - 1) : chan'[s][i] = chan[s][i + 1]
         /\ broken => chan'[Other(s)] = chan[Other(s)]
         /\ ~broken =>
              /\ Len(chan'[Other(s)]) = Len(chan[Other(s)]) + 1
              /\ \A i \in 1..Len(chan[Other(s)]) : chan'[Other(s)][i] = chan[Other(s)][i]
              /\ chan'[Other(s)][Len(chan[Other(s)]) + 1] =
                   [type |-> "version", n |-> Negotiated(s, Head(chan[s]).n), text |-> NoText]
  <1> DEFINE m == [type |-> "version", n |-> Negotiated(s, Head(chan[s]).n), text |-> NoText]
  <1>0. Message(s, {"request"})
    BY DEF RequestAnswered
  <1>1. m \in Msg
    BY <1>0, HeadFacts, TextRPCAssumption DEF Msg, Negotiated
  <1>2. chan' = [chan EXCEPT ![s] = Tail(@), ![Other(s)] = IF broken THEN @ ELSE Append(@, m)]
    BY DEF RequestAnswered
  <1> HIDE DEF m
  <1>3. Append(chan[Other(s)], m) \in Seq(Msg) /\ chan[Other(s)] \in Seq(Msg) /\ Tail(chan[s]) \in Seq(Msg)
    BY <1>0, <1>1, SideFacts, HeadFacts DEF TypeInv
  <1>4. chan' \in [Side -> Seq(Msg)]
    BY <1>2, <1>3, SideFacts DEF TypeInv
  <1>5. chan'[s] = Tail(chan[s]) /\ chan'[Other(s)] = IF broken THEN chan[Other(s)] ELSE Append(chan[Other(s)], m)
    BY <1>2, SideFacts DEF TypeInv
  <1>6. ASSUME ~broken
        PROVE  /\ Len(chan'[Other(s)]) = Len(chan[Other(s)]) + 1
               /\ \A i \in 1..Len(chan[Other(s)]) : chan'[Other(s)][i] = chan[Other(s)][i]
               /\ chan'[Other(s)][Len(chan[Other(s)]) + 1] = m
    BY <1>1, <1>3, <1>5, <1>6
  <1>7. Len(chan'[s]) = Len(chan[s]) - 1 /\ \A i \in 1..(Len(chan[s]) - 1) : chan'[s][i] = chan[s][i + 1]
    BY <1>0, <1>5, HeadFacts, Zenon
  <1> QED
    BY <1>4, <1>5, <1>6, <1>7, Zenon DEF m

\* TypeOK without the channels.
TypeRest ==
  /\ protocolState \in [Side -> {"initializing", "negotiating", "running"}]
  /\ protocolVersion \in [Side -> Nat \cup {-1}]
  /\ nextCallId \in [Side -> 0..(MaxCalls + 1)]
  /\ outstandingCalls \in [Side -> SUBSET (0..MaxCalls)]
  /\ result \in [Worker -> [type : {"none", "R", "E"}, text : Thread \cup {NoText}]]
  /\ broken \in BOOLEAN
  /\ reader \in [Side -> {"none", "reading", "broadcast", "done"}]
  /\ current \in [Side -> (0..MaxCalls) \cup {NoCall}]
  /\ create \in {"start", "connected", "waiting", "woken", "created"}
  /\ negotiator \in {"none", "run", "done"}
  /\ opened \in [Side -> {"no", "run", "called"}] /\ closed \in [Side -> {"no", "run", "called"}]
  /\ pc \in [Thread -> {"idle", "none", "dispatch", "send", "sent", "wait", "woken", "result", "ended", "exited"}]
  /\ callId \in [Thread -> (0..MaxCalls) \cup {NoCall}]
  /\ input \in [Worker -> Thread \cup {NoText}]
  /\ crashed \in [Side -> {"no", "negotiate", "request", "closed", "socket"}]

\* The parts of TypeInv, proved one by one.
LEMMA TypeParts == TypeInv <=> TypeRest /\ chan \in [Side -> Seq(Msg)] /\ \A t \in Thread : InCall(t) => callId[t] \in 0..MaxCalls
  <1>1. ASSUME chan \in [Side -> Seq(Msg)]
        PROVE  \A s \in Side : \A i \in 1..Len(chan[s]) : chan[s][i] \in Msg
    BY <1>1
  <1> QED
    BY <1>1, Zenon DEF TypeInv, TypeOK, TypeRest, Msg

\* Every step keeps the types of everything but the channels.
LEMMA TypeStep ==
  ASSUME TypeInv, Next
  PROVE  TypeRest'
  <1> USE TextRPCAssumption, SideFacts, ThreadFacts, TypeParts DEF connection, table, readers, setup, threads
  <1>1. ASSUME CrashStep PROVE TypeRest'
    BY <1>1 DEF TypeRest, CrashStep, Crash
  <1>2. ASSUME Quiet PROVE TypeRest'
    <2>1. CASE ClientWait \/ ClientCreated \/ SpuriousInit
      BY <2>1, SMTT(20) DEF TypeRest, ClientWait, ClientCreated, SpuriousInit
    <2>2. ASSUME NEW s \in Side, HandleDisconnect(s) PROVE TypeRest'
      BY <2>2 DEF TypeRest, HandleDisconnect
    <2>3. ASSUME NEW s \in Side, callConnectionOpened(s) PROVE TypeRest'
      BY <2>3 DEF TypeRest, callConnectionOpened
    <2>4. ASSUME /\ closed' = [closed EXCEPT !["server"] = "called"]
                 /\ UNCHANGED <<connection, table, chan, broken, readers, create, negotiator, opened, threads, crashed>>
          PROVE  TypeRest'
      BY <2>4 DEF TypeRest
    <2> QED
      BY <1>2, <2>1, <2>2, <2>3, <2>4, Zenon DEF Quiet
  <1>3. ASSUME ClientConnect PROVE TypeRest'
    BY <1>3 DEF TypeRest, ClientConnect
  <1>4. ASSUME ServerAccept PROVE TypeRest'
    BY <1>4 DEF TypeRest, ServerAccept
  <1>5. ASSUME NegotiateSend PROVE TypeRest'
    BY <1>5 DEF TypeRest, NegotiateSend
  <1>6. ASSUME Break PROVE TypeRest'
    BY <1>6 DEF TypeRest, Break
  <1>7. ASSUME NEW s \in Side, RequestAnswered(s) PROVE TypeRest'
    <2>1. Head(chan[s]).n \in Nat /\ Head(chan[s]).text \in Thread \cup {NoText} /\ Head(chan[s]).type \in {"request"}
      BY <1>7, HeadFacts DEF RequestAnswered
    <2> QED
      BY <1>7, <2>1 DEF TypeRest, RequestAnswered, InitFinished, Negotiated
  <1>8. ASSUME NEW s \in Side, HandleVersion(s) PROVE TypeRest'
    <2>1. Head(chan[s]).n \in Nat /\ Head(chan[s]).text \in Thread \cup {NoText} /\ Head(chan[s]).type \in {"version"}
      BY <1>8, HeadFacts DEF HandleVersion
    <2> QED
      BY <1>8, <2>1 DEF TypeRest, HandleVersion
  <1>9. ASSUME NEW s \in Side, HandleCall(s) PROVE TypeRest'
    <2>1. Head(chan[s]).n \in Nat /\ Head(chan[s]).text \in Thread \cup {NoText} /\ Head(chan[s]).type \in {"C"}
      BY <1>9, HeadFacts DEF HandleCall
    <2> DEFINE k == <<Other(s), Head(chan[s]).n>>
    <2>2. /\ UNCHANGED <<protocolState, protocolVersion, nextCallId, outstandingCalls, result, broken, reader, current,
                       create, negotiator, opened, closed, callId, crashed>>
          /\ \/ UNCHANGED <<pc, input>>
             \/ pc' = [pc EXCEPT ![k] = "dispatch"] /\ input' = [input EXCEPT ![k] = Head(chan[s]).text]
      BY <1>9 DEF HandleCall
    <2> HIDE DEF k
    <2>3. /\ pc \in [Thread -> {"idle", "none", "dispatch", "send", "sent", "wait", "woken", "result", "ended", "exited"}]
          /\ input \in [Worker -> Thread \cup {NoText}]
      BY DEF TypeRest
    <2>4. /\ pc' \in [Thread -> {"idle", "none", "dispatch", "send", "sent", "wait", "woken", "result", "ended", "exited"}]
          /\ input' \in [Worker -> Thread \cup {NoText}]
      BY <2>1, <2>2, <2>3
    <2> QED
      BY <2>2, <2>4 DEF TypeRest
  <1>10. ASSUME NEW s \in Side, HandleReturn(s) PROVE TypeRest'
    <2>1. Head(chan[s]).n \in Nat /\ Head(chan[s]).text \in Thread \cup {NoText} /\ Head(chan[s]).type \in {"R", "E"}
      BY <1>10, HeadFacts DEF HandleReturn
    <2>2. CASE Head(chan[s]).n \in outstandingCalls[s]
      <3>1. [type |-> Head(chan[s]).type, text |-> Head(chan[s]).text] \in [type : {"none", "R", "E"}, text : Thread \cup {NoText}]
        BY <2>1
      <3>2. /\ result' = [result EXCEPT ![<<s, Head(chan[s]).n>>] = [type |-> Head(chan[s]).type, text |-> Head(chan[s]).text]]
            /\ reader' = [reader EXCEPT ![s] = "broadcast"]
            /\ current' = [current EXCEPT ![s] = Head(chan[s]).n]
            /\ UNCHANGED <<connection, nextCallId, outstandingCalls, broken, setup, threads, crashed>>
        BY <1>10, <2>2 DEF HandleReturn
      <3>3. Head(chan[s]).n \in 0..MaxCalls
        BY <2>2 DEF TypeRest
      <3> QED
        BY <3>1, <3>2, <3>3 DEF TypeRest
    <2>3. CASE Head(chan[s]).n \notin outstandingCalls[s]
      BY <1>10, <2>3 DEF TypeRest, HandleReturn
    <2> QED
      BY <2>2, <2>3
  <1>11. ASSUME NEW s \in Side, ReturnBroadcast(s) PROVE TypeRest'
    BY <1>11 DEF TypeRest, ReturnBroadcast, CallOf
  <1>12. ASSUME NEW t \in Thread, CallBegin(t) PROVE TypeRest'
    BY <1>12, SMTT(20) DEF TypeRest, CallBegin, FirstId
  <1>13. ASSUME NEW t \in Thread, CallSent(t) PROVE TypeRest'
    BY <1>13 DEF TypeRest, CallSent
  <1>14. ASSUME NEW t \in Thread, CallWait(t) PROVE TypeRest'
    BY <1>14 DEF TypeRest, CallWait
  <1>15. ASSUME NEW t \in Thread, CallEnd(t) PROVE TypeRest'
    BY <1>15 DEF TypeRest, CallEnd
  <1>16. ASSUME NEW t \in Thread, SpuriousWakeup(t) PROVE TypeRest'
    BY <1>16 DEF TypeRest, SpuriousWakeup
  <1>17. ASSUME NEW k \in Worker, NEW type \in Answer, NEW end \in Served, Replied(k, type, end) PROVE TypeRest'
    BY <1>17 DEF TypeRest, Replied, Answer, Served
  <1> QED
    BY NextCases, <1>1, <1>2, <1>3, <1>4, <1>5, <1>6, <1>7, <1>8, <1>9, <1>10, <1>11, <1>12, <1>13, <1>14, <1>15, <1>16, <1>17, Zenon DEF ServerSteps, ReadSteps, CallSteps

\* Every step keeps the channels sequences of messages.
LEMMA ChanStep ==
  ASSUME TypeInv, Next
  PROVE  chan' \in [Side -> Seq(Msg)]
  <1> USE DEF connection, table, readers, setup, threads
  <1>1. CASE UNCHANGED chan
    BY <1>1 DEF TypeInv
  <1>2. CASE CrashStep \/ Quiet \/ ClientConnect \/ ServerAccept
    BY <1>1, <1>2 DEF CrashStep, Crash, Quiet, ClientWait, ClientCreated, SpuriousInit, HandleDisconnect,
                      callConnectionOpened, ClientConnect, ServerAccept
  <1>3. CASE NegotiateSend
    BY <1>3, SendFacts, SideFacts, TextRPCAssumption DEF NegotiateSend
  <1>4. ASSUME NEW s \in Side, ReadSteps(s) PROVE chan' \in [Side -> Seq(Msg)]
    <2>1. CASE RequestAnswered(s)
      BY <2>1, RequestFacts
    <2>2. CASE HandleVersion(s) \/ HandleCall(s) \/ HandleReturn(s)
      BY <2>2, TakeFacts DEF HandleVersion, HandleCall, HandleReturn
    <2>3. CASE ReturnBroadcast(s)
      BY <1>1, <2>3 DEF ReturnBroadcast
    <2> QED
      BY <1>4, <2>1, <2>2, <2>3 DEF ReadSteps
  <1>5. ASSUME NEW t \in Thread, CallSteps(t) PROVE chan' \in [Side -> Seq(Msg)]
    <2>1. CASE CallSent(t)
      <3>1. callId[t] \in Nat /\ On(t) \in Side /\ sock_send(On(t), "C", callId[t], t)
        BY <2>1, ThreadFacts, TextRPCAssumption DEF CallSent, TypeInv, InCall
      <3> QED
        BY <3>1, SendFacts
    <2>2. CASE ~CallSent(t)
      BY <1>1, <1>5, <2>2 DEF CallSteps, CallBegin, CallWait, CallEnd, SpuriousWakeup
    <2> QED
      BY <2>1, <2>2
  <1>6. ASSUME NEW k \in Worker, NEW type \in Answer, NEW end \in Served, Replied(k, type, end)
        PROVE  chan' \in [Side -> Seq(Msg)]
    <2>1. /\ k[2] \in Nat /\ On(k) \in Side /\ sock_send(On(k), type, k[2], input[k])
          /\ input[k] \in Thread \cup {NoText} /\ type \in {"request", "version", "C", "R", "E"}
      BY <1>6, ThreadFacts, TextRPCAssumption DEF Replied, TypeInv, TypeOK, Answer
    <2> QED
      BY <2>1, SendFacts
  <1> QED
    BY NextCases, <1>2, <1>3, <1>4, <1>5, <1>6, BreakFacts, Zenon DEF ServerSteps

\* A thread in textRPC_call has an id.
LEMMA CallIdStep ==
  ASSUME TypeInv, Next
  PROVE  (\A t \in Thread : InCall(t) => callId[t] \in 0..MaxCalls)'
  <1> SUFFICES ASSUME NEW u \in Thread, InCall(u)' PROVE callId'[u] \in 0..MaxCalls
    BY DEF InCall
  <1> USE ThreadFacts, TypeParts DEF connection, table, readers, setup, threads
  <1>0. InCall(u) => callId[u] \in 0..MaxCalls
    OBVIOUS
  <1>1. CASE UNCHANGED <<pc, callId>>
    BY <1>0, <1>1 DEF InCall
  <1>2. CASE CrashStep \/ Quiet \/ ServerSteps \/ Break
    BY <1>1, <1>2 DEF CrashStep, Crash, Quiet, ClientWait, ClientCreated, SpuriousInit, HandleDisconnect,
                      callConnectionOpened, ServerSteps, ClientConnect, ServerAccept, NegotiateSend, Break
  <1>3. ASSUME NEW s \in Side, ReadSteps(s) PROVE callId'[u] \in 0..MaxCalls
    <2>1. CASE RequestAnswered(s) \/ HandleVersion(s) \/ HandleReturn(s)
      BY <1>1, <2>1 DEF RequestAnswered, HandleVersion, HandleReturn
    <2>2. CASE HandleCall(s)
      BY <1>0, <2>2 DEF HandleCall, InCall, TypeRest
    <2>3. CASE ReturnBroadcast(s)
      BY <1>0, <2>3 DEF ReturnBroadcast, InCall, TypeRest
    <2> QED
      BY <1>3, <2>1, <2>2, <2>3 DEF ReadSteps
  <1>4. ASSUME NEW t \in Thread, CallBegin(t) PROVE callId'[u] \in 0..MaxCalls
    <2>1. nextCallId[On(t)] \in 0..MaxCalls
      BY <1>4, TextRPCAssumption DEF CallBegin, FirstId, TypeRest
    <2> QED
      BY <1>0, <1>4, <2>1 DEF CallBegin, InCall, TypeRest
  <1>5. ASSUME NEW t \in Thread, CallSent(t) \/ CallWait(t) \/ CallEnd(t) \/ SpuriousWakeup(t)
        PROVE  callId'[u] \in 0..MaxCalls
    BY <1>0, <1>5 DEF CallSent, CallWait, CallEnd, SpuriousWakeup, InCall, TypeRest
  <1>6. ASSUME NEW k \in Worker, NEW type \in Answer, NEW end \in Served, Replied(k, type, end)
        PROVE  callId'[u] \in 0..MaxCalls
    BY <1>0, <1>6 DEF Replied, InCall, TypeRest, Served
  <1> QED
    BY NextCases, <1>2, <1>3, <1>4, <1>5, <1>6, Zenon DEF CallSteps

\* The same in the next state.
LEMMA TypePartsNext == TypeRest' /\ (chan \in [Side -> Seq(Msg)])' /\ (\A t \in Thread : InCall(t) => callId[t] \in 0..MaxCalls)' => TypeInv'
  BY TypeParts, PTL

\* Every step keeps TypeInv.
LEMMA TypeInvStep ==
  ASSUME TypeInv, Next
  PROVE  TypeInv'
  BY TypeStep, ChanStep, CallIdStep, TypePartsNext DEF Msg, Thread, Worker, Side, NoText

-----------------------------------------------------------------------------

\* Every step keeps StartInv.
LEMMA StartStep ==
  ASSUME TypeInv, StartInv, NegotiationInv, Next
  PROVE  StartInv'
  <1> SUFFICES ASSUME create' = "start"
               PROVE  /\ nextCallId'["client"] = 0
                      /\ \A s \in Side : reader'[s] = "none" /\ opened'[s] = "no"
                      /\ \A t \in Thread : pc'[t] \in {"idle", "none"}
    BY DEF StartInv
  <1> USE SideFacts, ThreadFacts DEF connection, table, readers, setup, threads
  <1>1. CASE UNCHANGED <<create, nextCallId, reader, opened, pc>>
    BY <1>1 DEF StartInv
  <1>2. CASE CrashStep \/ ServerSteps \/ Break
    BY <1>1, <1>2 DEF CrashStep, Crash, ServerSteps, ClientConnect, ServerAccept, NegotiateSend, Break
  <1>3. CASE Quiet
    BY <1>1, <1>3 DEF Quiet, ClientWait, ClientCreated, SpuriousInit, HandleDisconnect, callConnectionOpened, StartInv
  <1>4. ASSUME NEW s \in Side, ReadSteps(s) PROVE FALSE
    BY <1>4 DEF ReadSteps, RequestAnswered, HandleVersion, HandleCall, HandleReturn, ReturnBroadcast, Message, StartInv, InitFinished
  <1>5. ASSUME NEW t \in Thread, CallSteps(t) PROVE FALSE
    BY <1>5 DEF CallSteps, CallBegin, CallSent, CallWait, CallEnd, SpuriousWakeup, HasConnection, StartInv
  <1>6. ASSUME NEW k \in Worker, NEW type \in Answer, NEW end \in Served, Replied(k, type, end) PROVE FALSE
    BY <1>6 DEF Replied, StartInv
  <1> QED
    BY NextCases, <1>2, <1>3, <1>4, <1>5, <1>6, Zenon

\* A step that adds and removes no message of the negotiation keeps
\* NegotiationInv.
LEMMA NegotiationKept ==
  ASSUME TypeInv, TypeInv', NegotiationInv, NEW c \in {0, 1}, NEW d \in {0, 1},
         UNCHANGED <<protocolState, protocolVersion, negotiator, create>>,
         reader["server"] # "none" => reader'["server"] # "none",
         \A i \in 1..Len(chan'["client"]) :
           \/ chan'["client"][i].type \in {"C", "R", "E"}
           \/ i + c \in 1..Len(chan["client"]) /\ chan'["client"][i] = chan["client"][i + c],
         \A i \in 1..Len(chan'["server"]) :
           \/ chan'["server"][i].type \in {"C", "R", "E"}
           \/ i + d \in 1..Len(chan["server"]) /\ chan'["server"][i] = chan["server"][i + d]
  PROVE  NegotiationInv'
  <1>1. ASSUME NEW i \in 1..Len(chan'["client"])
        PROVE  /\ chan'["client"][i].type # "version"
               /\ chan'["client"][i].type = "request" =>
                    /\ i + c \in 1..Len(chan["client"]) /\ chan["client"][i + c].type = "request"
                    /\ chan'["client"][i].n = Latest["server"] /\ negotiator = "done" /\ protocolState["client"] # "running"
    BY DEF NegotiationInv
  <1>2. ASSUME NEW i \in 1..Len(chan'["server"])
        PROVE  /\ chan'["server"][i].type # "request"
               /\ chan'["server"][i].type = "version" =>
                    /\ i + d \in 1..Len(chan["server"]) /\ chan["server"][i + d].type = "version"
                    /\ chan'["server"][i].n = Agreed /\ protocolState["client"] = "running"
                    /\ protocolState["server"] # "running"
    BY DEF NegotiationInv
  <1>3. ASSUME NEW i \in 1..Len(chan'["client"]), NEW j \in 1..Len(chan'["client"]),
               chan'["client"][i].type = "request" /\ chan'["client"][j].type = "request"
        PROVE  i = j
    <2>1. i + c = j + c
      BY <1>1, <1>3 DEF NegotiationInv
    <2>2. Len(chan'["client"]) \in Nat
      BY SideFacts DEF TypeInv
    <2> QED
      BY <2>1, <2>2
  <1>4. ASSUME NEW i \in 1..Len(chan'["server"]), NEW j \in 1..Len(chan'["server"]),
               chan'["server"][i].type = "version" /\ chan'["server"][j].type = "version"
        PROVE  i = j
    <2>1. i + d = j + d
      BY <1>2, <1>4 DEF NegotiationInv
    <2>2. Len(chan'["server"]) \in Nat
      BY SideFacts DEF TypeInv
    <2> QED
      BY <2>1, <2>2
  <1>5. Agreed' = Agreed
    BY DEF Agreed, Negotiated
  <1> QED
    BY <1>1, <1>2, <1>3, <1>4, <1>5 DEF NegotiationInv

\* Every step keeps NegotiationInv.
LEMMA NegotiationStep ==
  ASSUME TypeInv, TypeInv', StartInv, NegotiationInv, Next
  PROVE  NegotiationInv'
  <1> USE SideFacts, TextRPCAssumption DEF connection, table, readers, setup, threads
  <1>0. /\ chan["client"] \in Seq(Msg) /\ chan["server"] \in Seq(Msg)
        /\ Len(chan["client"]) \in Nat /\ Len(chan["server"]) \in Nat
        /\ Len(chan'["client"]) \in Nat /\ Len(chan'["server"]) \in Nat
    BY DEF TypeInv
  <1>1. CASE /\ UNCHANGED <<protocolState, protocolVersion, chan, negotiator>>
             /\ create # "start" => create' # "start"
             /\ reader["server"] # "none" => reader'["server"] # "none"
    BY <1>1 DEF NegotiationInv, Agreed, Negotiated
  <1>2. CASE CrashStep
    BY <1>1, <1>2 DEF CrashStep, Crash
  <1>3. CASE Quiet
    BY <1>1, <1>3, SMTT(20) DEF Quiet, ClientWait, ClientCreated, SpuriousInit, HandleDisconnect, callConnectionOpened, TypeInv, TypeOK
  <1>4. CASE ClientConnect
    BY <1>4 DEF ClientConnect, NegotiationInv, Agreed, Negotiated, StartInv, TypeInv, TypeOK
  <1>5. CASE ServerAccept
    BY <1>5 DEF ServerAccept, NegotiationInv, Agreed, Negotiated, StartInv, TypeInv, TypeOK
  <1>6. CASE Break
    <2>1. \A s \in Side : Len(chan'[s]) \in 0..Len(chan[s]) /\ \A i \in 1..Len(chan'[s]) : chan'[s][i] = chan[s][i]
      BY <1>6, BreakFacts
    <2>2. UNCHANGED <<protocolState, protocolVersion, negotiator, create, reader>>
      BY <1>6 DEF Break
    <2>3. /\ \A i \in 1..Len(chan'["client"]) : i + 0 \in 1..Len(chan["client"]) /\ chan'["client"][i] = chan["client"][i + 0]
          /\ \A i \in 1..Len(chan'["server"]) : i + 0 \in 1..Len(chan["server"]) /\ chan'["server"][i] = chan["server"][i + 0]
      BY <1>0, <2>1
    <2> QED
      BY <2>2, <2>3, NegotiationKept
  <1>7. ASSUME NEW s \in Side, NEW type \in {"C", "R", "E"}, NEW n \in Nat, NEW text \in Thread \cup {NoText},
               sock_send(s, type, n, text), UNCHANGED <<protocolState, protocolVersion, negotiator, create, reader>>
        PROVE  NegotiationInv'
    <2>0. type \in {"request", "version", "C", "R", "E"}
      OBVIOUS
    <2>1. /\ chan'[s] = chan[s] /\ (broken => chan' = chan)
          /\ ~broken => /\ Len(chan'[Other(s)]) = Len(chan[Other(s)]) + 1
                        /\ \A i \in 1..Len(chan[Other(s)]) : chan'[Other(s)][i] = chan[Other(s)][i]
                        /\ chan'[Other(s)][Len(chan[Other(s)]) + 1] = [type |-> type, n |-> n, text |-> text]
      BY <1>7, <2>0, SendFacts
    <2>2. ~broken => chan'[Other(s)][Len(chan[Other(s)]) + 1].type \in {"C", "R", "E"}
      BY <2>1
    <2>3. ASSUME NEW r \in Side, NEW i \in 1..Len(chan'[r])
          PROVE  \/ chan'[r][i].type \in {"C", "R", "E"}
                 \/ i + 0 \in 1..Len(chan[r]) /\ chan'[r][i] = chan[r][i + 0]
      <3>1. Len(chan[r]) \in Nat /\ Len(chan'[r]) \in Nat
        BY DEF TypeInv
      <3>2. CASE r = s \/ broken
        BY <3>1, <3>2, <2>1
      <3>3. CASE r = Other(s) /\ ~broken
        <4>1. i \in 1..Len(chan[Other(s)]) \/ i = Len(chan[Other(s)]) + 1
          BY <3>1, <3>3, <2>1
        <4> QED
          BY <3>1, <3>3, <2>1, <2>2, <4>1
      <3> QED
        BY <3>2, <3>3 DEF Side, Other
    <2> QED
      BY <1>7, <2>3, NegotiationKept
  <1>8. ASSUME NEW s \in Side, Message(s, {"C", "R", "E"}), chan' = [chan EXCEPT ![s] = Tail(@)],
               UNCHANGED <<protocolState, protocolVersion, negotiator, create>>,
               reader["server"] # "none" => reader'["server"] # "none"
        PROVE  NegotiationInv'
    <2>1. CASE s = "client"
      BY <1>0, <1>8, <2>1, TakeFacts DEF NegotiationInv, Agreed, Negotiated
    <2>2. CASE s = "server"
      BY <1>0, <1>8, <2>2, TakeFacts DEF NegotiationInv, Agreed, Negotiated
    <2> QED
      BY <2>1, <2>2 DEF Side
  <1>9. CASE NegotiateSend
    <2>1. /\ negotiator = "run" /\ negotiator' = "done" /\ UNCHANGED <<protocolState, protocolVersion, create, reader>>
          /\ sock_send("server", "request", Latest["server"], NoText)
      BY <1>9 DEF NegotiateSend
    <2>2. chan'["server"] = chan["server"] /\ (broken => chan' = chan)
      BY <2>1, SendFacts
    <2>3. ~broken => /\ Len(chan'["client"]) = Len(chan["client"]) + 1
                     /\ \A i \in 1..Len(chan["client"]) : chan'["client"][i] = chan["client"][i]
                     /\ chan'["client"][Len(chan["client"]) + 1] = [type |-> "request", n |-> Latest["server"], text |-> NoText]
      BY <2>1, SendFacts
    <2>4. \A i \in 1..Len(chan["client"]) : chan["client"][i].type \notin {"request", "version"}
      BY <2>1 DEF NegotiationInv
    <2>5. ASSUME NEW i \in 1..Len(chan'["client"])
          PROVE  /\ chan'["client"][i].type # "version"
                 /\ chan'["client"][i].type = "request" => i = Len(chan["client"]) + 1 /\ chan'["client"][i].n = Latest["server"]
      <3>1. CASE broken
        BY <3>1, <2>2, <2>4
      <3>2. CASE ~broken /\ i \in 1..Len(chan["client"])
        BY <3>2, <2>3, <2>4
      <3>3. CASE ~broken /\ i = Len(chan["client"]) + 1
        BY <3>3, <2>3
      <3> QED
        BY <1>0, <2>3, <3>1, <3>2, <3>3
    <2> QED
      BY <2>1, <2>2, <2>5 DEF NegotiationInv, Agreed, Negotiated
  <1>10. ASSUME NEW s \in Side, RequestAnswered(s) PROVE NegotiationInv'
    <2>1. Message(s, {"request"}) /\ Head(chan[s]) = chan[s][1] /\ Head(chan[s]).type = "request" /\ 1 \in 1..Len(chan[s])
      BY <1>10, HeadFacts DEF RequestAnswered
    <2>2. s = "client" /\ Head(chan[s]).n = Latest["server"] /\ protocolState["client"] # "running" /\ negotiator = "done"
      BY <2>1 DEF NegotiationInv, Side
    <2>3. Negotiated(s, Head(chan[s]).n) = Agreed
      BY <2>2 DEF Agreed
    <2>4. /\ Len(chan'["client"]) = Len(chan["client"]) - 1
          /\ \A i \in 1..(Len(chan["client"]) - 1) : chan'["client"][i] = chan["client"][i + 1]
          /\ broken => chan'["server"] = chan["server"]
      BY <1>10, <2>2, RequestFacts
    <2>5. ~broken => /\ Len(chan'["server"]) = Len(chan["server"]) + 1
                     /\ \A i \in 1..Len(chan["server"]) : chan'["server"][i] = chan["server"][i]
                     /\ chan'["server"][Len(chan["server"]) + 1] = [type |-> "version", n |-> Agreed, text |-> NoText]
      BY <1>10, <2>2, <2>3, RequestFacts
    <2>6. /\ \A i \in 1..Len(chan["server"]) : chan["server"][i].type \notin {"request", "version"}
          /\ protocolState["server"] # "running"
      BY <2>2 DEF NegotiationInv
    <2>7. ASSUME NEW i \in 1..Len(chan'["client"]) PROVE chan'["client"][i].type \notin {"request", "version"}
      <3>1. i + 1 \in 1..Len(chan["client"]) /\ chan'["client"][i] = chan["client"][i + 1] /\ i + 1 # 1
        BY <1>0, <2>4
      <3>2. chan["client"][1].type = "request" /\ 1 \in 1..Len(chan["client"])
        BY <2>1, <2>2
      <3>3. chan["client"][i + 1].type # "version" /\ (chan["client"][i + 1].type = "request" => i + 1 = 1)
        BY <3>1, <3>2 DEF NegotiationInv
      <3> QED
        BY <3>1, <3>3
    <2>8. ASSUME NEW i \in 1..Len(chan'["server"])
          PROVE  /\ chan'["server"][i].type # "request"
                 /\ chan'["server"][i].type = "version" => i = Len(chan["server"]) + 1 /\ chan'["server"][i].n = Agreed
      <3>1. CASE broken
        BY <3>1, <2>4, <2>6
      <3>2. CASE ~broken /\ i \in 1..Len(chan["server"])
        BY <3>2, <2>5, <2>6
      <3>3. CASE ~broken /\ i = Len(chan["server"]) + 1
        BY <3>3, <2>5
      <3> QED
        BY <1>0, <2>5, <3>1, <3>2, <3>3
    <2>9. /\ protocolState'["client"] = "running" /\ protocolState'["server"] = protocolState["server"]
          /\ protocolVersion'["client"] = Agreed /\ protocolVersion'["server"] = protocolVersion["server"]
          /\ UNCHANGED <<negotiator, reader>> /\ (create # "start" => create' # "start")
      BY <1>10, <2>2, <2>3 DEF RequestAnswered, InitFinished, TypeInv, TypeOK
    <2>10. Agreed' = Agreed
      BY DEF Agreed, Negotiated
    <2>11. protocolVersion["server"] = -1
      BY <2>6 DEF NegotiationInv
    <2> QED
      BY <2>2, <2>6, <2>7, <2>8, <2>9, <2>10, <2>11 DEF NegotiationInv
  <1>11. ASSUME NEW s \in Side, HandleVersion(s) PROVE NegotiationInv'
    <2>1. Message(s, {"version"}) /\ Head(chan[s]) = chan[s][1] /\ Head(chan[s]).type = "version" /\ 1 \in 1..Len(chan[s])
      BY <1>11, HeadFacts DEF HandleVersion
    <2>2. s = "server" /\ Head(chan[s]).n = Agreed /\ protocolState["client"] = "running"
      BY <2>1 DEF NegotiationInv, Side
    <2>3. /\ chan'["client"] = chan["client"] /\ Len(chan'["server"]) = Len(chan["server"]) - 1
          /\ \A i \in 1..(Len(chan["server"]) - 1) : chan'["server"][i] = chan["server"][i + 1]
      <3>1. chan' = [chan EXCEPT ![s] = Tail(@)]
        BY <1>11 DEF HandleVersion
      <3> QED
        <4>1. /\ chan'[Other(s)] = chan[Other(s)] /\ Len(chan'[s]) = Len(chan[s]) - 1
              /\ \A i \in 1..(Len(chan[s]) - 1) : chan'[s][i] = chan[s][i + 1]
          BY <2>1, <3>1, TakeFacts
        <4> QED
          BY <2>2, <4>1
    <2>4. ASSUME NEW i \in 1..Len(chan'["server"]) PROVE chan'["server"][i].type \notin {"request", "version"}
      <3>1. i + 1 \in 1..Len(chan["server"]) /\ chan'["server"][i] = chan["server"][i + 1] /\ i + 1 # 1
        BY <1>0, <2>3
      <3>2. chan["server"][1].type = "version" /\ 1 \in 1..Len(chan["server"])
        BY <2>1, <2>2
      <3>3. chan["server"][i + 1].type # "request" /\ (chan["server"][i + 1].type = "version" => i + 1 = 1)
        BY <3>1, <3>2 DEF NegotiationInv
      <3> QED
        BY <3>1, <3>3
    <2>5. /\ protocolState'["server"] = "running" /\ protocolState'["client"] = protocolState["client"]
          /\ protocolVersion'["server"] = Agreed /\ protocolVersion'["client"] = protocolVersion["client"]
          /\ UNCHANGED <<negotiator, reader, create>>
      BY <1>11, <2>2 DEF HandleVersion, TypeInv, TypeOK
    <2>6. Agreed' = Agreed
      BY DEF Agreed, Negotiated
    <2> QED
      BY <2>2, <2>3, <2>4, <2>5, <2>6 DEF NegotiationInv
  <1>12. ASSUME NEW s \in Side, ReadSteps(s) PROVE NegotiationInv'
    <2>1. CASE HandleCall(s)
      BY <1>8, <2>1 DEF HandleCall, Message
    <2>2. CASE HandleReturn(s)
      <3>1. Message(s, {"C", "R", "E"}) /\ chan' = [chan EXCEPT ![s] = Tail(@)]
        BY <2>2 DEF HandleReturn, Message
      <3>2. /\ UNCHANGED <<protocolState, protocolVersion, negotiator, create>>
            /\ reader["server"] # "none" => reader'["server"] # "none"
        BY <2>2 DEF HandleReturn, TypeInv, TypeOK
      <3> QED
        BY <1>8, <3>1, <3>2
    <2>3. CASE ReturnBroadcast(s)
      BY <1>1, <2>3 DEF ReturnBroadcast, TypeInv, TypeOK
    <2> QED
      BY <1>10, <1>11, <1>12, <2>1, <2>2, <2>3 DEF ReadSteps
  <1>13. ASSUME NEW t \in Thread, CallSteps(t) PROVE NegotiationInv'
    <2>1. CASE CallSent(t)
      <3>1. callId[t] \in Nat /\ On(t) \in Side /\ sock_send(On(t), "C", callId[t], t)
        BY <2>1, ThreadFacts DEF CallSent, TypeInv, InCall
      <3> QED
        BY <1>7, <2>1, <3>1 DEF CallSent
    <2>2. CASE ~CallSent(t)
      BY <1>1, <1>13, <2>2 DEF CallSteps, CallBegin, CallWait, CallEnd, SpuriousWakeup
    <2> QED
      BY <2>1, <2>2
  <1>14. ASSUME NEW k \in Worker, NEW type \in Answer, NEW end \in Served, Replied(k, type, end)
         PROVE  NegotiationInv'
    <2>1. /\ k[2] \in Nat /\ On(k) \in Side /\ sock_send(On(k), type, k[2], input[k])
          /\ input[k] \in Thread \cup {NoText} /\ type \in {"C", "R", "E"}
      <3>1. k[2] \in 0..MaxCalls /\ On(k) \in Side
        BY ThreadFacts
      <3>2. input[k] \in Thread \cup {NoText}
        BY DEF TypeInv, TypeOK
      <3> QED
        BY <1>14, <3>1, <3>2 DEF Replied, Answer
    <2> QED
      BY <1>7, <1>14, <2>1 DEF Replied
  <1> QED
    BY NextCases, <1>2, <1>3, <1>4, <1>5, <1>9, <1>12, <1>6, <1>13, <1>14, Zenon DEF ServerSteps

\* The inductive invariant of the negotiation.
BaseInv == TypeInv /\ StartInv /\ NegotiationInv

\* It holds initially.
LEMMA BaseInit == Init => BaseInv
  <1> SUFFICES ASSUME Init PROVE BaseInv
    OBVIOUS
  <1> USE TextRPCAssumption, SideFacts, ThreadFacts
  <1>1. TypeRest
    <2>1. Unanswered \in [type : {"none", "R", "E"}, text : Thread \cup {NoText}]
      BY DEF Unanswered
    <2>2. result \in [Worker -> [type : {"none", "R", "E"}, text : Thread \cup {NoText}]]
      BY <2>1 DEF Init
    <2> QED
      <3>1. /\ pc \in [Thread -> {"idle", "none"}] /\ callId \in [Thread -> {NoCall}]
            /\ input \in [Worker -> {NoText}] /\ outstandingCalls \in [Side -> {{}}]
        BY DEF Init
      <3>2. /\ pc \in [Thread -> {"idle", "none", "dispatch", "send", "sent", "wait", "woken", "result", "ended", "exited"}]
            /\ callId \in [Thread -> (0..MaxCalls) \cup {NoCall}] /\ input \in [Worker -> Thread \cup {NoText}]
            /\ outstandingCalls \in [Side -> SUBSET (0..MaxCalls)]
        BY <3>1
      <3>3. /\ protocolState \in [Side -> {"initializing", "negotiating", "running"}]
            /\ protocolVersion \in [Side -> Nat \cup {-1}] /\ nextCallId \in [Side -> 0..(MaxCalls + 1)]
            /\ reader \in [Side -> {"none", "reading", "broadcast", "done"}]
            /\ current \in [Side -> (0..MaxCalls) \cup {NoCall}]
        BY DEF Init
      <3> QED
        BY <2>2, <3>2, <3>3 DEF Init, TypeRest
  <1>2. chan \in [Side -> Seq(Msg)]
    BY DEF Init
  <1>3. \A t \in Thread : pc[t] \in {"idle", "none"}
    BY DEF Init
  <1>4. TypeInv
    BY <1>1, <1>2, <1>3, TypeParts DEF InCall
  <1>5. StartInv
    BY <1>3 DEF Init, StartInv
  <1>6. NegotiationInv
    BY DEF Init, NegotiationInv
  <1> QED
    BY <1>4, <1>5, <1>6 DEF BaseInv

\* Every step keeps it.
LEMMA BaseStep == BaseInv /\ [Next]_vars => BaseInv'
  <1> SUFFICES ASSUME BaseInv, [Next]_vars PROVE BaseInv'
    OBVIOUS
  <1>1. CASE Next
    BY <1>1, TypeInvStep, StartStep, NegotiationStep DEF BaseInv
  <1>2. CASE UNCHANGED vars
    BY <1>2 DEF vars, BaseInv, TypeInv, TypeOK, InCall, StartInv, NegotiationInv, Agreed, Negotiated, Msg, Side, Worker, Thread, NoText, NoCall
  <1> QED
    BY <1>1, <1>2

\* It is an invariant, for any callers, versions, number of calls and loss of
\* the connection.
THEOREM BaseInvariance == Spec => []BaseInv
  BY BaseInit, BaseStep, PTL DEF Spec

\* It implies VersionsAgree.
LEMMA BaseVersions == BaseInv => VersionsAgree
  <1> SUFFICES ASSUME BaseInv PROVE VersionsAgree
    OBVIOUS
  <1>1. ASSUME Message("server", {"version"})
        PROVE  protocolVersion["server"] = -1 /\ Head(chan["server"]).n <= Latest["server"]
    <2>1. Head(chan["server"]) = chan["server"][1] /\ chan["server"][1].type = "version" /\ 1 \in 1..Len(chan["server"])
      BY <1>1, HeadFacts, SideFacts DEF BaseInv
    <2> QED
      BY <2>1, AgreedFacts DEF BaseInv, NegotiationInv
  <1>2. ASSUME \A s \in Side : protocolState[s] = "running"
        PROVE  /\ protocolVersion["client"] = protocolVersion["server"]
               /\ \A s \in Side : protocolVersion[s] <= Latest[s]
    BY <1>2, AgreedFacts DEF BaseInv, NegotiationInv, Side
  <1> QED
    BY <1>1, <1>2 DEF VersionsAgree

\* Two programs of any versions agree: the assertions of
\* connection_sock_handler on the reply to the negotiation hold, and both sides
\* run the same version, which both support.
THEOREM Versions == Spec => []VersionsAgree
  BY BaseInvariance, BaseVersions, PTL

-----------------------------------------------------------------------------
(* Calls and answers. *)

\* A thread in textRPC_call has an id that was given out and is in
\* outstandingCalls.
Issued ==
  \A t \in Thread : InCall(t) => callId[t] < nextCallId[On(t)] /\ callId[t] \in outstandingCalls[On(t)]

\* No two threads of a side have the same id.
OneCaller ==
  \A t, u \in Thread : InCall(t) /\ InCall(u) /\ On(t) = On(u) /\ callId[t] = callId[u] => t = u

\* A thread of the pool executes calls whose id was given out.
WorkerIssued == \A k \in Worker : pc[k] # "none" => k[2] < nextCallId[k[1]]

\* A call under way has not been executed.
CallFresh ==
  \A s \in Side : \A i \in 1..Len(chan[s]) : chan[s][i].type = "C" =>
    /\ chan[s][i].n \in 0..MaxCalls /\ chan[s][i].n < nextCallId[Other(s)]
    /\ pc[<<Other(s), chan[s][i].n>>] = "none"

\* An answer under way is to a call that was executed.
AnswerServed ==
  \A s \in Side : \A i \in 1..Len(chan[s]) : chan[s][i].type \in Answer =>
    chan[s][i].n \in 0..MaxCalls /\ pc[<<s, chan[s][i].n>>] \in Served

\* So is the answer that handleReturn is about to broadcast.
BroadcastServed ==
  \A s \in Side : reader[s] = "broadcast" => current[s] \in 0..MaxCalls /\ pc[<<s, current[s]>>] \in Served

\* At most one message of a call is under way.
OneCall ==
  \A s \in Side : \A i, j \in 1..Len(chan[s]) :
    chan[s][i].type = "C" /\ chan[s][j].type = "C" /\ chan[s][i].n = chan[s][j].n => i = j

\* At most one answer to it is under way,
OneAnswer ==
  \A s \in Side : \A i, j \in 1..Len(chan[s]) :
    chan[s][i].type \in Answer /\ chan[s][j].type \in Answer /\ chan[s][i].n = chan[s][j].n => i = j

\* and none once handleReturn handles one.
NotBroadcast ==
  \A s \in Side : \A i \in 1..Len(chan[s]) :
    chan[s][i].type \in Answer /\ reader[s] = "broadcast" => current[s] # chan[s][i].n

\* A call that is not sent yet has not been executed,
SendFresh ==
  \A t \in Thread : pc[t] = "send" => pc[<<On(t), callId[t]>>] = "none"

\* and is not under way.
SendUnsent ==
  \A t \in Thread : pc[t] = "send" => \A i \in 1..Len(chan[Other(On(t))]) :
    chan[Other(On(t))][i].type = "C" => chan[Other(On(t))][i].n # callId[t]

\* handleReturn does not handle the answer before the caller waits, which holds
\* the call's mutex until then.
SentNotBroadcast ==
  \A t \in Thread : pc[t] = "sent" /\ reader[On(t)] = "broadcast" => current[On(t)] # callId[t]

\* The text of a call under way is its caller's.
TextCall ==
  \A t \in Thread : InCall(t) => \A i \in 1..Len(chan[Other(On(t))]) :
    chan[Other(On(t))][i].type = "C" /\ chan[Other(On(t))][i].n = callId[t] => chan[Other(On(t))][i].text = t

\* So is the input of the thread that executes it,
TextWorker ==
  \A t \in Thread : InCall(t) /\ pc[<<On(t), callId[t]>>] # "none" => input[<<On(t), callId[t]>>] = t

\* the answer under way,
TextAnswer ==
  \A t \in Thread : InCall(t) => \A i \in 1..Len(chan[On(t)]) :
    chan[On(t)][i].type \in Answer /\ chan[On(t)][i].n = callId[t] => chan[On(t)][i].text = t

\* and the result that handleReturn has stored.
TextBroadcast ==
  \A t \in Thread : InCall(t) /\ reader[On(t)] = "broadcast" /\ current[On(t)] = callId[t] =>
    result[<<On(t), callId[t]>>].text = t

\* The invariant of calls and answers, whether wakeups are spurious or not.
CallInv ==
  /\ Issued /\ OneCaller /\ WorkerIssued /\ CallFresh /\ AnswerServed /\ BroadcastServed
  /\ OneCall /\ OneAnswer /\ NotBroadcast /\ SendFresh /\ SendUnsent /\ SentNotBroadcast
  /\ TextCall /\ TextWorker /\ TextAnswer /\ TextBroadcast

\* A step that at most moves t from the end of sending to waiting, or on from there.
SamePhase(t) ==
  /\ InCall(t)' <=> InCall(t)
  /\ pc'[t] = "none" <=> pc[t] = "none"
  /\ pc'[t] \in Served <=> pc[t] \in Served
  /\ pc'[t] = "send" <=> pc[t] = "send"
  /\ pc'[t] = "sent" => pc[t] = "sent"

\* Two workers are the same when caller's side and id are.
LEMMA PairFacts ==
  \A s, r \in Side, m, n \in 0..MaxCalls : <<s, m>> = <<r, n>> <=> s = r /\ m = n
  OBVIOUS

\* The types that the proofs about calls use.
LEMMA CallTypes ==
  ASSUME TypeInv, TypeInv'
  PROVE  /\ nextCallId \in [Side -> Nat] /\ nextCallId' \in [Side -> Nat]
         /\ callId \in [Thread -> (0..MaxCalls) \cup {NoCall}] /\ NoCall \notin 0..MaxCalls
         /\ \A u \in Thread : InCall(u) => callId[u] \in 0..MaxCalls
         /\ \A r \in Side : Len(chan[r]) \in Nat /\ Len(chan'[r]) \in Nat
  BY DEF TypeInv, TypeOK, NoCall

\* What one thread's move does to pc.
LEMMA PcMoved ==
  ASSUME TypeInv, NEW t \in Thread, NEW p, pc' = [pc EXCEPT ![t] = p]
  PROVE  pc'[t] = p /\ \A u \in Thread : u # t => pc'[u] = pc[u]
  <1>1. DOMAIN pc = Thread
    BY DEF TypeInv, TypeOK
  <1> QED
    BY <1>1, Zenon

\* A step that adds no call and no answer, and moves threads in textRPC_call
\* only past waiting, keeps CallInv: d is 1 on a side that reads a message.
LEMMA CallKept ==
  ASSUME TypeInv, TypeInv', CallInv, NEW d \in [Side -> {0, 1}],
         UNCHANGED <<callId, input, outstandingCalls, result>>,
         \A s \in Side : nextCallId[s] <= nextCallId'[s],
         \A s \in Side : reader'[s] = "broadcast" => reader[s] = "broadcast" /\ current'[s] = current[s],
         \A t \in Thread : SamePhase(t),
         \A s \in Side : \A i \in 1..Len(chan'[s]) :
           \/ chan'[s][i].type \notin {"C", "R", "E"}
           \/ i + d[s] \in 1..Len(chan[s]) /\ chan'[s][i] = chan[s][i + d[s]]
  PROVE  CallInv'
  <1> USE SideFacts, ThreadFacts DEF Answer
  <1>f. /\ nextCallId \in [Side -> Nat] /\ nextCallId' \in [Side -> Nat]
        /\ callId \in [Thread -> (0..MaxCalls) \cup {NoCall}]
        /\ \A t \in Thread : InCall(t) => callId[t] \in 0..MaxCalls
        /\ \A s \in Side : Len(chan[s]) \in Nat /\ Len(chan'[s]) \in Nat
    BY DEF TypeInv, TypeOK
  <1>Issued. Issued'
    <2> SUFFICES ASSUME NEW u \in Thread, InCall(u)'
                 PROVE  callId'[u] < nextCallId'[On(u)] /\ callId'[u] \in outstandingCalls'[On(u)]
      BY DEF Issued
    <2> QED
      BY <1>f DEF CallInv, Issued, SamePhase
  <1>OneCaller. OneCaller'
    <2> SUFFICES ASSUME NEW u \in Thread, NEW w \in Thread, InCall(u)', InCall(w)', On(u) = On(w), callId'[u] = callId'[w]
                 PROVE  u = w
      BY DEF OneCaller
    <2> QED
      BY <1>f DEF CallInv, OneCaller, SamePhase
  <1>WorkerIssued. WorkerIssued'
    <2> SUFFICES ASSUME NEW j \in Worker, pc'[j] # "none"
                 PROVE  j[2] < nextCallId'[j[1]]
      BY DEF WorkerIssued
    <2>1. pc[j] # "none" /\ j[1] \in Side /\ j[2] \in Int
      BY DEF SamePhase
    <2>2. j[2] < nextCallId[j[1]]
      BY <2>1 DEF CallInv, WorkerIssued
    <2> QED
      BY <1>f, <2>1, <2>2
  <1>CallFresh. CallFresh'
    <2> SUFFICES ASSUME NEW r \in Side, NEW i \in 1..Len(chan'[r]), chan'[r][i].type = "C"
                 PROVE  /\ chan'[r][i].n \in 0..MaxCalls /\ chan'[r][i].n < nextCallId'[Other(r)]
                      /\ pc'[<<Other(r), chan'[r][i].n>>] = "none"
      BY DEF CallFresh
    <2>1. i + d[r] \in 1..Len(chan[r]) /\ chan'[r][i] = chan[r][i + d[r]]
      OBVIOUS
    <2> QED
      BY <1>f, <2>1, SMTT(20) DEF CallInv, CallFresh, SamePhase
  <1>AnswerServed. AnswerServed'
    <2> SUFFICES ASSUME NEW r \in Side, NEW i \in 1..Len(chan'[r]), chan'[r][i].type \in Answer
                 PROVE  chan'[r][i].n \in 0..MaxCalls /\ pc'[<<r, chan'[r][i].n>>] \in Served
      BY DEF AnswerServed
    <2>1. i + d[r] \in 1..Len(chan[r]) /\ chan'[r][i] = chan[r][i + d[r]]
      OBVIOUS
    <2> QED
      BY <1>f, <2>1 DEF CallInv, AnswerServed, SamePhase
  <1>BroadcastServed. BroadcastServed'
    <2> SUFFICES ASSUME NEW r \in Side, reader'[r] = "broadcast"
                 PROVE  current'[r] \in 0..MaxCalls /\ pc'[<<r, current'[r]>>] \in Served
      BY DEF BroadcastServed
    <2> QED
      BY <1>f DEF CallInv, BroadcastServed, SamePhase
  <1>OneCall. OneCall'
    <2> SUFFICES ASSUME NEW r \in Side, NEW i \in 1..Len(chan'[r]), NEW j \in 1..Len(chan'[r]),
                      chan'[r][i].type = "C", chan'[r][j].type = "C", chan'[r][i].n = chan'[r][j].n
                 PROVE  i = j
      BY DEF OneCall
    <2>1. /\ i + d[r] \in 1..Len(chan[r]) /\ chan'[r][i] = chan[r][i + d[r]]
          /\ j + d[r] \in 1..Len(chan[r]) /\ chan'[r][j] = chan[r][j + d[r]]
      OBVIOUS
    <2>2. i + d[r] = j + d[r]
      BY <2>1 DEF CallInv, OneCall
    <2>3. i \in Int /\ j \in Int /\ d[r] \in Int
      BY <1>f
    <2> QED
      BY <2>2, <2>3
  <1>OneAnswer. OneAnswer'
    <2> SUFFICES ASSUME NEW r \in Side, NEW i \in 1..Len(chan'[r]), NEW j \in 1..Len(chan'[r]),
                      chan'[r][i].type \in Answer, chan'[r][j].type \in Answer, chan'[r][i].n = chan'[r][j].n
                 PROVE  i = j
      BY DEF OneAnswer
    <2>1. /\ i + d[r] \in 1..Len(chan[r]) /\ chan'[r][i] = chan[r][i + d[r]]
          /\ j + d[r] \in 1..Len(chan[r]) /\ chan'[r][j] = chan[r][j + d[r]]
      OBVIOUS
    <2>2. i + d[r] = j + d[r]
      BY <2>1 DEF CallInv, OneAnswer
    <2>3. i \in Int /\ j \in Int /\ d[r] \in Int
      BY <1>f
    <2> QED
      BY <2>2, <2>3
  <1>NotBroadcast. NotBroadcast'
    <2> SUFFICES ASSUME NEW r \in Side, NEW i \in 1..Len(chan'[r]), chan'[r][i].type \in Answer, reader'[r] = "broadcast"
                 PROVE  current'[r] # chan'[r][i].n
      BY DEF NotBroadcast
    <2>1. i + d[r] \in 1..Len(chan[r]) /\ chan'[r][i] = chan[r][i + d[r]]
      OBVIOUS
    <2> QED
      BY <1>f, <2>1 DEF CallInv, NotBroadcast, SamePhase
  <1>SendFresh. SendFresh'
    <2> SUFFICES ASSUME NEW u \in Thread, pc'[u] = "send"
                 PROVE  pc'[<<On(u), callId'[u]>>] = "none"
      BY DEF SendFresh
    <2>1. pc[u] = "send" /\ callId'[u] = callId[u]
      BY DEF SamePhase
    <2>2. <<On(u), callId[u]>> \in Thread
      BY <1>f, <2>1 DEF InCall
    <2>3. pc[<<On(u), callId[u]>>] = "none"
      BY <2>1 DEF CallInv, SendFresh
    <2> QED
      BY <2>1, <2>2, <2>3 DEF SamePhase
  <1>SendUnsent. SendUnsent'
    <2> SUFFICES ASSUME NEW u \in Thread, pc'[u] = "send", NEW i \in 1..Len(chan'[Other(On(u))]),
                      chan'[Other(On(u))][i].type = "C"
                 PROVE  chan'[Other(On(u))][i].n # callId'[u]
      BY DEF SendUnsent
    <2>0. Other(On(u)) \in Side
      OBVIOUS
    <2>1. i + d[Other(On(u))] \in 1..Len(chan[Other(On(u))]) /\ chan'[Other(On(u))][i] = chan[Other(On(u))][i + d[Other(On(u))]]
      BY <2>0
    <2> QED
      BY <1>f, <2>1 DEF CallInv, SendUnsent, SamePhase
  <1>SentNotBroadcast. SentNotBroadcast'
    <2> SUFFICES ASSUME NEW u \in Thread, pc'[u] = "sent", reader'[On(u)] = "broadcast"
                 PROVE  current'[On(u)] # callId'[u]
      BY DEF SentNotBroadcast
    <2> QED
      BY <1>f DEF CallInv, SentNotBroadcast, SamePhase
  <1>TextCall. TextCall'
    <2> SUFFICES ASSUME NEW u \in Thread, InCall(u)', NEW i \in 1..Len(chan'[Other(On(u))]),
                      chan'[Other(On(u))][i].type = "C", chan'[Other(On(u))][i].n = callId'[u]
                 PROVE  chan'[Other(On(u))][i].text = u
      BY DEF TextCall
    <2>0. Other(On(u)) \in Side
      OBVIOUS
    <2>1. i + d[Other(On(u))] \in 1..Len(chan[Other(On(u))]) /\ chan'[Other(On(u))][i] = chan[Other(On(u))][i + d[Other(On(u))]]
      BY <2>0
    <2> QED
      BY <1>f, <2>1, SMTT(20) DEF CallInv, TextCall, SamePhase
  <1>TextWorker. TextWorker'
    <2> SUFFICES ASSUME NEW u \in Thread, InCall(u)', pc'[<<On(u), callId'[u]>>] # "none"
                 PROVE  input'[<<On(u), callId'[u]>>] = u
      BY DEF TextWorker
    <2> QED
      BY <1>f DEF CallInv, TextWorker, SamePhase
  <1>TextAnswer. TextAnswer'
    <2> SUFFICES ASSUME NEW u \in Thread, InCall(u)', NEW i \in 1..Len(chan'[On(u)]),
                      chan'[On(u)][i].type \in Answer, chan'[On(u)][i].n = callId'[u]
                 PROVE  chan'[On(u)][i].text = u
      BY DEF TextAnswer
    <2>0. On(u) \in Side
      OBVIOUS
    <2>1. i + d[On(u)] \in 1..Len(chan[On(u)]) /\ chan'[On(u)][i] = chan[On(u)][i + d[On(u)]]
      BY <2>0
    <2> QED
      BY <1>f, <2>1 DEF CallInv, TextAnswer, SamePhase
  <1>TextBroadcast. TextBroadcast'
    <2> SUFFICES ASSUME NEW u \in Thread, InCall(u)', reader'[On(u)] = "broadcast", current'[On(u)] = callId'[u]
                 PROVE  result'[<<On(u), callId'[u]>>].text = u
      BY DEF TextBroadcast
    <2> QED
      BY <1>f DEF CallInv, TextBroadcast, SamePhase
  <1> QED
    BY <1>Issued, <1>OneCaller, <1>WorkerIssued, <1>CallFresh, <1>AnswerServed, <1>BroadcastServed, <1>OneCall, <1>OneAnswer, <1>NotBroadcast, <1>SendFresh, <1>SendUnsent, <1>SentNotBroadcast, <1>TextCall, <1>TextWorker, <1>TextAnswer, <1>TextBroadcast DEF CallInv

\* HandleCall keeps CallInv.
LEMMA HandleCallCalls ==
  ASSUME TypeInv, TypeInv', CallInv, NEW s \in Side, HandleCall(s)
  PROVE  CallInv'
  <1> USE SideFacts, ThreadFacts DEF Answer
  <1>t. /\ nextCallId \in [Side -> Nat] /\ nextCallId' \in [Side -> Nat]
        /\ callId \in [Thread -> (0..MaxCalls) \cup {NoCall}] /\ NoCall \notin 0..MaxCalls
        /\ \A u \in Thread : InCall(u) => callId[u] \in 0..MaxCalls
        /\ \A r \in Side : Len(chan[r]) \in Nat /\ Len(chan'[r]) \in Nat
    BY CallTypes
  <1> DEFINE m == chan[s][1]
             k == <<Other(s), m.n>>
  <1>1. Message(s, {"C"}) /\ chan' = [chan EXCEPT ![s] = Tail(@)]
    BY DEF HandleCall
  <1>2. m.type = "C" /\ 1 \in 1..Len(chan[s]) /\ m = Head(chan[s])
    BY <1>1, HeadFacts
  <1>3. m.n \in 0..MaxCalls /\ pc[k] = "none" /\ m.n < nextCallId[Other(s)]
    BY <1>2 DEF CallInv, CallFresh
  <1>4. k \in Worker /\ k \in Thread /\ k[1] = Other(s) /\ k[2] = m.n
    BY <1>3
  <1> HIDE DEF m
  <1>5. /\ UNCHANGED <<nextCallId, outstandingCalls, result, reader, current, callId>>
        /\ \/ UNCHANGED <<pc, input>>
           \/ pc' = [pc EXCEPT ![k] = "dispatch"] /\ input' = [input EXCEPT ![k] = m.text]
    BY <1>2 DEF HandleCall, table, readers
  <1>6. /\ \A u \in Thread : u # k => pc'[u] = pc[u]
        /\ \A j \in Worker : j # k => input'[j] = input[j]
        /\ pc'[k] = "none" \/ (pc'[k] = "dispatch" /\ input'[k] = m.text)
    BY <1>3, <1>4, <1>5, SMTT(20) DEF TypeInv, TypeOK
  <1>7. \A u \in Thread : /\ InCall(u)' <=> InCall(u)
                          /\ pc'[u] = "send" <=> pc[u] = "send"
                          /\ pc'[u] = "sent" <=> pc[u] = "sent"
                          /\ pc'[u] \in Served <=> pc[u] \in Served
                          /\ pc[u] = "none" /\ u # k => pc'[u] = "none"
                          /\ pc[u] # "none" => pc'[u] # "none" /\ u # k
    BY <1>3, <1>6 DEF InCall, Served
  <1>8. chan'[Other(s)] = chan[Other(s)]
    BY <1>1, TakeFacts
  <1>9. \A i \in 1..Len(chan'[s]) : i + 1 \in 1..Len(chan[s]) /\ i + 1 # 1 /\ chan'[s][i] = chan[s][i + 1]
    <2>1. Len(chan'[s]) = Len(chan[s]) - 1 /\ \A i \in 1..(Len(chan[s]) - 1) : chan'[s][i] = chan[s][i + 1]
      BY <1>1, TakeFacts
    <2>2. Len(chan[s]) \in Nat
      BY <1>t
    <2> QED
      BY <2>1, <2>2
  <1>10. ASSUME NEW r \in Side, NEW i \in 1..Len(chan'[r])
         PROVE  \E j \in 1..Len(chan[r]) : chan'[r][i] = chan[r][j] /\ (r = s => j # 1)
    BY <1>8, <1>9 DEF Side, Other
  <1>Issued. Issued'
    <2> SUFFICES ASSUME NEW u \in Thread, InCall(u)'
                 PROVE  callId'[u] < nextCallId'[On(u)] /\ callId'[u] \in outstandingCalls'[On(u)]
      BY DEF Issued
    <2> QED
      BY <1>t, <1>5, <1>7 DEF CallInv, Issued
  <1>OneCaller. OneCaller'
    <2> SUFFICES ASSUME NEW u \in Thread, NEW w \in Thread, InCall(u)', InCall(w)', On(u) = On(w), callId'[u] = callId'[w]
                 PROVE  u = w
      BY DEF OneCaller
    <2> QED
      BY <1>t, <1>5, <1>7 DEF CallInv, OneCaller
  <1>WorkerIssued. WorkerIssued'
    <2> SUFFICES ASSUME NEW j \in Worker, pc'[j] # "none"
                 PROVE  j[2] < nextCallId'[j[1]]
      BY DEF WorkerIssued
    <2>1. CASE j = k
      BY <1>3, <1>4, <1>5, <2>1
    <2>2. CASE j # k
      BY <1>5, <1>6, <2>2 DEF CallInv, WorkerIssued
    <2> QED
      BY <2>1, <2>2
  <1>CallFresh. CallFresh'
    <2> SUFFICES ASSUME NEW r \in Side, NEW i \in 1..Len(chan'[r]), chan'[r][i].type = "C"
                 PROVE  /\ chan'[r][i].n \in 0..MaxCalls /\ chan'[r][i].n < nextCallId'[Other(r)]
                      /\ pc'[<<Other(r), chan'[r][i].n>>] = "none"
      BY DEF CallFresh
    <2>1. PICK j \in 1..Len(chan[r]) : chan'[r][i] = chan[r][j] /\ (r = s => j # 1)
      BY <1>10
    <2>2. /\ chan[r][j].n \in 0..MaxCalls /\ chan[r][j].n < nextCallId[Other(r)]
          /\ pc[<<Other(r), chan[r][j].n>>] = "none" /\ chan[r][j].type = "C"
      BY <2>1 DEF CallInv, CallFresh
    <2>3. <<Other(r), chan[r][j].n>> # k
      <3>1. r = s => chan[r][j].n # m.n
        BY <1>2, <2>1, <2>2 DEF CallInv, OneCall, m
      <3> QED
        BY <3>1
    <2>4. <<Other(r), chan[r][j].n>> \in Thread
      BY <2>2
    <2> QED
      BY <1>5, <1>7, <2>1, <2>2, <2>3, <2>4
  <1>AnswerServed. AnswerServed'
    <2> SUFFICES ASSUME NEW r \in Side, NEW i \in 1..Len(chan'[r]), chan'[r][i].type \in Answer
                 PROVE  chan'[r][i].n \in 0..MaxCalls /\ pc'[<<r, chan'[r][i].n>>] \in Served
      BY DEF AnswerServed
    <2>1. PICK j \in 1..Len(chan[r]) : chan'[r][i] = chan[r][j] /\ (r = s => j # 1)
      BY <1>10
    <2>2. chan[r][j].n \in 0..MaxCalls /\ pc[<<r, chan[r][j].n>>] \in Served /\ <<r, chan[r][j].n>> \in Thread
      BY <2>1 DEF CallInv, AnswerServed
    <2> QED
      BY <1>7, <2>1, <2>2
  <1>BroadcastServed. BroadcastServed'
    <2> SUFFICES ASSUME NEW r \in Side, reader'[r] = "broadcast"
                 PROVE  current'[r] \in 0..MaxCalls /\ pc'[<<r, current'[r]>>] \in Served
      BY DEF BroadcastServed
    <2>1. current[r] \in 0..MaxCalls /\ pc[<<r, current[r]>>] \in Served /\ <<r, current[r]>> \in Thread
      BY <1>5 DEF CallInv, BroadcastServed
    <2> QED
      BY <1>5, <1>7, <2>1
  <1>OneCall. OneCall'
    <2> SUFFICES ASSUME NEW r \in Side, NEW i \in 1..Len(chan'[r]), NEW j \in 1..Len(chan'[r]),
                      chan'[r][i].type = "C", chan'[r][j].type = "C", chan'[r][i].n = chan'[r][j].n
                 PROVE  i = j
      BY DEF OneCall
    <2>1. CASE r = s
      <3>1. /\ i + 1 \in 1..Len(chan[r]) /\ chan'[r][i] = chan[r][i + 1]
            /\ j + 1 \in 1..Len(chan[r]) /\ chan'[r][j] = chan[r][j + 1]
        BY <1>9, <2>1
      <3>2. i + 1 = j + 1
        BY <3>1 DEF CallInv, OneCall
      <3> QED
        BY <1>t, <3>2
    <2>2. CASE r = Other(s)
      BY <1>8, <2>2 DEF CallInv, OneCall
    <2> QED
      BY <2>1, <2>2 DEF Side, Other
  <1>OneAnswer. OneAnswer'
    <2> SUFFICES ASSUME NEW r \in Side, NEW i \in 1..Len(chan'[r]), NEW j \in 1..Len(chan'[r]),
                      chan'[r][i].type \in Answer, chan'[r][j].type \in Answer, chan'[r][i].n = chan'[r][j].n
                 PROVE  i = j
      BY DEF OneAnswer
    <2>1. CASE r = s
      <3>1. /\ i + 1 \in 1..Len(chan[r]) /\ chan'[r][i] = chan[r][i + 1]
            /\ j + 1 \in 1..Len(chan[r]) /\ chan'[r][j] = chan[r][j + 1]
        BY <1>9, <2>1
      <3>2. i + 1 = j + 1
        BY <3>1 DEF CallInv, OneAnswer
      <3> QED
        BY <1>t, <3>2
    <2>2. CASE r = Other(s)
      BY <1>8, <2>2 DEF CallInv, OneAnswer
    <2> QED
      BY <2>1, <2>2 DEF Side, Other
  <1>NotBroadcast. NotBroadcast'
    <2> SUFFICES ASSUME NEW r \in Side, NEW i \in 1..Len(chan'[r]), chan'[r][i].type \in Answer, reader'[r] = "broadcast"
                 PROVE  current'[r] # chan'[r][i].n
      BY DEF NotBroadcast
    <2>1. PICK j \in 1..Len(chan[r]) : chan'[r][i] = chan[r][j] /\ (r = s => j # 1)
      BY <1>10
    <2> QED
      BY <1>5, <2>1 DEF CallInv, NotBroadcast
  <1>SendFresh. SendFresh'
    <2> SUFFICES ASSUME NEW u \in Thread, pc'[u] = "send"
                 PROVE  pc'[<<On(u), callId'[u]>>] = "none"
      BY DEF SendFresh
    <2>1. pc[u] = "send" /\ callId[u] \in 0..MaxCalls /\ pc[<<On(u), callId[u]>>] = "none" /\ <<On(u), callId[u]>> \in Thread
      BY <1>t, <1>7 DEF CallInv, SendFresh, InCall
    <2>2. <<On(u), callId[u]>> # k
      <3>1. On(u) = Other(s) => callId[u] # m.n
        BY <1>2, <2>1 DEF CallInv, SendUnsent, m
      <3> QED
        BY <3>1
    <2> QED
      BY <1>5, <1>7, <2>1, <2>2
  <1>SendUnsent. SendUnsent'
    <2> SUFFICES ASSUME NEW u \in Thread, pc'[u] = "send", NEW i \in 1..Len(chan'[Other(On(u))]),
                      chan'[Other(On(u))][i].type = "C"
                 PROVE  chan'[Other(On(u))][i].n # callId'[u]
      BY DEF SendUnsent
    <2>0. Other(On(u)) \in Side
      OBVIOUS
    <2>1. PICK j \in 1..Len(chan[Other(On(u))]) : chan'[Other(On(u))][i] = chan[Other(On(u))][j] /\ (Other(On(u)) = s => j # 1)
      BY <2>0, <1>10
    <2> QED
      BY <1>t, <1>5, <1>7, <2>0, <2>1 DEF CallInv, SendUnsent
  <1>SentNotBroadcast. SentNotBroadcast'
    <2> SUFFICES ASSUME NEW u \in Thread, pc'[u] = "sent", reader'[On(u)] = "broadcast"
                 PROVE  current'[On(u)] # callId'[u]
      BY DEF SentNotBroadcast
    <2> QED
      BY <1>t, <1>5, <1>7 DEF CallInv, SentNotBroadcast
  <1>TextCall. TextCall'
    <2> SUFFICES ASSUME NEW u \in Thread, InCall(u)', NEW i \in 1..Len(chan'[Other(On(u))]),
                      chan'[Other(On(u))][i].type = "C", chan'[Other(On(u))][i].n = callId'[u]
                 PROVE  chan'[Other(On(u))][i].text = u
      BY DEF TextCall
    <2>0. Other(On(u)) \in Side
      OBVIOUS
    <2>1. PICK j \in 1..Len(chan[Other(On(u))]) : chan'[Other(On(u))][i] = chan[Other(On(u))][j] /\ (Other(On(u)) = s => j # 1)
      BY <2>0, <1>10
    <2> QED
      BY <1>t, <1>5, <1>7, <2>0, <2>1, SMTT(20) DEF CallInv, TextCall
  <1>TextWorker. TextWorker'
    <2> SUFFICES ASSUME NEW u \in Thread, InCall(u)', pc'[<<On(u), callId'[u]>>] # "none"
                 PROVE  input'[<<On(u), callId'[u]>>] = u
      BY DEF TextWorker
    <2>1. InCall(u) /\ callId[u] \in 0..MaxCalls /\ <<On(u), callId[u]>> \in Worker /\ callId'[u] = callId[u]
      BY <1>t, <1>5, <1>7
    <2>2. CASE <<On(u), callId[u]>> = k
      <3>1. On(u) = Other(s) /\ callId[u] = m.n
        BY <2>2
      <3>2. m.text = u
        BY <1>2, <2>1, <3>1 DEF CallInv, TextCall, m
      <3> QED
        BY <1>6, <2>1, <2>2, <3>2
    <2>3. CASE <<On(u), callId[u]>> # k
      BY <1>6, <2>1, <2>3 DEF CallInv, TextWorker
    <2> QED
      BY <2>2, <2>3
  <1>TextAnswer. TextAnswer'
    <2> SUFFICES ASSUME NEW u \in Thread, InCall(u)', NEW i \in 1..Len(chan'[On(u)]),
                      chan'[On(u)][i].type \in Answer, chan'[On(u)][i].n = callId'[u]
                 PROVE  chan'[On(u)][i].text = u
      BY DEF TextAnswer
    <2>0. On(u) \in Side
      OBVIOUS
    <2>1. PICK j \in 1..Len(chan[On(u)]) : chan'[On(u)][i] = chan[On(u)][j] /\ (On(u) = s => j # 1)
      BY <2>0, <1>10
    <2> QED
      BY <1>t, <1>5, <1>7, <2>0, <2>1 DEF CallInv, TextAnswer
  <1>TextBroadcast. TextBroadcast'
    <2> SUFFICES ASSUME NEW u \in Thread, InCall(u)', reader'[On(u)] = "broadcast", current'[On(u)] = callId'[u]
                 PROVE  result'[<<On(u), callId'[u]>>].text = u
      BY DEF TextBroadcast
    <2> QED
      BY <1>t, <1>5, <1>7 DEF CallInv, TextBroadcast
  <1> QED
    BY <1>Issued, <1>OneCaller, <1>WorkerIssued, <1>CallFresh, <1>AnswerServed, <1>BroadcastServed, <1>OneCall, <1>OneAnswer, <1>NotBroadcast, <1>SendFresh, <1>SendUnsent, <1>SentNotBroadcast, <1>TextCall, <1>TextWorker, <1>TextAnswer, <1>TextBroadcast DEF CallInv

\* handleReturn of a call that is in outstandingCalls keeps CallInv.
LEMMA ReturnAcceptedCalls ==
  ASSUME TypeInv, TypeInv', CallInv, NEW s \in Side, HandleReturn(s), Head(chan[s]).n \in outstandingCalls[s]
  PROVE  CallInv'
  <1> USE SideFacts, ThreadFacts DEF Answer
  <1>t. /\ nextCallId \in [Side -> Nat] /\ nextCallId' \in [Side -> Nat]
        /\ callId \in [Thread -> (0..MaxCalls) \cup {NoCall}] /\ NoCall \notin 0..MaxCalls
        /\ \A u \in Thread : InCall(u) => callId[u] \in 0..MaxCalls
        /\ \A r \in Side : Len(chan[r]) \in Nat /\ Len(chan'[r]) \in Nat
    BY CallTypes
  <1> DEFINE m == chan[s][1]
  <1>1. Message(s, {"R", "E"}) /\ chan' = [chan EXCEPT ![s] = Tail(@)]
    BY DEF HandleReturn
  <1>2. /\ m.type \in {"R", "E"} /\ m.text \in Thread \cup {NoText}
        /\ 1 \in 1..Len(chan[s]) /\ m = Head(chan[s]) /\ reader[s] = "reading"
    <2>1. reader[s] = "reading"
      BY <1>1 DEF Message
    <2> QED
      BY <1>1, <2>1, HeadFacts
  <1>3. m.n \in 0..MaxCalls /\ pc[<<s, m.n>>] \in Served /\ <<s, m.n>> \in Worker
    BY <1>2 DEF CallInv, AnswerServed
  <1>4. /\ reader' = [reader EXCEPT ![s] = "broadcast"] /\ current' = [current EXCEPT ![s] = m.n]
        /\ result' = [result EXCEPT ![<<s, m.n>>] = [type |-> m.type, text |-> m.text]]
    BY <1>2 DEF HandleReturn
  <1>8g. \A t \in Thread : CallOf(t, s, m.n) => pc[t] \notin {"send", "sent"}
    BY <1>2 DEF HandleReturn
  <1> HIDE DEF m
  <1>5. UNCHANGED <<nextCallId, outstandingCalls, callId, pc, input>>
    BY DEF HandleReturn, threads
  <1>6. /\ reader'[s] = "broadcast" /\ current'[s] = m.n
        /\ \A r \in Side : r # s => reader'[r] = reader[r] /\ current'[r] = current[r]
        /\ result'[<<s, m.n>>].text = m.text
        /\ \A k \in Worker : k # <<s, m.n>> => result'[k] = result[k]
    <2>1. reader \in [Side -> {"none", "reading", "broadcast", "done"}] /\ current \in [Side -> (0..MaxCalls) \cup {NoCall}]
      BY DEF TypeInv, TypeOK
    <2>2. DOMAIN result = Worker
      BY DEF TypeInv, TypeOK
    <2>3. /\ result'[<<s, m.n>>] = [type |-> m.type, text |-> m.text]
          /\ \A k \in Worker : k # <<s, m.n>> => result'[k] = result[k]
      BY <1>3, <1>4, <2>2, Zenon
    <2> QED
      BY <1>4, <2>1, <2>3
  <1>7. \A u \in Thread : InCall(u)' <=> InCall(u)
    BY <1>5 DEF InCall
  <1>8. chan'[Other(s)] = chan[Other(s)]
    BY <1>1, TakeFacts
  <1>9. \A i \in 1..Len(chan'[s]) : i + 1 \in 1..Len(chan[s]) /\ i + 1 # 1 /\ chan'[s][i] = chan[s][i + 1]
    <2>1. Len(chan'[s]) = Len(chan[s]) - 1 /\ \A i \in 1..(Len(chan[s]) - 1) : chan'[s][i] = chan[s][i + 1]
      BY <1>1, TakeFacts
    <2>2. Len(chan[s]) \in Nat
      BY <1>t
    <2> QED
      BY <2>1, <2>2
  <1>10. ASSUME NEW r \in Side, NEW i \in 1..Len(chan'[r])
         PROVE  \E j \in 1..Len(chan[r]) : chan'[r][i] = chan[r][j] /\ (r = s => j # 1)
    BY <1>8, <1>9 DEF Side, Other
  <1>Issued. Issued'
    <2> SUFFICES ASSUME NEW u \in Thread, InCall(u)'
                 PROVE  callId'[u] < nextCallId'[On(u)] /\ callId'[u] \in outstandingCalls'[On(u)]
      BY DEF Issued
    <2> QED
      BY <1>t, <1>5, <1>7 DEF CallInv, Issued
  <1>OneCaller. OneCaller'
    <2> SUFFICES ASSUME NEW u \in Thread, NEW w \in Thread, InCall(u)', InCall(w)', On(u) = On(w), callId'[u] = callId'[w]
                 PROVE  u = w
      BY DEF OneCaller
    <2> QED
      BY <1>t, <1>5, <1>7 DEF CallInv, OneCaller
  <1>WorkerIssued. WorkerIssued'
    <2> SUFFICES ASSUME NEW j \in Worker, pc'[j] # "none"
                 PROVE  j[2] < nextCallId'[j[1]]
      BY DEF WorkerIssued
    <2> QED
      BY <1>t, <1>5, <1>7 DEF CallInv, WorkerIssued
  <1>CallFresh. CallFresh'
    <2> SUFFICES ASSUME NEW r \in Side, NEW i \in 1..Len(chan'[r]), chan'[r][i].type = "C"
                 PROVE  /\ chan'[r][i].n \in 0..MaxCalls /\ chan'[r][i].n < nextCallId'[Other(r)]
                      /\ pc'[<<Other(r), chan'[r][i].n>>] = "none"
      BY DEF CallFresh
    <2>1. PICK j \in 1..Len(chan[r]) : chan'[r][i] = chan[r][j] /\ (r = s => j # 1)
      BY <1>10
    <2> QED
      BY <1>t, <1>5, <1>7, <2>1 DEF CallInv, CallFresh
  <1>AnswerServed. AnswerServed'
    <2> SUFFICES ASSUME NEW r \in Side, NEW i \in 1..Len(chan'[r]), chan'[r][i].type \in Answer
                 PROVE  chan'[r][i].n \in 0..MaxCalls /\ pc'[<<r, chan'[r][i].n>>] \in Served
      BY DEF AnswerServed
    <2>1. PICK j \in 1..Len(chan[r]) : chan'[r][i] = chan[r][j] /\ (r = s => j # 1)
      BY <1>10
    <2> QED
      BY <1>t, <1>5, <1>7, <2>1 DEF CallInv, AnswerServed
  <1>BroadcastServed. BroadcastServed'
    <2> SUFFICES ASSUME NEW r \in Side, reader'[r] = "broadcast"
                 PROVE  current'[r] \in 0..MaxCalls /\ pc'[<<r, current'[r]>>] \in Served
      BY DEF BroadcastServed
    <2>1. CASE r = s
      BY <1>3, <1>5, <1>6, <2>1
    <2>2. CASE r # s
      BY <1>5, <1>6, <2>2 DEF CallInv, BroadcastServed
    <2> QED
      BY <2>1, <2>2
  <1>OneCall. OneCall'
    <2> SUFFICES ASSUME NEW r \in Side, NEW i \in 1..Len(chan'[r]), NEW j \in 1..Len(chan'[r]),
                      chan'[r][i].type = "C", chan'[r][j].type = "C", chan'[r][i].n = chan'[r][j].n
                 PROVE  i = j
      BY DEF OneCall
    <2>1. CASE r = s
      <3>1. /\ i + 1 \in 1..Len(chan[r]) /\ chan'[r][i] = chan[r][i + 1]
            /\ j + 1 \in 1..Len(chan[r]) /\ chan'[r][j] = chan[r][j + 1]
        BY <1>9, <2>1
      <3>2. i + 1 = j + 1
        BY <3>1 DEF CallInv, OneCall
      <3> QED
        BY <1>t, <3>2
    <2>2. CASE r = Other(s)
      BY <1>8, <2>2 DEF CallInv, OneCall
    <2> QED
      BY <2>1, <2>2 DEF Side, Other
  <1>OneAnswer. OneAnswer'
    <2> SUFFICES ASSUME NEW r \in Side, NEW i \in 1..Len(chan'[r]), NEW j \in 1..Len(chan'[r]),
                      chan'[r][i].type \in Answer, chan'[r][j].type \in Answer, chan'[r][i].n = chan'[r][j].n
                 PROVE  i = j
      BY DEF OneAnswer
    <2>1. CASE r = s
      <3>1. /\ i + 1 \in 1..Len(chan[r]) /\ chan'[r][i] = chan[r][i + 1]
            /\ j + 1 \in 1..Len(chan[r]) /\ chan'[r][j] = chan[r][j + 1]
        BY <1>9, <2>1
      <3>2. i + 1 = j + 1
        BY <3>1 DEF CallInv, OneAnswer
      <3> QED
        BY <1>t, <3>2
    <2>2. CASE r = Other(s)
      BY <1>8, <2>2 DEF CallInv, OneAnswer
    <2> QED
      BY <2>1, <2>2 DEF Side, Other
  <1>NotBroadcast. NotBroadcast'
    <2> SUFFICES ASSUME NEW r \in Side, NEW i \in 1..Len(chan'[r]), chan'[r][i].type \in Answer, reader'[r] = "broadcast"
                 PROVE  current'[r] # chan'[r][i].n
      BY DEF NotBroadcast
    <2>1. PICK j \in 1..Len(chan[r]) : chan'[r][i] = chan[r][j] /\ (r = s => j # 1)
      BY <1>10
    <2>2. CASE r = s
      <3>1. chan[r][j].n # m.n
        BY <1>2, <2>1, <2>2 DEF CallInv, OneAnswer, m
      <3> QED
        BY <1>6, <2>1, <2>2, <3>1
    <2>3. CASE r # s
      BY <1>6, <2>1, <2>3 DEF CallInv, NotBroadcast
    <2> QED
      BY <2>2, <2>3
  <1>SendFresh. SendFresh'
    <2> SUFFICES ASSUME NEW u \in Thread, pc'[u] = "send"
                 PROVE  pc'[<<On(u), callId'[u]>>] = "none"
      BY DEF SendFresh
    <2> QED
      BY <1>t, <1>5, <1>7 DEF CallInv, SendFresh
  <1>SendUnsent. SendUnsent'
    <2> SUFFICES ASSUME NEW u \in Thread, pc'[u] = "send", NEW i \in 1..Len(chan'[Other(On(u))]),
                      chan'[Other(On(u))][i].type = "C"
                 PROVE  chan'[Other(On(u))][i].n # callId'[u]
      BY DEF SendUnsent
    <2>0. Other(On(u)) \in Side
      OBVIOUS
    <2>1. PICK j \in 1..Len(chan[Other(On(u))]) : chan'[Other(On(u))][i] = chan[Other(On(u))][j] /\ (Other(On(u)) = s => j # 1)
      BY <2>0, <1>10
    <2> QED
      BY <1>t, <1>5, <1>7, <2>0, <2>1 DEF CallInv, SendUnsent
  <1>SentNotBroadcast. SentNotBroadcast'
    <2> SUFFICES ASSUME NEW u \in Thread, pc'[u] = "sent", reader'[On(u)] = "broadcast"
                 PROVE  current'[On(u)] # callId'[u]
      BY DEF SentNotBroadcast
    <2>1. CASE On(u) = s
      BY <1>5, <1>6, <1>8g, <2>1 DEF CallOf
    <2>2. CASE On(u) # s
      BY <1>5, <1>6, <2>2 DEF CallInv, SentNotBroadcast
    <2> QED
      BY <2>1, <2>2
  <1>TextCall. TextCall'
    <2> SUFFICES ASSUME NEW u \in Thread, InCall(u)', NEW i \in 1..Len(chan'[Other(On(u))]),
                      chan'[Other(On(u))][i].type = "C", chan'[Other(On(u))][i].n = callId'[u]
                 PROVE  chan'[Other(On(u))][i].text = u
      BY DEF TextCall
    <2>0. Other(On(u)) \in Side
      OBVIOUS
    <2>1. PICK j \in 1..Len(chan[Other(On(u))]) : chan'[Other(On(u))][i] = chan[Other(On(u))][j] /\ (Other(On(u)) = s => j # 1)
      BY <2>0, <1>10
    <2> QED
      BY <1>t, <1>5, <1>7, <2>0, <2>1 DEF CallInv, TextCall
  <1>TextWorker. TextWorker'
    <2> SUFFICES ASSUME NEW u \in Thread, InCall(u)', pc'[<<On(u), callId'[u]>>] # "none"
                 PROVE  input'[<<On(u), callId'[u]>>] = u
      BY DEF TextWorker
    <2> QED
      BY <1>t, <1>5, <1>7 DEF CallInv, TextWorker
  <1>TextAnswer. TextAnswer'
    <2> SUFFICES ASSUME NEW u \in Thread, InCall(u)', NEW i \in 1..Len(chan'[On(u)]),
                      chan'[On(u)][i].type \in Answer, chan'[On(u)][i].n = callId'[u]
                 PROVE  chan'[On(u)][i].text = u
      BY DEF TextAnswer
    <2>0. On(u) \in Side
      OBVIOUS
    <2>1. PICK j \in 1..Len(chan[On(u)]) : chan'[On(u)][i] = chan[On(u)][j] /\ (On(u) = s => j # 1)
      BY <2>0, <1>10
    <2> QED
      BY <1>t, <1>5, <1>7, <2>0, <2>1 DEF CallInv, TextAnswer
  <1>TextBroadcast. TextBroadcast'
    <2> SUFFICES ASSUME NEW u \in Thread, InCall(u)', reader'[On(u)] = "broadcast", current'[On(u)] = callId'[u]
                 PROVE  result'[<<On(u), callId'[u]>>].text = u
      BY DEF TextBroadcast
    <2>1. InCall(u) /\ callId[u] \in 0..MaxCalls /\ <<On(u), callId[u]>> \in Worker /\ callId'[u] = callId[u]
      BY <1>t, <1>5, <1>7
    <2>2. CASE On(u) = s
      <3>1. callId[u] = m.n
        BY <1>6, <2>1, <2>2
      <3>2. m.text = u
        BY <1>2, <2>1, <2>2, <3>1 DEF CallInv, TextAnswer, m
      <3> QED
        BY <1>6, <2>1, <2>2, <3>1, <3>2
    <2>3. CASE On(u) # s
      <3>1. reader[On(u)] = "broadcast" /\ current[On(u)] = callId[u]
        BY <1>6, <2>1, <2>3
      <3>2. result[<<On(u), callId[u]>>].text = u
        BY <2>1, <3>1 DEF CallInv, TextBroadcast
      <3>3. <<On(u), callId[u]>> # <<s, m.n>>
        BY <2>3
      <3> QED
        BY <1>6, <2>1, <3>2, <3>3
    <2> QED
      BY <2>2, <2>3
  <1> QED
    BY <1>Issued, <1>OneCaller, <1>WorkerIssued, <1>CallFresh, <1>AnswerServed, <1>BroadcastServed, <1>OneCall, <1>OneAnswer, <1>NotBroadcast, <1>SendFresh, <1>SendUnsent, <1>SentNotBroadcast, <1>TextCall, <1>TextWorker, <1>TextAnswer, <1>TextBroadcast DEF CallInv

\* A new call keeps CallInv: its id is one that no message and no thread has.
LEMMA CallBeginCalls ==
  ASSUME TypeInv, TypeInv', CallInv, NEW t \in Thread, CallBegin(t)
  PROVE  CallInv'
  <1> USE SideFacts, ThreadFacts DEF Answer
  <1>t. /\ nextCallId \in [Side -> Nat] /\ nextCallId' \in [Side -> Nat]
        /\ callId \in [Thread -> (0..MaxCalls) \cup {NoCall}] /\ NoCall \notin 0..MaxCalls
        /\ \A u \in Thread : InCall(u) => callId[u] \in 0..MaxCalls
        /\ \A r \in Side : Len(chan[r]) \in Nat /\ Len(chan'[r]) \in Nat
    BY CallTypes
  <1> DEFINE s == On(t)
             id == nextCallId[s]
  <1>1. /\ s \in Side /\ pc[t] \in {"idle", "dispatch"} /\ id \in 0..MaxCalls
    BY TextRPCAssumption, <1>t DEF CallBegin, HasConnection, FirstId
  <1>2. pc[<<s, id>>] = "none" /\ <<s, id>> \in Worker /\ <<s, id>> \in Thread /\ <<s, id>> # t
    <2>1. <<s, id>> \in Worker /\ <<s, id>>[1] = s /\ <<s, id>>[2] = id
      BY <1>1
    <2>2. ~ (id < nextCallId[s])
      BY <1>t, <1>1
    <2>3. pc[<<s, id>>] = "none"
      BY <2>1, <2>2 DEF CallInv, WorkerIssued
    <2> QED
      BY <1>1, <2>1, <2>3
  <1>3. /\ callId' = [callId EXCEPT ![t] = id] /\ nextCallId' = [nextCallId EXCEPT ![s] = id + 1]
        /\ outstandingCalls' = [outstandingCalls EXCEPT ![s] = @ \cup {id}]
        /\ pc' = [pc EXCEPT ![t] = "send"]
    BY DEF CallBegin
  <1>4. UNCHANGED <<chan, reader, current, result, input>>
    BY DEF CallBegin, readers
  <1> HIDE DEF s, id
  <1>5. \A u \in Thread : u # t => /\ pc'[u] = pc[u] /\ callId'[u] = callId[u]
                                   /\ InCall(u)' <=> InCall(u)
    BY <1>3 DEF TypeInv, TypeOK, InCall
  <1>6. /\ pc'[t] = "send" /\ callId'[t] = id /\ nextCallId'[s] = id + 1 /\ id \in outstandingCalls'[s] /\ s = On(t)
        /\ \A r \in Side : r # s => nextCallId'[r] = nextCallId[r]
        /\ \A r \in Side : nextCallId[r] <= nextCallId'[r] /\ outstandingCalls[r] \subseteq outstandingCalls'[r]
    BY <1>1, <1>3, <1>t DEF TypeInv, TypeOK, s, id
  <1>7. pc'[<<s, id>>] = "none"
    BY <1>2, <1>5
  <1>Issued. Issued'
    <2> SUFFICES ASSUME NEW u \in Thread, InCall(u)'
                 PROVE  callId'[u] < nextCallId'[On(u)] /\ callId'[u] \in outstandingCalls'[On(u)]
      BY DEF Issued
    <2>1. CASE u = t
      BY <1>1, <1>3, <1>6, <2>1
    <2>2. CASE u # t
      <3>1. InCall(u) /\ callId'[u] = callId[u]
        BY <1>5, <2>2
      <3>2. callId[u] < nextCallId[On(u)] /\ callId[u] \in outstandingCalls[On(u)] /\ callId[u] \in 0..MaxCalls
        BY <1>t, <3>1 DEF CallInv, Issued
      <3> QED
        BY <1>t, <1>6, <3>1, <3>2
    <2> QED
      BY <2>1, <2>2
  <1>OneCaller. OneCaller'
    <2> SUFFICES ASSUME NEW u \in Thread, NEW w \in Thread, InCall(u)', InCall(w)', On(u) = On(w), callId'[u] = callId'[w]
                 PROVE  u = w
      BY DEF OneCaller
    <2>1. \A x \in Thread : x # t /\ InCall(x)' => InCall(x) /\ callId'[x] = callId[x]
      BY <1>5
    <2>2. \A x \in Thread : x # t /\ InCall(x) /\ On(x) = On(t) => callId[x] # id
      BY <1>t DEF CallInv, Issued, id, s
    <2> QED
      BY <1>6, <2>1, <2>2 DEF CallInv, OneCaller
  <1>WorkerIssued. WorkerIssued'
    <2> SUFFICES ASSUME NEW j \in Worker, pc'[j] # "none"
                 PROVE  j[2] < nextCallId'[j[1]]
      BY DEF WorkerIssued
    <2>1. pc[j] # "none" /\ j[1] \in Side /\ j[2] \in Int
      BY <1>1, <1>5
    <2>2. j[2] < nextCallId[j[1]]
      BY <2>1 DEF CallInv, WorkerIssued
    <2> QED
      BY <1>t, <1>6, <2>1, <2>2
  <1>CallFresh. CallFresh'
    <2> SUFFICES ASSUME NEW r \in Side, NEW i \in 1..Len(chan'[r]), chan'[r][i].type = "C"
                 PROVE  /\ chan'[r][i].n \in 0..MaxCalls /\ chan'[r][i].n < nextCallId'[Other(r)]
                      /\ pc'[<<Other(r), chan'[r][i].n>>] = "none"
      BY DEF CallFresh
    <2>1. /\ chan[r][i].n \in 0..MaxCalls /\ chan[r][i].n < nextCallId[Other(r)]
          /\ pc[<<Other(r), chan[r][i].n>>] = "none" /\ <<Other(r), chan[r][i].n>> \in Thread
      BY <1>4 DEF CallInv, CallFresh
    <2>2. pc'[<<Other(r), chan[r][i].n>>] = "none"
      BY <1>1, <1>5, <2>1
    <2>3. chan[r][i].n < nextCallId'[Other(r)]
      <3>1. Other(r) \in Side
        OBVIOUS
      <3>2. /\ nextCallId[Other(r)] <= nextCallId'[Other(r)] /\ nextCallId[Other(r)] \in Nat
            /\ nextCallId'[Other(r)] \in Nat
        BY <1>t, <1>6, <3>1
      <3> QED
        BY <2>1, <3>2
    <2> QED
      BY <1>4, <2>1, <2>2, <2>3
  <1>AnswerServed. AnswerServed'
    <2> SUFFICES ASSUME NEW r \in Side, NEW i \in 1..Len(chan'[r]), chan'[r][i].type \in Answer
                 PROVE  chan'[r][i].n \in 0..MaxCalls /\ pc'[<<r, chan'[r][i].n>>] \in Served
      BY DEF AnswerServed
    <2>1. chan[r][i].n \in 0..MaxCalls /\ pc[<<r, chan[r][i].n>>] \in Served /\ <<r, chan[r][i].n>> \in Thread
      BY <1>4 DEF CallInv, AnswerServed
    <2> QED
      BY <1>1, <1>4, <1>5, <2>1 DEF Served
  <1>BroadcastServed. BroadcastServed'
    <2> SUFFICES ASSUME NEW r \in Side, reader'[r] = "broadcast"
                 PROVE  current'[r] \in 0..MaxCalls /\ pc'[<<r, current'[r]>>] \in Served
      BY DEF BroadcastServed
    <2>1. current[r] \in 0..MaxCalls /\ pc[<<r, current[r]>>] \in Served /\ <<r, current[r]>> \in Thread
      BY <1>4 DEF CallInv, BroadcastServed
    <2> QED
      BY <1>1, <1>4, <1>5, <2>1 DEF Served
  <1>OneCall. OneCall'
    <2> SUFFICES ASSUME NEW r \in Side, NEW i \in 1..Len(chan'[r]), NEW j \in 1..Len(chan'[r]),
                      chan'[r][i].type = "C", chan'[r][j].type = "C", chan'[r][i].n = chan'[r][j].n
                 PROVE  i = j
      BY DEF OneCall
    <2> QED
      BY <1>4 DEF CallInv, OneCall
  <1>OneAnswer. OneAnswer'
    <2> SUFFICES ASSUME NEW r \in Side, NEW i \in 1..Len(chan'[r]), NEW j \in 1..Len(chan'[r]),
                      chan'[r][i].type \in Answer, chan'[r][j].type \in Answer, chan'[r][i].n = chan'[r][j].n
                 PROVE  i = j
      BY DEF OneAnswer
    <2> QED
      BY <1>4 DEF CallInv, OneAnswer
  <1>NotBroadcast. NotBroadcast'
    <2> SUFFICES ASSUME NEW r \in Side, NEW i \in 1..Len(chan'[r]), chan'[r][i].type \in Answer, reader'[r] = "broadcast"
                 PROVE  current'[r] # chan'[r][i].n
      BY DEF NotBroadcast
    <2> QED
      BY <1>4 DEF CallInv, NotBroadcast
  <1>SendFresh. SendFresh'
    <2> SUFFICES ASSUME NEW u \in Thread, pc'[u] = "send"
                 PROVE  pc'[<<On(u), callId'[u]>>] = "none"
      BY DEF SendFresh
    <2>1. CASE u = t
      BY <1>2, <1>6, <1>7, <2>1
    <2>2. CASE u # t
      <3>1. pc[u] = "send" /\ callId'[u] = callId[u] /\ callId[u] \in 0..MaxCalls
        BY <1>t, <1>5, <2>2 DEF InCall
      <3>2. pc[<<On(u), callId[u]>>] = "none" /\ <<On(u), callId[u]>> \in Thread
        BY <3>1 DEF CallInv, SendFresh
      <3> QED
        BY <1>1, <1>5, <3>1, <3>2
    <2> QED
      BY <2>1, <2>2
  <1>SendUnsent. SendUnsent'
    <2> SUFFICES ASSUME NEW u \in Thread, pc'[u] = "send", NEW i \in 1..Len(chan'[Other(On(u))]),
                      chan'[Other(On(u))][i].type = "C"
                 PROVE  chan'[Other(On(u))][i].n # callId'[u]
      BY DEF SendUnsent
    <2>1. CASE u = t
      <3>1. /\ chan[Other(s)][i].n \in 0..MaxCalls /\ chan[Other(s)][i].n < nextCallId[s]
        BY <1>4, <1>6, <2>1 DEF CallInv, CallFresh
      <3> QED
        BY <1>2, <1>4, <1>6, <2>1, <3>1 DEF id
    <2>2. CASE u # t
      BY <1>4, <1>5, <2>2 DEF CallInv, SendUnsent
    <2> QED
      BY <2>1, <2>2
  <1>SentNotBroadcast. SentNotBroadcast'
    <2> SUFFICES ASSUME NEW u \in Thread, pc'[u] = "sent", reader'[On(u)] = "broadcast"
                 PROVE  current'[On(u)] # callId'[u]
      BY DEF SentNotBroadcast
    <2>1. CASE u = t
      BY <1>6, <2>1
    <2>2. CASE u # t
      BY <1>4, <1>5, <2>2 DEF CallInv, SentNotBroadcast
    <2> QED
      BY <2>1, <2>2
  <1>TextCall. TextCall'
    <2> SUFFICES ASSUME NEW u \in Thread, InCall(u)', NEW i \in 1..Len(chan'[Other(On(u))]),
                      chan'[Other(On(u))][i].type = "C", chan'[Other(On(u))][i].n = callId'[u]
                 PROVE  chan'[Other(On(u))][i].text = u
      BY DEF TextCall
    <2>1. CASE u = t
      <3>1. /\ chan[Other(s)][i].n \in 0..MaxCalls /\ chan[Other(s)][i].n < nextCallId[s]
        BY <1>4, <1>6, <2>1 DEF CallInv, CallFresh
      <3> QED
        BY <1>2, <1>4, <1>6, <2>1, <3>1 DEF id
    <2>2. CASE u # t
      BY <1>4, <1>5, <2>2 DEF CallInv, TextCall
    <2> QED
      BY <2>1, <2>2
  <1>TextWorker. TextWorker'
    <2> SUFFICES ASSUME NEW u \in Thread, InCall(u)', pc'[<<On(u), callId'[u]>>] # "none"
                 PROVE  input'[<<On(u), callId'[u]>>] = u
      BY DEF TextWorker
    <2>1. CASE u = t
      BY <1>6, <1>7, <2>1
    <2>2. CASE u # t
      <3>1. InCall(u) /\ callId'[u] = callId[u] /\ callId[u] \in 0..MaxCalls
        BY <1>t, <1>5, <2>2
      <3>2. <<On(u), callId[u]>> \in Thread /\ pc[<<On(u), callId[u]>>] # "none"
        BY <1>1, <1>5, <3>1
      <3> QED
        BY <1>4, <3>1, <3>2 DEF CallInv, TextWorker
    <2> QED
      BY <2>1, <2>2
  <1>TextAnswer. TextAnswer'
    <2> SUFFICES ASSUME NEW u \in Thread, InCall(u)', NEW i \in 1..Len(chan'[On(u)]),
                      chan'[On(u)][i].type \in Answer, chan'[On(u)][i].n = callId'[u]
                 PROVE  chan'[On(u)][i].text = u
      BY DEF TextAnswer
    <2>1. CASE u = t
      <3>1. pc[<<s, chan[s][i].n>>] \in Served
        BY <1>4, <1>6, <2>1 DEF CallInv, AnswerServed
      <3> QED
        BY <1>2, <1>4, <1>6, <2>1, <3>1 DEF Served
    <2>2. CASE u # t
      BY <1>4, <1>5, <2>2 DEF CallInv, TextAnswer
    <2> QED
      BY <2>1, <2>2
  <1>TextBroadcast. TextBroadcast'
    <2> SUFFICES ASSUME NEW u \in Thread, InCall(u)', reader'[On(u)] = "broadcast", current'[On(u)] = callId'[u]
                 PROVE  result'[<<On(u), callId'[u]>>].text = u
      BY DEF TextBroadcast
    <2>1. CASE u = t
      <3>1. pc[<<s, current[s]>>] \in Served
        BY <1>4, <1>6, <2>1 DEF CallInv, BroadcastServed
      <3> QED
        BY <1>2, <1>4, <1>6, <2>1, <3>1 DEF Served
    <2>2. CASE u # t
      BY <1>4, <1>5, <2>2 DEF CallInv, TextBroadcast
    <2> QED
      BY <2>1, <2>2
  <1> QED
    BY <1>Issued, <1>OneCaller, <1>WorkerIssued, <1>CallFresh, <1>AnswerServed, <1>BroadcastServed, <1>OneCall, <1>OneAnswer, <1>NotBroadcast, <1>SendFresh, <1>SendUnsent, <1>SentNotBroadcast, <1>TextCall, <1>TextWorker, <1>TextAnswer, <1>TextBroadcast DEF CallInv

\* Sending the call keeps CallInv.
LEMMA CallSentCalls ==
  ASSUME TypeInv, TypeInv', CallInv, NEW t \in Thread, CallSent(t)
  PROVE  CallInv'
  <1> USE SideFacts, ThreadFacts DEF Answer
  <1>t. /\ nextCallId \in [Side -> Nat] /\ nextCallId' \in [Side -> Nat]
        /\ callId \in [Thread -> (0..MaxCalls) \cup {NoCall}] /\ NoCall \notin 0..MaxCalls
        /\ \A u \in Thread : InCall(u) => callId[u] \in 0..MaxCalls
        /\ \A r \in Side : Len(chan[r]) \in Nat /\ Len(chan'[r]) \in Nat
    BY CallTypes
  <1> DEFINE s == On(t)
             x == Other(s)
             m == [type |-> "C", n |-> callId[t], text |-> t]
  <1>1. pc[t] = "send" /\ InCall(t)
    BY DEF CallSent, InCall
  <1>2. s \in Side /\ x \in Side /\ callId[t] \in 0..MaxCalls /\ <<s, callId[t]>> \in Worker /\ <<s, callId[t]>> \in Thread
    BY <1>1, <1>t
  <1>3. pc' = [pc EXCEPT ![t] = "sent"]
    BY DEF CallSent
  <1>4. UNCHANGED <<nextCallId, outstandingCalls, callId, reader, current, result, input>>
    BY DEF CallSent, readers, table
  <1>5. \A u \in Thread : /\ InCall(u)' <=> InCall(u)
                          /\ pc'[u] = "none" <=> pc[u] = "none"
                          /\ pc'[u] = "send" => pc[u] = "send"
                          /\ pc'[u] \in Served <=> pc[u] \in Served
                          /\ u # t => pc'[u] = pc[u]
    BY <1>1, <1>3 DEF TypeInv, TypeOK, InCall, Served
  <1>5t. pc'[t] = "sent"
    BY <1>3 DEF TypeInv, TypeOK
  <1>6. x = Other(On(t)) /\ m.type = "C" /\ m.n = callId[t] /\ m.text = t /\ Other(x) = On(t) /\ s = On(t)
    OBVIOUS
  <1>7. sock_send(s, "C", callId[t], t) /\ callId[t] \in Nat
    BY <1>2 DEF CallSent
  <1> HIDE DEF m, x, s
  <1>8. ASSUME NEW r \in Side, NEW i \in 1..Len(chan'[r])
        PROVE  \/ i \in 1..Len(chan[r]) /\ chan'[r][i] = chan[r][i]
               \/ r = x /\ i = Len(chan[r]) + 1 /\ chan'[r][i] = m
    <2>1. /\ chan'[s] = chan[s] /\ (broken => chan' = chan)
          /\ ~broken => /\ Len(chan'[x]) = Len(chan[x]) + 1
                        /\ \A j \in 1..Len(chan[x]) : chan'[x][j] = chan[x][j]
                        /\ chan'[x][Len(chan[x]) + 1] = m
      BY <1>2, <1>7, SendFacts DEF m, x
    <2>2. r = s \/ r = x
      BY <1>2 DEF x, Side, Other
    <2>3. Len(chan[r]) \in Nat
      BY <1>t
    <2> QED
      BY <2>1, <2>2, <2>3
  <1>Issued. Issued'
    <2> SUFFICES ASSUME NEW u \in Thread, InCall(u)'
                 PROVE  callId'[u] < nextCallId'[On(u)] /\ callId'[u] \in outstandingCalls'[On(u)]
      BY DEF Issued
    <2> QED
      BY <1>t, <1>4, <1>5, <1>6 DEF CallInv, Issued
  <1>OneCaller. OneCaller'
    <2> SUFFICES ASSUME NEW u \in Thread, NEW w \in Thread, InCall(u)', InCall(w)', On(u) = On(w), callId'[u] = callId'[w]
                 PROVE  u = w
      BY DEF OneCaller
    <2> QED
      BY <1>t, <1>4, <1>5, <1>6 DEF CallInv, OneCaller
  <1>WorkerIssued. WorkerIssued'
    <2> SUFFICES ASSUME NEW j \in Worker, pc'[j] # "none"
                 PROVE  j[2] < nextCallId'[j[1]]
      BY DEF WorkerIssued
    <2> QED
      BY <1>4, <1>5 DEF CallInv, WorkerIssued
  <1>CallFresh. CallFresh'
    <2> SUFFICES ASSUME NEW r \in Side, NEW i \in 1..Len(chan'[r]), chan'[r][i].type = "C"
                 PROVE  /\ chan'[r][i].n \in 0..MaxCalls /\ chan'[r][i].n < nextCallId'[Other(r)]
                      /\ pc'[<<Other(r), chan'[r][i].n>>] = "none"
      BY DEF CallFresh
    <2>1. CASE i \in 1..Len(chan[r]) /\ chan'[r][i] = chan[r][i]
      <3>1. /\ chan[r][i].n \in 0..MaxCalls /\ chan[r][i].n < nextCallId[Other(r)]
            /\ pc[<<Other(r), chan[r][i].n>>] = "none" /\ <<Other(r), chan[r][i].n>> \in Thread
        BY <2>1 DEF CallInv, CallFresh
      <3> QED
        BY <1>4, <1>5, <2>1, <3>1
    <2>2. CASE r = x /\ i = Len(chan[r]) + 1 /\ chan'[r][i] = m
      <3>1. <<s, callId[t]>> \in Thread /\ s = Other(x) /\ m.n = callId[t]
        BY <1>2, <1>6
      <3>2. pc[<<s, callId[t]>>] = "none" /\ callId[t] < nextCallId[s]
        BY <1>1, <1>2, <1>6 DEF CallInv, Issued, SendFresh
      <3> QED
        BY <1>2, <1>4, <1>5, <2>2, <3>1, <3>2
    <2> QED
      BY <1>8, <2>1, <2>2
  <1>AnswerServed. AnswerServed'
    <2> SUFFICES ASSUME NEW r \in Side, NEW i \in 1..Len(chan'[r]), chan'[r][i].type \in Answer
                 PROVE  chan'[r][i].n \in 0..MaxCalls /\ pc'[<<r, chan'[r][i].n>>] \in Served
      BY DEF AnswerServed
    <2>1. CASE i \in 1..Len(chan[r]) /\ chan'[r][i] = chan[r][i]
      <3>1. chan[r][i].n \in 0..MaxCalls /\ pc[<<r, chan[r][i].n>>] \in Served /\ <<r, chan[r][i].n>> \in Thread
        BY <2>1 DEF CallInv, AnswerServed
      <3> QED
        BY <1>5, <2>1, <3>1
    <2>2. CASE r = x /\ i = Len(chan[r]) + 1 /\ chan'[r][i] = m
      BY <1>6, <2>2
    <2> QED
      BY <1>8, <2>1, <2>2
  <1>BroadcastServed. BroadcastServed'
    <2> SUFFICES ASSUME NEW r \in Side, reader'[r] = "broadcast"
                 PROVE  current'[r] \in 0..MaxCalls /\ pc'[<<r, current'[r]>>] \in Served
      BY DEF BroadcastServed
    <2>1. current[r] \in 0..MaxCalls /\ pc[<<r, current[r]>>] \in Served /\ <<r, current[r]>> \in Thread
      BY <1>4 DEF CallInv, BroadcastServed
    <2> QED
      BY <1>4, <1>5, <2>1
  <1>OneCall. OneCall'
    <2> SUFFICES ASSUME NEW r \in Side, NEW i \in 1..Len(chan'[r]), NEW j \in 1..Len(chan'[r]),
                      chan'[r][i].type = "C", chan'[r][j].type = "C", chan'[r][i].n = chan'[r][j].n
                 PROVE  i = j
      BY DEF OneCall
    <2> DEFINE Old(z) == z \in 1..Len(chan[r]) /\ chan'[r][z] = chan[r][z]
               New(z) == r = x /\ z = Len(chan[r]) + 1 /\ chan'[r][z] = m
    <2>0. (Old(i) \/ New(i)) /\ (Old(j) \/ New(j))
      BY <1>8
    <2>1. ASSUME NEW z \in 1..Len(chan'[r]), NEW y \in 1..Len(chan'[r]), Old(z), New(y),
                 chan'[r][z].type = chan'[r][y].type \/ (chan'[r][z].type \in Answer /\ chan'[r][y].type \in Answer),
                 chan'[r][z].n = chan'[r][y].n
          PROVE  FALSE
      <3>1. chan[r][z].type = "C" /\ chan[r][z].n = callId[t] /\ r = Other(On(t))
        BY <1>6, <2>1
      <3> QED
        BY <1>1, <2>1, <3>1 DEF CallInv, SendUnsent
    <2>2. CASE Old(i) /\ Old(j)
      BY <2>2 DEF CallInv, OneCall
    <2>3. CASE New(i) /\ New(j)
      BY <2>3
    <2>4. CASE Old(i) /\ New(j)
      BY <2>1, <2>4
    <2>5. CASE New(i) /\ Old(j)
      BY <2>1, <2>5
    <2> QED
      BY <2>0, <2>2, <2>3, <2>4, <2>5
  <1>OneAnswer. OneAnswer'
    <2> SUFFICES ASSUME NEW r \in Side, NEW i \in 1..Len(chan'[r]), NEW j \in 1..Len(chan'[r]),
                      chan'[r][i].type \in Answer, chan'[r][j].type \in Answer, chan'[r][i].n = chan'[r][j].n
                 PROVE  i = j
      BY DEF OneAnswer
    <2>1. CASE i \in 1..Len(chan[r]) /\ chan'[r][i] = chan[r][i]
      BY <1>6, <1>8, <2>1 DEF CallInv, OneAnswer
    <2>2. CASE r = x /\ i = Len(chan[r]) + 1 /\ chan'[r][i] = m
      BY <1>6, <2>2
    <2> QED
      BY <1>8, <2>1, <2>2
  <1>NotBroadcast. NotBroadcast'
    <2> SUFFICES ASSUME NEW r \in Side, NEW i \in 1..Len(chan'[r]), chan'[r][i].type \in Answer, reader'[r] = "broadcast"
                 PROVE  current'[r] # chan'[r][i].n
      BY DEF NotBroadcast
    <2>1. CASE i \in 1..Len(chan[r]) /\ chan'[r][i] = chan[r][i]
      BY <1>4, <2>1 DEF CallInv, NotBroadcast
    <2>2. CASE r = x /\ i = Len(chan[r]) + 1 /\ chan'[r][i] = m
      BY <1>6, <2>2
    <2> QED
      BY <1>8, <2>1, <2>2
  <1>SendFresh. SendFresh'
    <2> SUFFICES ASSUME NEW u \in Thread, pc'[u] = "send"
                 PROVE  pc'[<<On(u), callId'[u]>>] = "none"
      BY DEF SendFresh
    <2>1. u # t /\ pc[u] = "send" /\ callId[u] \in 0..MaxCalls
      BY <1>t, <1>5, <1>5t DEF InCall
    <2>2. pc[<<On(u), callId[u]>>] = "none" /\ <<On(u), callId[u]>> \in Thread
      BY <2>1 DEF CallInv, SendFresh
    <2> QED
      BY <1>4, <1>5, <2>2
  <1>SendUnsent. SendUnsent'
    <2> SUFFICES ASSUME NEW u \in Thread, pc'[u] = "send", NEW i \in 1..Len(chan'[Other(On(u))]),
                      chan'[Other(On(u))][i].type = "C"
                 PROVE  chan'[Other(On(u))][i].n # callId'[u]
      BY DEF SendUnsent
    <2>0. Other(On(u)) \in Side
      OBVIOUS
    <2>1. CASE i \in 1..Len(chan[Other(On(u))]) /\ chan'[Other(On(u))][i] = chan[Other(On(u))][i]
      <3>1. pc[u] = "send"
        BY <1>5
      <3> QED
        BY <1>4, <2>1, <3>1 DEF CallInv, SendUnsent
    <2>2. CASE Other(On(u)) = x /\ i = Len(chan[Other(On(u))]) + 1 /\ chan'[Other(On(u))][i] = m
      <3>1. u # t /\ pc[u] = "send" /\ InCall(u) /\ InCall(t) /\ On(u) = On(t)
        BY <1>1, <1>5, <1>5t, <1>6, <2>2 DEF InCall
      <3>2. callId[u] # callId[t]
        BY <3>1 DEF CallInv, OneCaller
      <3> QED
        BY <1>4, <1>6, <2>2, <3>2
    <2> QED
      BY <2>0, <1>8, <2>1, <2>2
  <1>SentNotBroadcast. SentNotBroadcast'
    <2> SUFFICES ASSUME NEW u \in Thread, pc'[u] = "sent", reader'[On(u)] = "broadcast"
                 PROVE  current'[On(u)] # callId'[u]
      BY DEF SentNotBroadcast
    <2>1. CASE u = t
      <3>1. pc[<<On(t), callId[t]>>] = "none"
        BY <1>1 DEF CallInv, SendFresh
      <3>2. pc[<<On(t), current[On(t)]>>] \in Served
        BY <1>4, <2>1 DEF CallInv, BroadcastServed
      <3> QED
        BY <1>4, <2>1, <3>1, <3>2 DEF Served
    <2>2. CASE u # t
      BY <1>4, <1>5, <2>2 DEF CallInv, SentNotBroadcast
    <2> QED
      BY <2>1, <2>2
  <1>TextCall. TextCall'
    <2> SUFFICES ASSUME NEW u \in Thread, InCall(u)', NEW i \in 1..Len(chan'[Other(On(u))]),
                      chan'[Other(On(u))][i].type = "C", chan'[Other(On(u))][i].n = callId'[u]
                 PROVE  chan'[Other(On(u))][i].text = u
      BY DEF TextCall
    <2>0. Other(On(u)) \in Side
      OBVIOUS
    <2>1. CASE i \in 1..Len(chan[Other(On(u))]) /\ chan'[Other(On(u))][i] = chan[Other(On(u))][i]
      BY <1>4, <1>5, <2>1 DEF CallInv, TextCall
    <2>2. CASE Other(On(u)) = x /\ i = Len(chan[Other(On(u))]) + 1 /\ chan'[Other(On(u))][i] = m
      <3>1. InCall(u) /\ InCall(t) /\ On(u) = On(t) /\ callId[u] = callId[t]
        BY <1>1, <1>4, <1>5, <1>6, <2>2 DEF InCall
      <3>2. u = t
        BY <3>1 DEF CallInv, OneCaller
      <3> QED
        BY <1>6, <2>2, <3>2
    <2> QED
      BY <2>0, <1>8, <2>1, <2>2
  <1>TextWorker. TextWorker'
    <2> SUFFICES ASSUME NEW u \in Thread, InCall(u)', pc'[<<On(u), callId'[u]>>] # "none"
                 PROVE  input'[<<On(u), callId'[u]>>] = u
      BY DEF TextWorker
    <2>1. InCall(u) /\ callId[u] \in 0..MaxCalls /\ <<On(u), callId[u]>> \in Thread
      BY <1>t, <1>5
    <2> QED
      BY <1>4, <1>5, <2>1 DEF CallInv, TextWorker
  <1>TextAnswer. TextAnswer'
    <2> SUFFICES ASSUME NEW u \in Thread, InCall(u)', NEW i \in 1..Len(chan'[On(u)]),
                      chan'[On(u)][i].type \in Answer, chan'[On(u)][i].n = callId'[u]
                 PROVE  chan'[On(u)][i].text = u
      BY DEF TextAnswer
    <2>0. On(u) \in Side
      OBVIOUS
    <2>1. CASE i \in 1..Len(chan[On(u)]) /\ chan'[On(u)][i] = chan[On(u)][i]
      BY <1>4, <1>5, <2>1 DEF CallInv, TextAnswer
    <2>2. CASE On(u) = x /\ i = Len(chan[On(u)]) + 1 /\ chan'[On(u)][i] = m
      BY <1>6, <2>2
    <2> QED
      BY <2>0, <1>8, <2>1, <2>2
  <1>TextBroadcast. TextBroadcast'
    <2> SUFFICES ASSUME NEW u \in Thread, InCall(u)', reader'[On(u)] = "broadcast", current'[On(u)] = callId'[u]
                 PROVE  result'[<<On(u), callId'[u]>>].text = u
      BY DEF TextBroadcast
    <2> QED
      BY <1>t, <1>4, <1>5, <1>6 DEF CallInv, TextBroadcast
  <1> QED
    BY <1>Issued, <1>OneCaller, <1>WorkerIssued, <1>CallFresh, <1>AnswerServed, <1>BroadcastServed, <1>OneCall, <1>OneAnswer, <1>NotBroadcast, <1>SendFresh, <1>SendUnsent, <1>SentNotBroadcast, <1>TextCall, <1>TextWorker, <1>TextAnswer, <1>TextBroadcast DEF CallInv

\* The end of textRPC_call keeps CallInv.
LEMMA CallEndCalls ==
  ASSUME TypeInv, TypeInv', CallInv, NEW t \in Thread, CallEnd(t)
  PROVE  CallInv'
  <1> USE SideFacts, ThreadFacts DEF Answer
  <1>t. /\ nextCallId \in [Side -> Nat] /\ nextCallId' \in [Side -> Nat]
        /\ callId \in [Thread -> (0..MaxCalls) \cup {NoCall}] /\ NoCall \notin 0..MaxCalls
        /\ \A u \in Thread : InCall(u) => callId[u] \in 0..MaxCalls
        /\ \A r \in Side : Len(chan[r]) \in Nat /\ Len(chan'[r]) \in Nat
    BY CallTypes
  <1>1. pc[t] = "woken" /\ InCall(t)
    BY DEF CallEnd, InCall
  <1>2. PICK end \in {"idle", "result"} : pc' = [pc EXCEPT ![t] = end]
    BY DEF CallEnd
  <1>3. callId' = [callId EXCEPT ![t] = NoCall]
    BY DEF CallEnd
  <1>4. UNCHANGED <<nextCallId, chan, reader, current, result, input>>
    BY DEF CallEnd, readers
  <1>5. \A u \in Thread : /\ InCall(u)' <=> InCall(u) /\ u # t
                          /\ pc'[u] = "none" <=> pc[u] = "none"
                          /\ pc'[u] = "send" <=> pc[u] = "send"
                          /\ pc'[u] = "sent" <=> pc[u] = "sent"
                          /\ pc'[u] \in Served <=> pc[u] \in Served
    <2>1. pc'[t] = end /\ \A u \in Thread : u # t => pc'[u] = pc[u]
      BY <1>2, PcMoved
    <2> QED
      BY <1>1, <2>1 DEF InCall, Served
  <1>6. \A u \in Thread : /\ u # t => callId'[u] = callId[u]
                          /\ pc[u] \in {"send", "sent"} => u # t
    BY <1>1, <1>3 DEF TypeInv, TypeOK
  <1>7. \A r \in Side : \A id \in outstandingCalls[r] : (r = On(t) => id # callId[t]) => id \in outstandingCalls'[r]
    BY DEF CallEnd, TypeInv, TypeOK
  <1>Issued. Issued'
    <2> SUFFICES ASSUME NEW u \in Thread, InCall(u)'
                 PROVE  callId'[u] < nextCallId'[On(u)] /\ callId'[u] \in outstandingCalls'[On(u)]
      BY DEF Issued
    <2>1. u # t /\ InCall(u) /\ callId'[u] = callId[u] /\ callId[u] \in 0..MaxCalls
      BY <1>t, <1>5, <1>6
    <2>2. callId[u] < nextCallId[On(u)] /\ callId[u] \in outstandingCalls[On(u)]
      BY <2>1 DEF CallInv, Issued
    <2>3. On(u) = On(t) => callId[u] # callId[t]
      BY <1>1, <2>1 DEF CallInv, OneCaller
    <2> QED
      BY <1>4, <1>7, <2>1, <2>2, <2>3
  <1>OneCaller. OneCaller'
    <2> SUFFICES ASSUME NEW u \in Thread, NEW w \in Thread, InCall(u)', InCall(w)', On(u) = On(w), callId'[u] = callId'[w]
                 PROVE  u = w
      BY DEF OneCaller
    <2> QED
      BY <1>5, <1>6 DEF CallInv, OneCaller
  <1>WorkerIssued. WorkerIssued'
    <2> SUFFICES ASSUME NEW j \in Worker, pc'[j] # "none"
                 PROVE  j[2] < nextCallId'[j[1]]
      BY DEF WorkerIssued
    <2> QED
      BY <1>4, <1>5 DEF CallInv, WorkerIssued
  <1>CallFresh. CallFresh'
    <2> SUFFICES ASSUME NEW r \in Side, NEW i \in 1..Len(chan'[r]), chan'[r][i].type = "C"
                 PROVE  /\ chan'[r][i].n \in 0..MaxCalls /\ chan'[r][i].n < nextCallId'[Other(r)]
                      /\ pc'[<<Other(r), chan'[r][i].n>>] = "none"
      BY DEF CallFresh
    <2>1. /\ chan[r][i].n \in 0..MaxCalls /\ chan[r][i].n < nextCallId[Other(r)]
          /\ pc[<<Other(r), chan[r][i].n>>] = "none" /\ <<Other(r), chan[r][i].n>> \in Thread
      BY <1>4 DEF CallInv, CallFresh
    <2> QED
      BY <1>4, <1>5, <2>1
  <1>AnswerServed. AnswerServed'
    <2> SUFFICES ASSUME NEW r \in Side, NEW i \in 1..Len(chan'[r]), chan'[r][i].type \in Answer
                 PROVE  chan'[r][i].n \in 0..MaxCalls /\ pc'[<<r, chan'[r][i].n>>] \in Served
      BY DEF AnswerServed
    <2>1. chan[r][i].n \in 0..MaxCalls /\ pc[<<r, chan[r][i].n>>] \in Served /\ <<r, chan[r][i].n>> \in Thread
      BY <1>4 DEF CallInv, AnswerServed
    <2> QED
      BY <1>4, <1>5, <2>1
  <1>BroadcastServed. BroadcastServed'
    <2> SUFFICES ASSUME NEW r \in Side, reader'[r] = "broadcast"
                 PROVE  current'[r] \in 0..MaxCalls /\ pc'[<<r, current'[r]>>] \in Served
      BY DEF BroadcastServed
    <2>1. current[r] \in 0..MaxCalls /\ pc[<<r, current[r]>>] \in Served /\ <<r, current[r]>> \in Thread
      BY <1>4 DEF CallInv, BroadcastServed
    <2> QED
      BY <1>4, <1>5, <2>1
  <1>OneCall. OneCall'
    <2> SUFFICES ASSUME NEW r \in Side, NEW i \in 1..Len(chan'[r]), NEW j \in 1..Len(chan'[r]),
                      chan'[r][i].type = "C", chan'[r][j].type = "C", chan'[r][i].n = chan'[r][j].n
                 PROVE  i = j
      BY DEF OneCall
    <2> QED
      BY <1>4 DEF CallInv, OneCall
  <1>OneAnswer. OneAnswer'
    <2> SUFFICES ASSUME NEW r \in Side, NEW i \in 1..Len(chan'[r]), NEW j \in 1..Len(chan'[r]),
                      chan'[r][i].type \in Answer, chan'[r][j].type \in Answer, chan'[r][i].n = chan'[r][j].n
                 PROVE  i = j
      BY DEF OneAnswer
    <2> QED
      BY <1>4 DEF CallInv, OneAnswer
  <1>NotBroadcast. NotBroadcast'
    <2> SUFFICES ASSUME NEW r \in Side, NEW i \in 1..Len(chan'[r]), chan'[r][i].type \in Answer, reader'[r] = "broadcast"
                 PROVE  current'[r] # chan'[r][i].n
      BY DEF NotBroadcast
    <2> QED
      BY <1>4 DEF CallInv, NotBroadcast
  <1>SendFresh. SendFresh'
    <2> SUFFICES ASSUME NEW u \in Thread, pc'[u] = "send"
                 PROVE  pc'[<<On(u), callId'[u]>>] = "none"
      BY DEF SendFresh
    <2>1. u # t /\ pc[u] = "send" /\ callId[u] \in 0..MaxCalls /\ callId'[u] = callId[u]
      BY <1>t, <1>5, <1>6 DEF InCall
    <2>2. pc[<<On(u), callId[u]>>] = "none" /\ <<On(u), callId[u]>> \in Thread
      BY <2>1 DEF CallInv, SendFresh
    <2> QED
      BY <1>5, <2>1, <2>2
  <1>SendUnsent. SendUnsent'
    <2> SUFFICES ASSUME NEW u \in Thread, pc'[u] = "send", NEW i \in 1..Len(chan'[Other(On(u))]),
                      chan'[Other(On(u))][i].type = "C"
                 PROVE  chan'[Other(On(u))][i].n # callId'[u]
      BY DEF SendUnsent
    <2> QED
      BY <1>4, <1>5, <1>6 DEF CallInv, SendUnsent
  <1>SentNotBroadcast. SentNotBroadcast'
    <2> SUFFICES ASSUME NEW u \in Thread, pc'[u] = "sent", reader'[On(u)] = "broadcast"
                 PROVE  current'[On(u)] # callId'[u]
      BY DEF SentNotBroadcast
    <2> QED
      BY <1>4, <1>5, <1>6 DEF CallInv, SentNotBroadcast
  <1>TextCall. TextCall'
    <2> SUFFICES ASSUME NEW u \in Thread, InCall(u)', NEW i \in 1..Len(chan'[Other(On(u))]),
                      chan'[Other(On(u))][i].type = "C", chan'[Other(On(u))][i].n = callId'[u]
                 PROVE  chan'[Other(On(u))][i].text = u
      BY DEF TextCall
    <2> QED
      BY <1>4, <1>5, <1>6 DEF CallInv, TextCall
  <1>TextWorker. TextWorker'
    <2> SUFFICES ASSUME NEW u \in Thread, InCall(u)', pc'[<<On(u), callId'[u]>>] # "none"
                 PROVE  input'[<<On(u), callId'[u]>>] = u
      BY DEF TextWorker
    <2>1. u # t /\ InCall(u) /\ callId'[u] = callId[u] /\ callId[u] \in 0..MaxCalls /\ <<On(u), callId[u]>> \in Thread
      BY <1>t, <1>5, <1>6
    <2> QED
      BY <1>4, <1>5, <2>1 DEF CallInv, TextWorker
  <1>TextAnswer. TextAnswer'
    <2> SUFFICES ASSUME NEW u \in Thread, InCall(u)', NEW i \in 1..Len(chan'[On(u)]),
                      chan'[On(u)][i].type \in Answer, chan'[On(u)][i].n = callId'[u]
                 PROVE  chan'[On(u)][i].text = u
      BY DEF TextAnswer
    <2> QED
      BY <1>4, <1>5, <1>6 DEF CallInv, TextAnswer
  <1>TextBroadcast. TextBroadcast'
    <2> SUFFICES ASSUME NEW u \in Thread, InCall(u)', reader'[On(u)] = "broadcast", current'[On(u)] = callId'[u]
                 PROVE  result'[<<On(u), callId'[u]>>].text = u
      BY DEF TextBroadcast
    <2> QED
      BY <1>4, <1>5, <1>6 DEF CallInv, TextBroadcast
  <1> QED
    BY <1>Issued, <1>OneCaller, <1>WorkerIssued, <1>CallFresh, <1>AnswerServed, <1>BroadcastServed, <1>OneCall, <1>OneAnswer, <1>NotBroadcast, <1>SendFresh, <1>SendUnsent, <1>SentNotBroadcast, <1>TextCall, <1>TextWorker, <1>TextAnswer, <1>TextBroadcast DEF CallInv

\* The messages under way after an answer was sent.
LEMMA ReplySent ==
  ASSUME TypeInv, NEW k \in Worker, NEW type \in Answer, NEW end \in Served, Replied(k, type, end),
         NEW r \in Side, NEW i \in 1..Len(chan'[r])
  PROVE  \/ i \in 1..Len(chan[r]) /\ chan'[r][i] = chan[r][i]
         \/ r = k[1] /\ i = Len(chan[r]) + 1 /\ chan'[r][i] = [type |-> type, n |-> k[2], text |-> input[k]]
  <1>1. PICK s \in Side, x \in Side, n \in Nat : s = On(k) /\ x = k[1] /\ Other(s) = x /\ n = k[2]
    BY ThreadFacts, SideFacts
  <1>2. PICK text \in Thread \cup {NoText} : text = input[k]
    BY DEF TypeInv, TypeOK
  <1>3. sock_send(s, type, n, text)
    BY <1>1, <1>2 DEF Replied
  <1>4. type \in {"request", "version", "C", "R", "E"}
    BY DEF Answer
  <1>5. /\ chan'[s] = chan[s] /\ (broken => chan' = chan)
        /\ ~broken => /\ Len(chan'[Other(s)]) = Len(chan[Other(s)]) + 1
                      /\ \A j \in 1..Len(chan[Other(s)]) : chan'[Other(s)][j] = chan[Other(s)][j]
                      /\ chan'[Other(s)][Len(chan[Other(s)]) + 1] = [type |-> type, n |-> n, text |-> text]
    BY <1>3, <1>4, SendFacts, SMTT(20)
  <1>6. r = s \/ r = x
    BY <1>1 DEF Side, Other
  <1>7. Len(chan[r]) \in Nat
    BY DEF TypeInv
  <1>8. \/ i \in 1..Len(chan[r]) /\ chan'[r][i] = chan[r][i]
        \/ r = x /\ i = Len(chan[r]) + 1 /\ chan'[r][i] = [type |-> type, n |-> n, text |-> text]
    BY <1>1, <1>5, <1>6, <1>7
  <1> QED
    BY <1>1, <1>2, <1>8, Zenon

\* The answer of call_threadFunc keeps CallInv.
LEMMA RepliedCalls ==
  ASSUME TypeInv, TypeInv', CallInv, NEW k \in Worker, NEW type \in Answer, NEW end \in Served, Replied(k, type, end)
  PROVE  CallInv'
  <1>s. \A r \in Side : \A i \in 1..Len(chan'[r]) :
          \/ i \in 1..Len(chan[r]) /\ chan'[r][i] = chan[r][i]
          \/ r = k[1] /\ i = Len(chan[r]) + 1 /\ chan'[r][i] = [type |-> type, n |-> k[2], text |-> input[k]]
    BY ReplySent
  <1> USE SideFacts, ThreadFacts DEF Answer
  <1>t. /\ nextCallId \in [Side -> Nat] /\ nextCallId' \in [Side -> Nat]
        /\ callId \in [Thread -> (0..MaxCalls) \cup {NoCall}] /\ NoCall \notin 0..MaxCalls
        /\ \A u \in Thread : InCall(u) => callId[u] \in 0..MaxCalls
        /\ \A r \in Side : Len(chan[r]) \in Nat /\ Len(chan'[r]) \in Nat
    BY CallTypes
  <1> DEFINE x == k[1]
             m == [type |-> type, n |-> k[2], text |-> input[k]]
  <1>1. pc[k] \in {"dispatch", "result"} /\ pc[k] # "none"
    BY DEF Replied
  <1>2. k \in Thread /\ k = <<k[1], k[2]>> /\ k[1] \in Side /\ k[2] \in 0..MaxCalls /\ On(k) = Other(k[1])
    OBVIOUS
  <1>3. pc' = [pc EXCEPT ![k] = end]
    BY DEF Replied
  <1>4. UNCHANGED <<nextCallId, outstandingCalls, callId, reader, current, result, input>>
    BY DEF Replied, readers, table
  <1>5. \A u \in Thread : /\ InCall(u)' <=> InCall(u)
                          /\ pc'[u] = "none" <=> pc[u] = "none"
                          /\ pc'[u] = "send" <=> pc[u] = "send"
                          /\ pc'[u] = "sent" <=> pc[u] = "sent"
                          /\ pc[u] \in Served => pc'[u] \in Served
    <2>1. pc'[k] = end /\ \A u \in Thread : u # k => pc'[u] = pc[u]
      BY <1>2, <1>3, PcMoved
    <2> QED
      BY <1>1, <2>1 DEF InCall, Served
  <1>5t. pc'[k] \in Served
    BY <1>2, <1>3 DEF TypeInv, TypeOK
  <1>6. x = k[1] /\ m.type \in Answer /\ m.type # "C" /\ m.n = k[2] /\ m.text = input[k]
    OBVIOUS
  <1>7. sock_send(On(k), type, k[2], input[k]) /\ k[2] \in Nat /\ input[k] \in Thread \cup {NoText}
        /\ type \in {"request", "version", "C", "R", "E"}
    BY <1>2, SMTT(20) DEF Replied, TypeInv, TypeOK
  <1> HIDE DEF m, x
  <1>8. ASSUME NEW r \in Side, NEW i \in 1..Len(chan'[r])
        PROVE  \/ i \in 1..Len(chan[r]) /\ chan'[r][i] = chan[r][i]
               \/ r = x /\ i = Len(chan[r]) + 1 /\ chan'[r][i] = m
    BY <1>s DEF m, x
  <1>Issued. Issued'
    <2> SUFFICES ASSUME NEW u \in Thread, InCall(u)'
                 PROVE  callId'[u] < nextCallId'[On(u)] /\ callId'[u] \in outstandingCalls'[On(u)]
      BY DEF Issued
    <2> QED
      BY <1>4, <1>5 DEF CallInv, Issued
  <1>OneCaller. OneCaller'
    <2> SUFFICES ASSUME NEW u \in Thread, NEW w \in Thread, InCall(u)', InCall(w)', On(u) = On(w), callId'[u] = callId'[w]
                 PROVE  u = w
      BY DEF OneCaller
    <2> QED
      BY <1>4, <1>5 DEF CallInv, OneCaller
  <1>WorkerIssued. WorkerIssued'
    <2> SUFFICES ASSUME NEW j \in Worker, pc'[j] # "none"
                 PROVE  j[2] < nextCallId'[j[1]]
      BY DEF WorkerIssued
    <2> QED
      BY <1>4, <1>5 DEF CallInv, WorkerIssued
  <1>CallFresh. CallFresh'
    <2> SUFFICES ASSUME NEW r \in Side, NEW i \in 1..Len(chan'[r]), chan'[r][i].type = "C"
                 PROVE  /\ chan'[r][i].n \in 0..MaxCalls /\ chan'[r][i].n < nextCallId'[Other(r)]
                      /\ pc'[<<Other(r), chan'[r][i].n>>] = "none"
      BY DEF CallFresh
    <2>1. CASE i \in 1..Len(chan[r]) /\ chan'[r][i] = chan[r][i]
      <3>1. /\ chan[r][i].n \in 0..MaxCalls /\ chan[r][i].n < nextCallId[Other(r)]
            /\ pc[<<Other(r), chan[r][i].n>>] = "none" /\ <<Other(r), chan[r][i].n>> \in Thread
        BY <2>1 DEF CallInv, CallFresh
      <3> QED
        BY <1>4, <1>5, <2>1, <3>1
    <2>2. CASE r = x /\ i = Len(chan[r]) + 1 /\ chan'[r][i] = m
      BY <1>6, <2>2
    <2> QED
      BY <1>8, <2>1, <2>2
  <1>AnswerServed. AnswerServed'
    <2> SUFFICES ASSUME NEW r \in Side, NEW i \in 1..Len(chan'[r]), chan'[r][i].type \in Answer
                 PROVE  chan'[r][i].n \in 0..MaxCalls /\ pc'[<<r, chan'[r][i].n>>] \in Served
      BY DEF AnswerServed
    <2>1. CASE i \in 1..Len(chan[r]) /\ chan'[r][i] = chan[r][i]
      <3>1. chan[r][i].n \in 0..MaxCalls /\ pc[<<r, chan[r][i].n>>] \in Served /\ <<r, chan[r][i].n>> \in Thread
        BY <2>1 DEF CallInv, AnswerServed
      <3> QED
        BY <1>5, <2>1, <3>1
    <2>2. CASE r = x /\ i = Len(chan[r]) + 1 /\ chan'[r][i] = m
      BY <1>2, <1>5t, <1>6, <2>2
    <2> QED
      BY <1>8, <2>1, <2>2
  <1>BroadcastServed. BroadcastServed'
    <2> SUFFICES ASSUME NEW r \in Side, reader'[r] = "broadcast"
                 PROVE  current'[r] \in 0..MaxCalls /\ pc'[<<r, current'[r]>>] \in Served
      BY DEF BroadcastServed
    <2>1. current[r] \in 0..MaxCalls /\ pc[<<r, current[r]>>] \in Served /\ <<r, current[r]>> \in Thread
      BY <1>4 DEF CallInv, BroadcastServed
    <2> QED
      BY <1>4, <1>5, <2>1
  <1>OneCall. OneCall'
    <2> SUFFICES ASSUME NEW r \in Side, NEW i \in 1..Len(chan'[r]), NEW j \in 1..Len(chan'[r]),
                      chan'[r][i].type = "C", chan'[r][j].type = "C", chan'[r][i].n = chan'[r][j].n
                 PROVE  i = j
      BY DEF OneCall
    <2>1. CASE i \in 1..Len(chan[r]) /\ chan'[r][i] = chan[r][i]
      BY <1>6, <1>8, <2>1, SMTT(20) DEF CallInv, OneCall
    <2>2. CASE r = x /\ i = Len(chan[r]) + 1 /\ chan'[r][i] = m
      BY <1>6, <2>2
    <2> QED
      BY <1>8, <2>1, <2>2
  <1>OneAnswer. OneAnswer'
    <2> SUFFICES ASSUME NEW r \in Side, NEW i \in 1..Len(chan'[r]), NEW j \in 1..Len(chan'[r]),
                      chan'[r][i].type \in Answer, chan'[r][j].type \in Answer, chan'[r][i].n = chan'[r][j].n
                 PROVE  i = j
      BY DEF OneAnswer
    <2> DEFINE Old(z) == z \in 1..Len(chan[r]) /\ chan'[r][z] = chan[r][z]
               New(z) == r = x /\ z = Len(chan[r]) + 1 /\ chan'[r][z] = m
    <2>0. (Old(i) \/ New(i)) /\ (Old(j) \/ New(j))
      BY <1>8
    <2>1. ASSUME NEW z \in 1..Len(chan'[r]), NEW y \in 1..Len(chan'[r]), Old(z), New(y),
                 chan'[r][z].type = chan'[r][y].type \/ (chan'[r][z].type \in Answer /\ chan'[r][y].type \in Answer),
                 chan'[r][z].n = chan'[r][y].n
          PROVE  FALSE
      <3>1. chan[r][z].type \in Answer /\ chan[r][z].n = k[2] /\ r = k[1]
        BY <1>6, <2>1
      <3>2. pc[k] \in Served
        BY <1>2, <2>1, <3>1 DEF CallInv, AnswerServed
      <3> QED
        BY <1>1, <3>2 DEF Served
    <2>2. CASE Old(i) /\ Old(j)
      BY <2>2 DEF CallInv, OneAnswer
    <2>3. CASE New(i) /\ New(j)
      BY <2>3
    <2>4. CASE Old(i) /\ New(j)
      BY <2>1, <2>4
    <2>5. CASE New(i) /\ Old(j)
      BY <2>1, <2>5
    <2> QED
      BY <2>0, <2>2, <2>3, <2>4, <2>5
  <1>NotBroadcast. NotBroadcast'
    <2> SUFFICES ASSUME NEW r \in Side, NEW i \in 1..Len(chan'[r]), chan'[r][i].type \in Answer, reader'[r] = "broadcast"
                 PROVE  current'[r] # chan'[r][i].n
      BY DEF NotBroadcast
    <2>1. CASE i \in 1..Len(chan[r]) /\ chan'[r][i] = chan[r][i]
      BY <1>4, <2>1 DEF CallInv, NotBroadcast
    <2>2. CASE r = x /\ i = Len(chan[r]) + 1 /\ chan'[r][i] = m
      <3>1. pc[<<r, current[r]>>] \in Served
        BY <1>4 DEF CallInv, BroadcastServed
      <3> QED
        BY <1>1, <1>2, <1>4, <1>6, <2>2, <3>1 DEF Served
    <2> QED
      BY <1>8, <2>1, <2>2
  <1>SendFresh. SendFresh'
    <2> SUFFICES ASSUME NEW u \in Thread, pc'[u] = "send"
                 PROVE  pc'[<<On(u), callId'[u]>>] = "none"
      BY DEF SendFresh
    <2>1. pc[u] = "send" /\ callId[u] \in 0..MaxCalls
      BY <1>t, <1>5 DEF InCall
    <2>2. pc[<<On(u), callId[u]>>] = "none" /\ <<On(u), callId[u]>> \in Thread
      BY <2>1 DEF CallInv, SendFresh
    <2> QED
      BY <1>4, <1>5, <2>2
  <1>SendUnsent. SendUnsent'
    <2> SUFFICES ASSUME NEW u \in Thread, pc'[u] = "send", NEW i \in 1..Len(chan'[Other(On(u))]),
                      chan'[Other(On(u))][i].type = "C"
                 PROVE  chan'[Other(On(u))][i].n # callId'[u]
      BY DEF SendUnsent
    <2>0. Other(On(u)) \in Side
      OBVIOUS
    <2>1. CASE i \in 1..Len(chan[Other(On(u))]) /\ chan'[Other(On(u))][i] = chan[Other(On(u))][i]
      BY <1>4, <1>5, <2>1 DEF CallInv, SendUnsent
    <2>2. CASE Other(On(u)) = x /\ i = Len(chan[Other(On(u))]) + 1 /\ chan'[Other(On(u))][i] = m
      BY <1>6, <2>2
    <2> QED
      BY <2>0, <1>8, <2>1, <2>2
  <1>SentNotBroadcast. SentNotBroadcast'
    <2> SUFFICES ASSUME NEW u \in Thread, pc'[u] = "sent", reader'[On(u)] = "broadcast"
                 PROVE  current'[On(u)] # callId'[u]
      BY DEF SentNotBroadcast
    <2> QED
      BY <1>4, <1>5 DEF CallInv, SentNotBroadcast
  <1>TextCall. TextCall'
    <2> SUFFICES ASSUME NEW u \in Thread, InCall(u)', NEW i \in 1..Len(chan'[Other(On(u))]),
                      chan'[Other(On(u))][i].type = "C", chan'[Other(On(u))][i].n = callId'[u]
                 PROVE  chan'[Other(On(u))][i].text = u
      BY DEF TextCall
    <2>0. Other(On(u)) \in Side
      OBVIOUS
    <2>1. CASE i \in 1..Len(chan[Other(On(u))]) /\ chan'[Other(On(u))][i] = chan[Other(On(u))][i]
      BY <1>4, <1>5, <2>1 DEF CallInv, TextCall
    <2>2. CASE Other(On(u)) = x /\ i = Len(chan[Other(On(u))]) + 1 /\ chan'[Other(On(u))][i] = m
      BY <1>6, <2>2
    <2> QED
      BY <2>0, <1>8, <2>1, <2>2
  <1>TextWorker. TextWorker'
    <2> SUFFICES ASSUME NEW u \in Thread, InCall(u)', pc'[<<On(u), callId'[u]>>] # "none"
                 PROVE  input'[<<On(u), callId'[u]>>] = u
      BY DEF TextWorker
    <2>1. InCall(u) /\ callId[u] \in 0..MaxCalls /\ <<On(u), callId[u]>> \in Thread
      BY <1>t, <1>5
    <2> QED
      BY <1>4, <1>5, <2>1 DEF CallInv, TextWorker
  <1>TextAnswer. TextAnswer'
    <2> SUFFICES ASSUME NEW u \in Thread, InCall(u)', NEW i \in 1..Len(chan'[On(u)]),
                      chan'[On(u)][i].type \in Answer, chan'[On(u)][i].n = callId'[u]
                 PROVE  chan'[On(u)][i].text = u
      BY DEF TextAnswer
    <2>0. On(u) \in Side
      OBVIOUS
    <2>1. CASE i \in 1..Len(chan[On(u)]) /\ chan'[On(u)][i] = chan[On(u)][i]
      BY <1>4, <1>5, <2>1 DEF CallInv, TextAnswer
    <2>2. CASE On(u) = x /\ i = Len(chan[On(u)]) + 1 /\ chan'[On(u)][i] = m
      <3>1. InCall(u) /\ callId[u] = k[2] /\ On(u) = k[1]
        BY <1>4, <1>5, <1>6, <2>2
      <3>2. <<On(u), callId[u]>> = k
        BY <1>2, <3>1
      <3>3. input[k] = u
        BY <1>1, <3>1, <3>2 DEF CallInv, TextWorker
      <3> QED
        BY <1>6, <2>2, <3>3
    <2> QED
      BY <2>0, <1>8, <2>1, <2>2
  <1>TextBroadcast. TextBroadcast'
    <2> SUFFICES ASSUME NEW u \in Thread, InCall(u)', reader'[On(u)] = "broadcast", current'[On(u)] = callId'[u]
                 PROVE  result'[<<On(u), callId'[u]>>].text = u
      BY DEF TextBroadcast
    <2> QED
      BY <1>4, <1>5 DEF CallInv, TextBroadcast
  <1> QED
    BY <1>Issued, <1>OneCaller, <1>WorkerIssued, <1>CallFresh, <1>AnswerServed, <1>BroadcastServed, <1>OneCall, <1>OneAnswer, <1>NotBroadcast, <1>SendFresh, <1>SendUnsent, <1>SentNotBroadcast, <1>TextCall, <1>TextWorker, <1>TextAnswer, <1>TextBroadcast DEF CallInv

\* Every step keeps CallInv.
LEMMA CallStep ==
  ASSUME TypeInv, TypeInv', StartInv, CallInv, Next
  PROVE  CallInv'
  <1> USE SideFacts DEF connection, table, readers, setup, threads
  <1>0. /\ \A r \in Side : Len(chan[r]) \in Nat /\ Len(chan'[r]) \in Nat
        /\ nextCallId \in [Side -> Nat] /\ reader \in [Side -> {"none", "reading", "broadcast", "done"}]
    BY DEF TypeInv, TypeOK
  <1>1. pc' = pc => \A t \in Thread : SamePhase(t)
    BY DEF SamePhase, InCall
  <1>2. ASSUME UNCHANGED <<callId, input, outstandingCalls, result, chan>>, \A t \in Thread : SamePhase(t),
               \A s \in Side : nextCallId[s] <= nextCallId'[s],
               \A s \in Side : reader'[s] = "broadcast" => reader[s] = "broadcast" /\ current'[s] = current[s]
        PROVE  CallInv'
    <2> DEFINE d == [s \in Side |-> 0]
    <2>1. d \in [Side -> {0, 1}] /\ \A s \in Side : d[s] = 0
      OBVIOUS
    <2> HIDE DEF d
    <2>2. \A s \in Side : \A i \in 1..Len(chan'[s]) : i + d[s] \in 1..Len(chan[s]) /\ chan'[s][i] = chan[s][i + d[s]]
      BY <1>0, <1>2, <2>1
    <2> QED
      BY <1>2, <2>1, <2>2, CallKept
  <1>3. ASSUME NEW s \in Side, UNCHANGED <<callId, input, outstandingCalls, result, pc, nextCallId, reader, current>>,
               Len(chan'[s]) = Len(chan[s]) - 1, \A i \in 1..(Len(chan[s]) - 1) : chan'[s][i] = chan[s][i + 1],
               \A i \in 1..Len(chan'[Other(s)]) :
                  \/ chan'[Other(s)][i].type \notin {"C", "R", "E"}
                  \/ i \in 1..Len(chan[Other(s)]) /\ chan'[Other(s)][i] = chan[Other(s)][i]
        PROVE  CallInv'
    <2> DEFINE d == [r \in Side |-> IF r = s THEN 1 ELSE 0]
    <2>1. d \in [Side -> {0, 1}] /\ d[s] = 1 /\ d[Other(s)] = 0
      OBVIOUS
    <2> HIDE DEF d
    <2>2. ASSUME NEW r \in Side, NEW i \in 1..Len(chan'[r])
          PROVE  \/ chan'[r][i].type \notin {"C", "R", "E"}
                 \/ i + d[r] \in 1..Len(chan[r]) /\ chan'[r][i] = chan[r][i + d[r]]
      <3>1. CASE r = s
        BY <1>0, <1>3, <2>1, <3>1, SMTT(20)
      <3>2. CASE r = Other(s)
        <4>1. i + 0 = i
          BY <1>0
        <4> QED
          BY <1>3, <2>1, <3>2, <4>1
      <3> QED
        BY <3>1, <3>2 DEF Side, Other
    <2>3. \A r \in Side : nextCallId[r] <= nextCallId'[r]
      BY <1>0, <1>3
    <2> QED
      BY <1>1, <1>3, <2>1, <2>2, <2>3, CallKept
  <1>4. CASE CrashStep
    BY <1>0, <1>1, <1>2, <1>4 DEF CrashStep, Crash
  <1>5. CASE Quiet
    <2>1. /\ UNCHANGED <<callId, input, outstandingCalls, result, chan, pc, nextCallId, current>>
          /\ \A s \in Side : reader'[s] = "broadcast" => reader[s] = "broadcast"
      BY <1>0, <1>5 DEF Quiet, ClientWait, ClientCreated, SpuriousInit, HandleDisconnect, callConnectionOpened
    <2> QED
      BY <1>0, <1>1, <1>2, <2>1
  <1>6. CASE ClientConnect \/ ServerAccept
    <2>1. /\ UNCHANGED <<callId, input, outstandingCalls, result, chan, pc, current>>
          /\ \A s \in Side : reader'[s] = "broadcast" => reader[s] = "broadcast"
      BY <1>0, <1>6 DEF ClientConnect, ServerAccept
    <2>2. \A s \in Side : nextCallId[s] <= nextCallId'[s]
      BY <1>0, <1>6 DEF ClientConnect, ServerAccept, StartInv, Side
    <2> QED
      BY <1>1, <1>2, <2>1, <2>2
  <1>7. CASE NegotiateSend
    <2> DEFINE d == [s \in Side |-> 0]
    <2>1. d \in [Side -> {0, 1}] /\ \A s \in Side : d[s] = 0
      OBVIOUS
    <2> HIDE DEF d
    <2>2. /\ UNCHANGED <<callId, input, outstandingCalls, result, pc, nextCallId, reader, current>>
          /\ sock_send("server", "request", Latest["server"], NoText)
      BY <1>7 DEF NegotiateSend
    <2>3. /\ chan'["server"] = chan["server"] /\ (broken => chan' = chan)
          /\ ~broken => /\ Len(chan'["client"]) = Len(chan["client"]) + 1
                        /\ \A i \in 1..Len(chan["client"]) : chan'["client"][i] = chan["client"][i]
                        /\ chan'["client"][Len(chan["client"]) + 1] = [type |-> "request", n |-> Latest["server"], text |-> NoText]
      BY <2>2, SendFacts, TextRPCAssumption
    <2>4. ~broken => chan'["client"][Len(chan["client"]) + 1].type = "request"
      BY <2>3
    <2>5. ASSUME NEW r \in Side, NEW i \in 1..Len(chan'[r])
          PROVE  \/ chan'[r][i].type \notin {"C", "R", "E"}
                 \/ i + d[r] \in 1..Len(chan[r]) /\ chan'[r][i] = chan[r][i + d[r]]
      <3>1. i + 0 = i
        BY <1>0
      <3>2. Len(chan["client"]) \in Nat
        BY <1>0
      <3> QED
        BY <2>1, <2>3, <2>4, <3>1, <3>2, SMTT(20) DEF Side
    <2>6. \A r \in Side : nextCallId[r] <= nextCallId'[r]
      BY <1>0, <2>2
    <2> QED
      BY <1>1, <2>1, <2>2, <2>5, <2>6, CallKept
  <1>8. CASE Break
    <2> DEFINE d == [s \in Side |-> 0]
    <2>1. d \in [Side -> {0, 1}] /\ \A s \in Side : d[s] = 0
      OBVIOUS
    <2> HIDE DEF d
    <2>2. \A s \in Side : Len(chan'[s]) \in 0..Len(chan[s]) /\ \A i \in 1..Len(chan'[s]) : chan'[s][i] = chan[s][i]
      BY <1>8, BreakFacts
    <2>3. \A s \in Side : \A i \in 1..Len(chan'[s]) : i + d[s] \in 1..Len(chan[s]) /\ chan'[s][i] = chan[s][i + d[s]]
      BY <1>0, <2>1, <2>2
    <2>4. UNCHANGED <<callId, input, outstandingCalls, result, pc, nextCallId, reader, current>>
      BY <1>8 DEF Break
    <2>5. \A r \in Side : nextCallId[r] <= nextCallId'[r]
      BY <1>0, <2>4
    <2> QED
      BY <1>1, <2>1, <2>3, <2>4, <2>5, CallKept
  <1>9. ASSUME NEW s \in Side, ReadSteps(s) PROVE CallInv'
    <2>1. CASE RequestAnswered(s)
      <3>1. UNCHANGED <<callId, input, outstandingCalls, result, pc, nextCallId, reader, current>>
        BY <2>1 DEF RequestAnswered
      <3>2. /\ Len(chan'[s]) = Len(chan[s]) - 1
            /\ \A i \in 1..(Len(chan[s]) - 1) : chan'[s][i] = chan[s][i + 1]
            /\ broken => chan'[Other(s)] = chan[Other(s)]
            /\ ~broken =>
                 /\ Len(chan'[Other(s)]) = Len(chan[Other(s)]) + 1
                 /\ \A i \in 1..Len(chan[Other(s)]) : chan'[Other(s)][i] = chan[Other(s)][i]
                 /\ chan'[Other(s)][Len(chan[Other(s)]) + 1] =
                      [type |-> "version", n |-> Negotiated(s, Head(chan[s]).n), text |-> NoText]
        BY <2>1, RequestFacts, Zenon
      <3>a. ~broken => chan'[Other(s)][Len(chan[Other(s)]) + 1].type = "version"
        BY <3>2
      <3>3. Len(chan[Other(s)]) \in Nat
        BY <1>0
      <3>4. \A i \in 1..Len(chan'[Other(s)]) :
              \/ chan'[Other(s)][i].type \notin {"C", "R", "E"}
              \/ i \in 1..Len(chan[Other(s)]) /\ chan'[Other(s)][i] = chan[Other(s)][i]
        BY <3>2, <3>a, <3>3
      <3> QED
        BY <1>3, <3>1, <3>2, <3>4
    <2>2. ASSUME NEW types, Message(s, types), chan' = [chan EXCEPT ![s] = Tail(@)],
                 UNCHANGED <<callId, input, outstandingCalls, result, pc, nextCallId, reader, current>>
          PROVE  CallInv'
      <3>1. /\ chan'[Other(s)] = chan[Other(s)] /\ Len(chan'[s]) = Len(chan[s]) - 1
            /\ \A i \in 1..(Len(chan[s]) - 1) : chan'[s][i] = chan[s][i + 1]
        BY <2>2, TakeFacts
      <3> QED
        BY <1>3, <2>2, <3>1
    <2>3. CASE HandleVersion(s)
      BY <2>2, <2>3 DEF HandleVersion
    <2>4. CASE HandleCall(s)
      BY <2>4, HandleCallCalls
    <2>5. CASE HandleReturn(s) /\ Head(chan[s]).n \in outstandingCalls[s]
      BY <2>5, ReturnAcceptedCalls
    <2>6. CASE HandleReturn(s) /\ Head(chan[s]).n \notin outstandingCalls[s]
      BY <2>2, <2>6 DEF HandleReturn
    <2>7. CASE ReturnBroadcast(s)
      <3>1. UNCHANGED <<callId, input, outstandingCalls, result, nextCallId, chan>>
        BY <2>7 DEF ReturnBroadcast
      <3>2. \A r \in Side : reader'[r] = "broadcast" => reader[r] = "broadcast" /\ current'[r] = current[r]
        BY <2>7 DEF ReturnBroadcast, TypeInv, TypeOK
      <3>3. \A t \in Thread : pc'[t] = pc[t] \/ (pc[t] = "wait" /\ pc'[t] = "woken")
        BY <2>7 DEF ReturnBroadcast
      <3>4. \A t \in Thread : SamePhase(t)
        BY <3>3 DEF SamePhase, InCall, Served
      <3> QED
        BY <1>0, <1>2, <3>1, <3>2, <3>4
    <2> QED
      BY <1>9, <2>1, <2>3, <2>4, <2>5, <2>6, <2>7 DEF ReadSteps
  <1>10. ASSUME NEW t \in Thread, CallSteps(t) PROVE CallInv'
    <2>1. CASE CallWait(t) \/ SpuriousWakeup(t)
      <3>1. UNCHANGED <<callId, input, outstandingCalls, result, nextCallId, chan, reader, current>>
        BY <2>1 DEF CallWait, SpuriousWakeup
      <3>2. \/ pc[t] = "sent" /\ pc' = [pc EXCEPT ![t] = "wait"]
            \/ pc[t] = "wait" /\ pc' = [pc EXCEPT ![t] = "woken"]
        BY <2>1 DEF CallWait, SpuriousWakeup
      <3>3. /\ \A u \in Thread : u # t => pc'[u] = pc[u]
            /\ \/ pc[t] = "sent" /\ pc'[t] = "wait"
               \/ pc[t] = "wait" /\ pc'[t] = "woken"
        <4>1. CASE pc[t] = "sent" /\ pc' = [pc EXCEPT ![t] = "wait"]
          BY <4>1, PcMoved, Zenon
        <4>2. CASE pc[t] = "wait" /\ pc' = [pc EXCEPT ![t] = "woken"]
          BY <4>2, PcMoved, Zenon
        <4> QED
          BY <3>2, <4>1, <4>2
      <3>4. \A u \in Thread : SamePhase(u)
        BY <3>3 DEF SamePhase, InCall, Served
      <3> QED
        BY <1>0, <1>2, <3>1, <3>4
    <2> QED
      BY <1>10, <2>1, CallBeginCalls, CallSentCalls, CallEndCalls DEF CallSteps
  <1>11. ASSUME NEW k \in Worker, NEW type \in Answer, NEW end \in Served, Replied(k, type, end) PROVE CallInv'
    BY <1>11, RepliedCalls
  <1> QED
    BY NextCases, <1>4, <1>5, <1>6, <1>7, <1>8, <1>9, <1>10, <1>11, Zenon DEF ServerSteps

\* CallInv holds initially.
LEMMA CallInit ==
  ASSUME Init
  PROVE  CallInv
  <1>1. /\ \A s \in Side : Len(chan[s]) = 0 /\ reader[s] = "none"
        /\ \A t \in Thread : ~InCall(t) /\ pc[t] \in {"idle", "none"}
        /\ \A k \in Worker : pc[k] = "none"
    BY SideFacts, ThreadFacts DEF Init, InCall
  <1>2. \A t \in Thread : On(t) \in Side /\ Other(On(t)) \in Side /\ pc[t] # "send" /\ pc[t] # "sent"
    BY <1>1, SideFacts, ThreadFacts
  <1> QED
    BY <1>1, <1>2, SideFacts
       DEF CallInv, Issued, OneCaller, WorkerIssued, CallFresh, AnswerServed, BroadcastServed, OneCall, OneAnswer, NotBroadcast,
           SendFresh, SendUnsent, SentNotBroadcast, TextCall, TextWorker, TextAnswer, TextBroadcast

\* A stuttering step keeps CallInv.
LEMMA CallStutter ==
  ASSUME CallInv, UNCHANGED vars
  PROVE  CallInv'
  BY DEF vars, CallInv, Issued, OneCaller, WorkerIssued, CallFresh, AnswerServed, BroadcastServed, OneCall, OneAnswer, NotBroadcast,
         SendFresh, SendUnsent, SentNotBroadcast, TextCall, TextWorker, TextAnswer, TextBroadcast, InCall

\* CallInv is an invariant.
THEOREM CallInvariance == Spec => [](BaseInv /\ CallInv)
  <1>1. Init => CallInv
    BY CallInit
  <1>2. BaseInv /\ BaseInv' /\ CallInv /\ [Next]_vars => CallInv'
    BY CallStep, CallStutter DEF BaseInv
  <1> QED
    BY <1>1, <1>2, BaseInvariance, PTL DEF Spec

\* No step gives a call to a thread that has executed one.
LEMMA ExecutedStep ==
  ASSUME TypeInv, CallInv, Next, NEW w \in Worker, pc[w] \in Served
  PROVE  pc'[w] = pc[w]
  <1> USE DEF connection, table, readers, setup, threads
  <1>0. w \in Thread
    BY ThreadFacts
  <1>1. CASE CrashStep \/ Quiet \/ ServerSteps \/ Break
    BY <1>1 DEF CrashStep, Crash, ServerSteps, ClientConnect, ServerAccept, NegotiateSend, Break, Quiet,
                ClientWait, ClientCreated, SpuriousInit, HandleDisconnect, callConnectionOpened
  <1>2. ASSUME NEW s \in Side, ReadSteps(s) PROVE pc'[w] = pc[w]
    <2>1. CASE RequestAnswered(s) \/ HandleVersion(s) \/ HandleReturn(s)
      BY <2>1 DEF RequestAnswered, HandleVersion, HandleReturn
    <2>2. CASE ReturnBroadcast(s)
      BY <1>0, <2>2 DEF ReturnBroadcast, Served
    <2>3. CASE HandleCall(s)
      <3> DEFINE k == <<Other(s), Head(chan[s]).n>>
      <3>1. Head(chan[s]) = chan[s][1] /\ 1 \in 1..Len(chan[s]) /\ Head(chan[s]).type = "C"
        BY <2>3, HeadFacts DEF HandleCall
      <3>2. pc[k] = "none" /\ k \in Worker
        <4>1. chan[s][1].n \in 0..MaxCalls /\ pc[<<Other(s), chan[s][1].n>>] = "none"
          BY <3>1 DEF CallInv, CallFresh
        <4> QED
          BY <3>1, <4>1, SideFacts, ThreadFacts
      <3>3. pc' = pc \/ pc' = [pc EXCEPT ![k] = "dispatch"]
        BY <2>3 DEF HandleCall
      <3>4. k # w /\ k \in Thread
        BY <3>2, ThreadFacts DEF Served
      <3> HIDE DEF k
      <3> QED
        BY <1>0, <3>3, <3>4, PcMoved
    <2> QED
      BY <1>2, <2>1, <2>2, <2>3 DEF ReadSteps
  <1>3. ASSUME NEW t \in Thread, CallSteps(t) PROVE pc'[w] = pc[w]
    <2>1. PICK p : pc' = [pc EXCEPT ![t] = p]
      BY <1>3 DEF CallSteps, CallBegin, CallSent, CallWait, CallEnd, SpuriousWakeup
    <2>2. pc[t] \notin Served
      BY <1>3 DEF CallSteps, CallBegin, CallSent, CallWait, CallEnd, SpuriousWakeup, HasConnection, Served
    <2> QED
      BY <1>0, <2>1, <2>2, PcMoved
  <1>4. ASSUME NEW k \in Worker, NEW type \in Answer, NEW end \in Served, Replied(k, type, end) PROVE pc'[w] = pc[w]
    <2>1. pc' = [pc EXCEPT ![k] = end] /\ pc[k] \notin Served /\ k \in Thread
      BY <1>4, ThreadFacts DEF Replied, Served
    <2> QED
      BY <1>0, <2>1, PcMoved
  <1> QED
    BY NextCases, <1>1, <1>2, <1>3, <1>4, Zenon

\* call_threadFunc executes a call at most once, whatever happens to the
\* connection, and even when wakeups are spurious.
THEOREM Once == Spec => ExecutedOnce
  <1>1. BaseInv /\ CallInv /\ [Next]_vars => [\A k \in Worker : pc[k] \in {"ended", "exited"} => pc'[k] = pc[k]]_vars
    BY ExecutedStep DEF BaseInv, Served
  <1> QED
    BY <1>1, CallInvariance, PTL DEF Spec, ExecutedOnce

-----------------------------------------------------------------------------
(* Where a call is. *)

\* A message of one of these types about call id is under way to side s.
In(s, types, id) == \E i \in 1..Len(chan[s]) : chan[s][i].type \in types /\ chan[s][i].n = id

\* Call id of side s is under way,
UnderWay(s, id)  == In(Other(s), {"C"}, id)

\* its answer is under way back,
Answered(s, id)  == In(s, Answer, id)

\* it is being executed,
Executing(s, id) == pc[<<s, id>>] \notin {"none", "ended", "exited"}

\* or handleReturn is about to broadcast its condition.
Returning(s, id) == reader[s] = "broadcast" /\ current[s] = id

\* Reading a message removes it, and it only, from its channel.
LEMMA InTake ==
  ASSUME TypeInv, TypeInv', NEW s \in Side, NEW ty, Message(s, ty), chan' = [chan EXCEPT ![s] = Tail(@)],
         NEW r \in Side, NEW types, NEW id
  PROVE  /\ In(r, types, id)' => In(r, types, id)
         /\ In(r, types, id) =>
              In(r, types, id)' \/ (r = s /\ Head(chan[s]).type \in types /\ Head(chan[s]).n = id)
  <1>1. /\ chan'[Other(s)] = chan[Other(s)] /\ Len(chan'[s]) = Len(chan[s]) - 1
        /\ \A i \in 1..(Len(chan[s]) - 1) : chan'[s][i] = chan[s][i + 1]
    BY TakeFacts
  <1>2. Len(chan[s]) \in Nat /\ Len(chan[s]) > 0 /\ Head(chan[s]) = chan[s][1]
    BY HeadFacts
  <1>3. CASE r = Other(s)
    BY <1>1, <1>3 DEF In
  <1>4. CASE r = s
    <2>1. ASSUME NEW i \in 1..Len(chan'[s]), chan'[s][i].type \in types /\ chan'[s][i].n = id
          PROVE  In(s, types, id)
      <3>1. i + 1 \in 1..Len(chan[s]) /\ chan'[s][i] = chan[s][i + 1]
        BY <1>1, <1>2
      <3> QED
        BY <2>1, <3>1 DEF In
    <2>2. ASSUME NEW i \in 1..Len(chan[s]), chan[s][i].type \in types /\ chan[s][i].n = id, i # 1
          PROVE  In(s, types, id)'
      <3>1. i - 1 \in 1..Len(chan'[s]) /\ chan'[s][i - 1] = chan[s][i]
        BY <1>1, <1>2, <2>2
      <3> QED
        BY <2>2, <3>1 DEF In
    <2> QED
      BY <1>2, <1>4, <2>1, <2>2 DEF In
  <1> QED
    BY <1>3, <1>4 DEF Side, Other

\* sock_send adds its message, and it only, when the connection lasts.
LEMMA InSend ==
  ASSUME TypeInv, NEW s \in Side, NEW type \in {"request", "version", "C", "R", "E"}, NEW n \in Nat,
         NEW text \in Thread \cup {NoText}, sock_send(s, type, n, text),
         NEW r \in Side, NEW types, NEW id
  PROVE  In(r, types, id)' <=> In(r, types, id) \/ (~broken /\ r = Other(s) /\ type \in types /\ n = id)
  <1> DEFINE m == [type |-> type, n |-> n, text |-> text]
  <1>1. /\ chan'[s] = chan[s] /\ (broken => chan' = chan)
        /\ ~broken => /\ Len(chan'[Other(s)]) = Len(chan[Other(s)]) + 1
                      /\ \A i \in 1..Len(chan[Other(s)]) : chan'[Other(s)][i] = chan[Other(s)][i]
                      /\ chan'[Other(s)][Len(chan[Other(s)]) + 1] = m
    BY SendFacts
  <1>2. m.type = type /\ m.n = n
    OBVIOUS
  <1> HIDE DEF m
  <1>3. Len(chan[Other(s)]) \in Nat
    BY SideFacts DEF TypeInv
  <1>4. CASE broken \/ r = s
    BY <1>1, <1>4, SideFacts DEF In
  <1>5. CASE ~broken /\ r = Other(s)
    <2>1. In(r, types, id)' => In(r, types, id) \/ (type \in types /\ n = id)
      <3> SUFFICES ASSUME NEW i \in 1..Len(chan'[r]), chan'[r][i].type \in types /\ chan'[r][i].n = id
                   PROVE  In(r, types, id) \/ (type \in types /\ n = id)
        BY DEF In
      <3>1. CASE i \in 1..Len(chan[r])
        BY <1>1, <1>5, <3>1 DEF In
      <3>2. CASE i = Len(chan[r]) + 1
        BY <1>1, <1>2, <1>5, <3>2
      <3> QED
        BY <1>1, <1>3, <1>5, <3>1, <3>2
    <2>2. In(r, types, id) => In(r, types, id)'
      <3> SUFFICES ASSUME NEW i \in 1..Len(chan[r]), chan[r][i].type \in types /\ chan[r][i].n = id
                   PROVE  In(r, types, id)'
        BY DEF In
      <3>1. i \in 1..Len(chan'[r]) /\ chan'[r][i] = chan[r][i]
        BY <1>1, <1>3, <1>5
      <3> QED
        BY <3>1 DEF In
    <2>3. type \in types /\ n = id => In(r, types, id)'
      <3>1. Len(chan[r]) + 1 \in 1..Len(chan'[r])
        BY <1>1, <1>3, <1>5
      <3> QED
        BY <1>1, <1>2, <1>5, <3>1 DEF In
    <2> QED
      BY <1>5, <2>1, <2>2, <2>3
  <1> QED
    BY <1>4, <1>5 DEF Side, Other

\* Answering the request touches no call and no answer.
LEMMA InRequest ==
  ASSUME TypeInv, NEW s \in Side, RequestAnswered(s), NEW r \in Side, NEW types \in SUBSET {"C", "R", "E"}, NEW id
  PROVE  In(r, types, id)' <=> In(r, types, id)
  <1>1. /\ Len(chan'[s]) = Len(chan[s]) - 1
        /\ \A i \in 1..(Len(chan[s]) - 1) : chan'[s][i] = chan[s][i + 1]
        /\ broken => chan'[Other(s)] = chan[Other(s)]
        /\ ~broken =>
             /\ Len(chan'[Other(s)]) = Len(chan[Other(s)]) + 1
             /\ \A i \in 1..Len(chan[Other(s)]) : chan'[Other(s)][i] = chan[Other(s)][i]
             /\ chan'[Other(s)][Len(chan[Other(s)]) + 1] =
                  [type |-> "version", n |-> Negotiated(s, Head(chan[s]).n), text |-> NoText]
    BY RequestFacts, Zenon
  <1>2. ~broken => chan'[Other(s)][Len(chan[Other(s)]) + 1].type = "version"
    BY <1>1
  <1>3. chan[s][1].type = "request" /\ Len(chan[s]) > 0
    BY HeadFacts DEF RequestAnswered
  <1>4. Len(chan[s]) \in Nat /\ Len(chan[Other(s)]) \in Nat
    BY SideFacts DEF TypeInv
  <1>5. ASSUME NEW i \in 1..Len(chan'[r]), chan'[r][i].type \in types /\ chan'[r][i].n = id
        PROVE  \E j \in 1..Len(chan[r]) : chan[r][j] = chan'[r][i]
    <2>1. CASE r = s
      <3>1. i + 1 \in 1..Len(chan[s]) /\ chan'[s][i] = chan[s][i + 1]
        BY <1>1, <1>4, <2>1
      <3> QED
        BY <2>1, <3>1
    <2>2. CASE r = Other(s)
      BY <1>1, <1>2, <1>4, <1>5, <2>2
    <2> QED
      BY <2>1, <2>2 DEF Side, Other
  <1>6. ASSUME NEW i \in 1..Len(chan[r]), chan[r][i].type \in types /\ chan[r][i].n = id
        PROVE  \E j \in 1..Len(chan'[r]) : chan'[r][j] = chan[r][i]
    <2>1. CASE r = s
      <3>1. i # 1
        BY <1>3, <1>6, <2>1
      <3>2. i - 1 \in 1..Len(chan'[s]) /\ chan'[s][i - 1] = chan[s][i]
        BY <1>1, <1>4, <2>1, <3>1
      <3> QED
        BY <2>1, <3>2
    <2>2. CASE r = Other(s)
      BY <1>1, <1>4, <2>2
    <2> QED
      BY <2>1, <2>2 DEF Side, Other
  <1> QED
    BY <1>5, <1>6 DEF In

-----------------------------------------------------------------------------
(* The order of the negotiation and the first calls. *)

\* Is the reply to the negotiation ahead of message i to the server?
VersionAhead(i) == \E j \in 1..(i - 1) : chan["server"][j].type = "version"

\* textRPC_client_create returns when the client runs.
CreatedRunning == create \in {"woken", "created"} => protocolState["client"] = "running"

\* connectionOpenedFunc is called when its side runs.
OpenedRunning  == \A s \in Side : opened[s] # "no" => protocolState[s] = "running"

\* A side on which a thread calls or is called runs.
ActiveRunning  == \A t \in Thread : pc[t] \notin {"idle", "none"} => protocolState[On(t)] = "running"

\* A call under way to the client finds it running.
ClientCalled   ==
  \A i \in 1..Len(chan["client"]) : chan["client"][i].type = "C" => protocolState["client"] = "running"

\* A call under way to the server finds it running, or the version is ahead of
\* it.
ServerCalled   ==
  \A i \in 1..Len(chan["server"]) : chan["server"][i].type = "C" =>
    protocolState["server"] = "running" \/ VersionAhead(i)

\* While the connection lasts, a client that runs has sent the version.
VersionSent    ==
  protocolState["client"] = "running" /\ ~broken =>
    \/ protocolState["server"] = "running"
    \/ \E j \in 1..Len(chan["server"]) : chan["server"][j].type = "version"

\* The order of the negotiation and the first calls.
OrderInv == CreatedRunning /\ OpenedRunning /\ ActiveRunning /\ ClientCalled /\ ServerCalled /\ VersionSent

\* A side that runs goes on running.
LEMMA RunningKept ==
  ASSUME BaseInv, Next, NEW s \in Side, protocolState[s] = "running"
  PROVE  protocolState'[s] = "running"
  <1> USE SideFacts DEF connection, table, readers, setup, threads
  <1>0. protocolState \in [Side -> {"initializing", "negotiating", "running"}]
    BY DEF BaseInv, TypeInv, TypeOK
  <1>1. create # "start" /\ negotiator = "done" /\ reader["server"] # "none"
    BY DEF BaseInv, NegotiationInv, Side
  <1>2. CASE CrashStep \/ Quiet \/ ServerSteps \/ Break
    BY <1>1, <1>2 DEF CrashStep, Crash, ServerSteps, ClientConnect, ServerAccept, NegotiateSend, Break, Quiet,
                ClientWait, ClientCreated, SpuriousInit, HandleDisconnect, callConnectionOpened
  <1>3. ASSUME NEW r \in Side, ReadSteps(r) PROVE protocolState'[s] = "running"
    BY <1>0, <1>3 DEF ReadSteps, RequestAnswered, HandleVersion, HandleCall, HandleReturn, ReturnBroadcast
  <1>4. ASSUME NEW t \in Thread, CallSteps(t) PROVE protocolState'[s] = "running"
    BY <1>4 DEF CallSteps, CallBegin, CallSent, CallWait, CallEnd, SpuriousWakeup
  <1>5. ASSUME NEW k \in Worker, NEW type \in Answer, NEW end \in Served, Replied(k, type, end)
        PROVE  protocolState'[s] = "running"
    BY <1>5 DEF Replied
  <1> QED
    BY NextCases, <1>2, <1>3, <1>4, <1>5, Zenon

\* Every step keeps the first three parts of OrderInv.
LEMMA StartedRunning ==
  ASSUME BaseInv, BaseInv', OrderInv, ~SpuriousWakeups, Next
  PROVE  CreatedRunning' /\ OpenedRunning' /\ ActiveRunning'
  <1> USE SideFacts DEF connection, table, readers, setup, threads
  <1>0. /\ \A s \in Side : protocolState[s] = "running" => protocolState'[s] = "running"
        /\ opened \in [Side -> {"no", "run", "called"}] /\ protocolState \in [Side -> {"initializing", "negotiating", "running"}]
        /\ \A t \in Thread : On(t) \in Side
    BY RunningKept, ThreadFacts DEF BaseInv, TypeInv, TypeOK
  <1>1. CreatedRunning /\ OpenedRunning /\ ActiveRunning
    BY DEF OrderInv
  <1>2. CASE /\ create' = create \/ create' \notin {"woken", "created"} \/ (create = "woken" /\ create' = "created")
             /\ \A s \in Side : opened'[s] = opened[s] \/ opened[s] # "no"
             /\ UNCHANGED pc
    BY <1>0, <1>1, <1>2 DEF CreatedRunning, OpenedRunning, ActiveRunning
  <1>3. CASE CrashStep \/ ServerSteps \/ Break
    BY <1>2, <1>3 DEF CrashStep, Crash, ServerSteps, ClientConnect, ServerAccept, NegotiateSend, Break
  <1>4. CASE Quiet
    BY <1>0, <1>2, <1>4 DEF Quiet, ClientWait, ClientCreated, SpuriousInit, HandleDisconnect, callConnectionOpened
  <1>5. ASSUME NEW s \in Side, ReadSteps(s) PROVE CreatedRunning' /\ OpenedRunning' /\ ActiveRunning'
    <2>1. CASE RequestAnswered(s)
      <3>1. s = "client"
        <4>1. chan[s][1].type = "request" /\ 1 \in 1..Len(chan[s])
          BY <2>1, HeadFacts DEF BaseInv, RequestAnswered
        <4> QED
          BY <4>1 DEF BaseInv, NegotiationInv, Side
      <3>2. protocolState'["client"] = "running" /\ UNCHANGED pc /\ \A r \in Side : r # "client" => opened'[r] = opened[r]
        BY <1>0, <2>1, <3>1 DEF RequestAnswered
      <3> QED
        BY <1>0, <1>1, <3>2 DEF CreatedRunning, OpenedRunning, ActiveRunning
    <2>2. CASE HandleVersion(s)
      <3>1. /\ protocolState'[s] = "running" /\ UNCHANGED <<pc, create>>
            /\ \A r \in Side : r # s => opened'[r] = opened[r]
        BY <1>0, <2>2 DEF HandleVersion
      <3> QED
        BY <1>0, <1>1, <3>1 DEF CreatedRunning, OpenedRunning, ActiveRunning
    <2>3. CASE HandleReturn(s)
      BY <1>2, <2>3 DEF HandleReturn
    <2>4. CASE HandleCall(s)
      <3>1. CASE protocolState[s] # "running"
        BY <1>2, <2>4, <3>1 DEF HandleCall
      <3>2. CASE protocolState[s] = "running"
        <4> DEFINE k == <<Other(s), Head(chan[s]).n>>
        <4>1. UNCHANGED <<create, opened>> /\ pc' = [pc EXCEPT ![k] = "dispatch"]
          BY <2>4, <3>2 DEF HandleCall
        <4>2. k \in Thread => On(k) = s
          <5>1. Head(chan[s]).n \in Nat
            BY <2>4, HeadFacts DEF HandleCall, BaseInv
          <5>2. k \in Side \X Nat /\ k[1] = Other(s)
            BY <5>1
          <5>3. k \notin Caller
            BY <5>2, TextRPCAssumption
          <5> QED
            BY <5>2, <5>3 DEF On
        <4> HIDE DEF k
        <4>3. \A t \in Thread : t # k => pc'[t] = pc[t]
          BY <4>1 DEF BaseInv, TypeInv, TypeOK
        <4>4. ASSUME NEW t \in Thread, pc'[t] \notin {"idle", "none"}
              PROVE  protocolState'[On(t)] = "running"
          BY <1>0, <1>1, <3>2, <4>2, <4>3, <4>4 DEF ActiveRunning
        <4> QED
          BY <1>0, <1>1, <4>1, <4>4 DEF CreatedRunning, OpenedRunning, ActiveRunning
      <3> QED
        BY <3>1, <3>2
    <2>5. CASE ReturnBroadcast(s)
      <3>1. UNCHANGED <<create, opened>> /\ \A t \in Thread : pc'[t] = pc[t] \/ pc[t] = "wait"
        BY <2>5 DEF ReturnBroadcast
      <3> QED
        BY <1>0, <1>1, <3>1 DEF CreatedRunning, OpenedRunning, ActiveRunning
    <2> QED
      BY <1>5, <2>1, <2>2, <2>3, <2>4, <2>5 DEF ReadSteps
  <1>6. ASSUME NEW t \in Thread, CallSteps(t) PROVE CreatedRunning' /\ OpenedRunning' /\ ActiveRunning'
    <2>1. UNCHANGED <<create, opened>> /\ \E p : pc' = [pc EXCEPT ![t] = p]
      BY <1>6 DEF CallSteps, CallBegin, CallSent, CallWait, CallEnd, SpuriousWakeup
    <2>2. \A u \in Thread : u # t => pc'[u] = pc[u]
      BY <2>1 DEF BaseInv, TypeInv, TypeOK
    <2>3. protocolState[On(t)] = "running"
      <3>1. CASE CallBegin(t) /\ t \in Caller
        BY <1>1, <3>1, TextRPCAssumption DEF CallBegin, HasConnection, CreatedRunning, OpenedRunning, On, Side
      <3>2. CASE pc[t] \notin {"idle", "none"}
        BY <1>1, <3>2 DEF ActiveRunning
      <3> QED
        BY <1>6, <3>1, <3>2 DEF CallSteps, CallBegin, HasConnection, CallSent, CallWait, CallEnd, SpuriousWakeup
    <2>4. ASSUME NEW u \in Thread, pc'[u] \notin {"idle", "none"}
          PROVE  protocolState'[On(u)] = "running"
      BY <1>0, <1>1, <2>2, <2>3, <2>4 DEF ActiveRunning
    <2> QED
      BY <1>0, <1>1, <2>1, <2>4 DEF CreatedRunning, OpenedRunning, ActiveRunning
  <1>7. ASSUME NEW k \in Worker, NEW type \in Answer, NEW end \in Served, Replied(k, type, end)
        PROVE  CreatedRunning' /\ OpenedRunning' /\ ActiveRunning'
    <2>1. UNCHANGED <<create, opened>> /\ pc' = [pc EXCEPT ![k] = end] /\ pc[k] \notin {"idle", "none"}
      BY <1>7 DEF Replied
    <2>2. \A u \in Thread : u # k => pc'[u] = pc[u]
      BY <2>1 DEF BaseInv, TypeInv, TypeOK
    <2>4. ASSUME NEW u \in Thread, pc'[u] \notin {"idle", "none"}
          PROVE  protocolState'[On(u)] = "running"
      BY <1>0, <1>1, <2>1, <2>2, <2>4 DEF ActiveRunning
    <2> QED
      BY <1>0, <1>1, <2>1, <2>4 DEF CreatedRunning, OpenedRunning, ActiveRunning
  <1> QED
    BY NextCases, <1>3, <1>4, <1>5, <1>6, <1>7, Zenon

\* A step keeps the other three that adds no call and removes no version: d is
\* 1 when the server reads a message.
LEMMA OrderKept ==
  ASSUME BaseInv, BaseInv', OrderInv, NEW d \in {0, 1},
         \A s \in Side : protocolState[s] = "running" => protocolState'[s] = "running",
         protocolState'["client"] = "running" => protocolState["client"] = "running",
         broken => broken',
         \A i \in 1..Len(chan'["client"]) : chan'["client"][i].type = "C" =>
           \E j \in 1..Len(chan["client"]) : chan["client"][j].type = "C",
         \A i \in 1..Len(chan'["server"]) : chan'["server"][i].type = "C" =>
           i + d \in 1..Len(chan["server"]) /\ \A j \in 1..i : chan'["server"][j] = chan["server"][j + d],
         d = 1 => chan["server"][1].type # "version",
         ~broken' => \A i \in 1..Len(chan["server"]) : i > d =>
                       i - d \in 1..Len(chan'["server"]) /\ chan'["server"][i - d] = chan["server"][i]
  PROVE  ClientCalled' /\ ServerCalled' /\ VersionSent'
  <1> USE SideFacts
  <1>0. Len(chan["server"]) \in Nat /\ Len(chan'["server"]) \in Nat
    BY DEF BaseInv, TypeInv
  <1>1. ClientCalled'
    BY DEF OrderInv, ClientCalled
  <1>2. ServerCalled'
    <2> SUFFICES ASSUME NEW i \in 1..Len(chan'["server"]), chan'["server"][i].type = "C",
                        protocolState'["server"] # "running"
                 PROVE  \E j \in 1..(i - 1) : chan'["server"][j].type = "version"
      BY DEF ServerCalled, VersionAhead
    <2>1. /\ i + d \in 1..Len(chan["server"]) /\ chan["server"][i + d].type = "C"
          /\ \A j \in 1..i : chan'["server"][j] = chan["server"][j + d]
      BY <1>0
    <2>2. PICK j \in 1..(i + d - 1) : chan["server"][j].type = "version"
      BY <2>1 DEF OrderInv, ServerCalled, VersionAhead
    <2>3. j > d
      BY <1>0, <2>2
    <2>4. j - d \in 1..(i - 1) /\ j - d \in 1..i /\ (j - d) + d = j
      BY <1>0, <2>2, <2>3
    <2>5. chan'["server"][j - d] = chan["server"][(j - d) + d]
      BY <2>1, <2>4
    <2> QED
      BY <2>2, <2>4, <2>5
  <1>3. VersionSent'
    <2> SUFFICES ASSUME protocolState'["client"] = "running", ~broken', protocolState'["server"] # "running"
                 PROVE  \E j \in 1..Len(chan'["server"]) : chan'["server"][j].type = "version"
      BY DEF VersionSent
    <2>1. PICK j \in 1..Len(chan["server"]) : chan["server"][j].type = "version"
      BY DEF OrderInv, VersionSent
    <2>2. j > d
      BY <1>0, <2>1
    <2>3. j - d \in 1..Len(chan'["server"]) /\ chan'["server"][j - d] = chan["server"][j]
      BY <2>2
    <2> QED
      BY <2>1, <2>3
  <1> QED
    BY <1>1, <1>2, <1>3

\* Sending a call or an answer keeps them.
LEMMA OrderSend ==
  ASSUME BaseInv, BaseInv', OrderInv, NEW s \in Side, NEW type \in {"C", "R", "E"}, NEW n \in Nat,
         NEW text \in Thread \cup {NoText}, sock_send(s, type, n, text), protocolState[s] = "running",
         UNCHANGED <<protocolState, broken>>
  PROVE  ClientCalled' /\ ServerCalled' /\ VersionSent'
  <1> USE SideFacts
  <1>0. /\ \A r \in Side : Len(chan[r]) \in Nat /\ Len(chan'[r]) \in Nat
        /\ protocolState["client"] = "running"
    BY DEF BaseInv, TypeInv, NegotiationInv, Side
  <1>1. type \in {"request", "version", "C", "R", "E"} /\ TypeInv
    BY DEF BaseInv
  <1>2. /\ chan'[s] = chan[s] /\ (broken => chan' = chan)
        /\ ~broken => /\ Len(chan'[Other(s)]) = Len(chan[Other(s)]) + 1
                      /\ \A i \in 1..Len(chan[Other(s)]) : chan'[Other(s)][i] = chan[Other(s)][i]
                      /\ chan'[Other(s)][Len(chan[Other(s)]) + 1] = [type |-> type, n |-> n, text |-> text]
    BY <1>1, SendFacts, SMTT(20)
  <1>3. \A r \in Side : /\ Len(chan[r]) <= Len(chan'[r]) /\ Len(chan'[r]) <= Len(chan[r]) + 1
                        /\ \A i \in 1..Len(chan[r]) : chan'[r][i] = chan[r][i]
                        /\ broken => Len(chan'[r]) = Len(chan[r])
    BY <1>0, <1>2 DEF Side, Other
  <1>4. ClientCalled'
    BY <1>0 DEF ClientCalled
  <1>5. VersionSent'
    <2>1. 1..Len(chan["server"]) \subseteq 1..Len(chan'["server"])
      BY <1>0, <1>3
    <2> QED
      BY <1>3, <2>1 DEF OrderInv, VersionSent
  <1>6. ServerCalled'
    <2> SUFFICES ASSUME NEW i \in 1..Len(chan'["server"]), chan'["server"][i].type = "C",
                        protocolState'["server"] # "running"
                 PROVE  \E j \in 1..(i - 1) : chan'["server"][j].type = "version"
      BY DEF ServerCalled, VersionAhead
    <2>0. Len(chan["server"]) \in Nat /\ Len(chan'["server"]) \in Nat /\ i \in Nat
      BY <1>0
    <2>1. CASE i \in 1..Len(chan["server"])
      <3>1. PICK j \in 1..(i - 1) : chan["server"][j].type = "version"
        BY <1>3, <2>1 DEF OrderInv, ServerCalled, VersionAhead
      <3>2. j \in 1..Len(chan["server"])
        BY <2>0, <2>1
      <3> QED
        BY <1>3, <3>1, <3>2
    <2>2. CASE i = Len(chan["server"]) + 1
      <3>1. ~broken
        BY <1>3, <2>0, <2>2
      <3>2. PICK j \in 1..Len(chan["server"]) : chan["server"][j].type = "version"
        BY <1>0, <3>1 DEF OrderInv, VersionSent
      <3>3. j \in 1..(i - 1)
        BY <2>0, <2>2
      <3> QED
        BY <1>3, <3>2, <3>3
    <2>3. Len(chan'["server"]) <= Len(chan["server"]) + 1
      BY <1>3
    <2> QED
      BY <2>0, <2>1, <2>2, <2>3
  <1> QED
    BY <1>4, <1>5, <1>6

\* Every step keeps them.
LEMMA CalledStep ==
  ASSUME BaseInv, BaseInv', OrderInv, Next
  PROVE  ClientCalled' /\ ServerCalled' /\ VersionSent'
  <1> USE SideFacts DEF connection, table, readers, setup, threads
  <1>0. /\ \A r \in Side : Len(chan[r]) \in Nat /\ Len(chan'[r]) \in Nat
        /\ \A r \in Side : protocolState[r] = "running" => protocolState'[r] = "running"
        /\ protocolState \in [Side -> {"initializing", "negotiating", "running"}]
        /\ 0 \in {0, 1} /\ 1 \in {0, 1} /\ TypeInv
    <2>1. \A r \in Side : protocolState[r] = "running" => protocolState'[r] = "running"
      BY RunningKept
    <2>2. \A r \in Side : Len(chan[r]) \in Nat /\ Len(chan'[r]) \in Nat
      BY DEF BaseInv, TypeInv
    <2>3. protocolState \in [Side -> {"initializing", "negotiating", "running"}] /\ TypeInv
      BY DEF BaseInv, TypeInv, TypeOK
    <2> QED
      BY <2>1, <2>2, <2>3
  <1>a. ASSUME chan'["server"] = chan["server"], broken => broken',
               protocolState'["client"] = "running" => protocolState["client"] = "running",
               \A i \in 1..Len(chan'["client"]) : chan'["client"][i].type = "C" =>
                 \E j \in 1..Len(chan["client"]) : chan["client"][j].type = "C"
        PROVE  ClientCalled' /\ ServerCalled' /\ VersionSent'
    <2>1. /\ \A i \in 1..Len(chan'["server"]) : i + 0 \in 1..Len(chan["server"]) /\ \A j \in 1..i : chan'["server"][j] = chan["server"][j + 0]
          /\ \A i \in 1..Len(chan["server"]) : i - 0 \in 1..Len(chan'["server"]) /\ chan'["server"][i - 0] = chan["server"][i]
      BY <1>0, <1>a
    <2> QED
      BY <1>0, <1>a, <2>1, OrderKept
  <1>1. ASSUME UNCHANGED chan, protocolState'["client"] = "running" => protocolState["client"] = "running", broken => broken'
        PROVE  ClientCalled' /\ ServerCalled' /\ VersionSent'
    BY <1>1, <1>a
  <1>2. CASE CrashStep
    BY <1>1, <1>2 DEF CrashStep, Crash
  <1>3. CASE Quiet
    BY <1>1, <1>3 DEF Quiet, ClientWait, ClientCreated, SpuriousInit, HandleDisconnect, callConnectionOpened
  <1>4. CASE ClientConnect \/ ServerAccept
    BY <1>0, <1>1, <1>4 DEF ClientConnect, ServerAccept
  <1>5. CASE NegotiateSend
    <2>1. UNCHANGED <<protocolState, broken>> /\ sock_send("server", "request", Latest["server"], NoText)
      BY <1>5 DEF NegotiateSend
    <2>2. /\ chan'["server"] = chan["server"] /\ (broken => chan' = chan)
          /\ ~broken => /\ Len(chan'["client"]) = Len(chan["client"]) + 1
                        /\ \A i \in 1..Len(chan["client"]) : chan'["client"][i] = chan["client"][i]
                        /\ chan'["client"][Len(chan["client"]) + 1] = [type |-> "request", n |-> Latest["server"], text |-> NoText]
      BY <1>0, <2>1, SendFacts, TextRPCAssumption
    <2>3. ~broken => chan'["client"][Len(chan["client"]) + 1].type = "request"
      BY <2>2
    <2>4. \A i \in 1..Len(chan'["client"]) : chan'["client"][i].type = "C" => \E j \in 1..Len(chan["client"]) : chan["client"][j].type = "C"
      <3>1. Len(chan["client"]) \in Nat
        BY <1>0
      <3> QED
        BY <2>2, <2>3, <3>1
    <2> QED
      BY <1>a, <2>1, <2>2, <2>4
  <1>6. CASE Break
    <2>1. \A s \in Side : Len(chan'[s]) \in 0..Len(chan[s]) /\ \A i \in 1..Len(chan'[s]) : chan'[s][i] = chan[s][i]
      BY <1>0, <1>6, BreakFacts
    <2>2. broken' /\ UNCHANGED protocolState
      BY <1>6 DEF Break
    <2>3. \A i \in 1..Len(chan'["server"]) : i + 0 \in 1..Len(chan["server"]) /\ \A j \in 1..i : chan'["server"][j] = chan["server"][j + 0]
      BY <1>0, <2>1
    <2>4. \A i \in 1..Len(chan'["client"]) : i \in 1..Len(chan["client"])
      BY <1>0, <2>1
    <2> QED
      BY <1>0, <2>1, <2>2, <2>3, <2>4, OrderKept
  <1>7. ASSUME NEW s \in Side, ReadSteps(s)
        PROVE  ClientCalled' /\ ServerCalled' /\ VersionSent'
    <2>1. CASE RequestAnswered(s)
      <3>1. s = "client"
        <4>1. chan[s][1].type = "request" /\ 1 \in 1..Len(chan[s])
          BY <1>0, <2>1, HeadFacts DEF RequestAnswered
        <4> QED
          BY <4>1 DEF BaseInv, NegotiationInv, Side
      <3>2. protocolState'["client"] = "running" /\ broken' = broken
        BY <1>0, <2>1, <3>1 DEF RequestAnswered
      <3>3. /\ broken => chan'["server"] = chan["server"]
            /\ ~broken =>
                 /\ Len(chan'["server"]) = Len(chan["server"]) + 1
                 /\ \A i \in 1..Len(chan["server"]) : chan'["server"][i] = chan["server"][i]
                 /\ chan'["server"][Len(chan["server"]) + 1] =
                      [type |-> "version", n |-> Negotiated("client", Head(chan["client"]).n), text |-> NoText]
        BY <1>0, <2>1, <3>1, RequestFacts
      <3>4. ~broken => chan'["server"][Len(chan["server"]) + 1].type = "version"
        BY <3>3
      <3>5. Len(chan["server"]) \in Nat
        BY <1>0
      <3>6. ClientCalled'
        BY <3>2 DEF ClientCalled
      <3>7. VersionSent'
        BY <3>2, <3>3, <3>4, <3>5 DEF VersionSent
      <3>8. ServerCalled'
        <4> SUFFICES ASSUME NEW i \in 1..Len(chan'["server"]), chan'["server"][i].type = "C",
                            protocolState'["server"] # "running"
                     PROVE  \E j \in 1..(i - 1) : chan'["server"][j].type = "version"
          BY DEF ServerCalled, VersionAhead
        <4>1. /\ i \in 1..Len(chan["server"])
              /\ \A j \in 1..Len(chan["server"]) : chan'["server"][j] = chan["server"][j]
          BY <3>3, <3>4, <3>5
        <4>2. PICK j \in 1..(i - 1) : chan["server"][j].type = "version"
          BY <1>0, <4>1 DEF OrderInv, ServerCalled, VersionAhead
        <4> QED
          BY <3>5, <4>1, <4>2
      <3> QED
        BY <3>6, <3>7, <3>8
    <2>2. CASE HandleVersion(s)
      <3>1. s = "server"
        <4>1. chan[s][1].type = "version" /\ 1 \in 1..Len(chan[s])
          BY <1>0, <2>2, HeadFacts DEF HandleVersion
        <4> QED
          BY <4>1 DEF BaseInv, NegotiationInv, Side
      <3>2. protocolState'["server"] = "running" /\ protocolState'["client"] = protocolState["client"]
        BY <1>0, <2>2, <3>1 DEF HandleVersion
      <3>3. chan'["client"] = chan["client"]
        BY <2>2, <3>1 DEF HandleVersion, BaseInv, TypeInv
      <3> QED
        BY <3>2, <3>3 DEF ClientCalled, ServerCalled, VersionSent, OrderInv
    <2>3. CASE HandleCall(s) \/ HandleReturn(s)
      <3>1. /\ UNCHANGED <<protocolState, broken>> /\ chan' = [chan EXCEPT ![s] = Tail(@)]
            /\ Message(s, {"C", "R", "E"})
        BY <2>3 DEF HandleCall, HandleReturn, Message
      <3>2. /\ chan'[Other(s)] = chan[Other(s)] /\ Len(chan'[s]) = Len(chan[s]) - 1
            /\ \A i \in 1..(Len(chan[s]) - 1) : chan'[s][i] = chan[s][i + 1]
        BY <1>0, <3>1, TakeFacts
      <3>3. chan[s][1].type \in {"C", "R", "E"} /\ Len(chan[s]) \in Nat /\ Len(chan[s]) > 0
        BY <1>0, <3>1, HeadFacts
      <3>4. CASE s = "server"
        <4>1. \A i \in 1..Len(chan'["server"]) : i + 1 \in 1..Len(chan["server"]) /\ \A j \in 1..i : chan'["server"][j] = chan["server"][j + 1]
          BY <3>2, <3>3, <3>4
        <4>2. \A i \in 1..Len(chan["server"]) : i > 1 => i - 1 \in 1..Len(chan'["server"]) /\ chan'["server"][i - 1] = chan["server"][i]
          BY <3>2, <3>3, <3>4
        <4>3. chan["server"][1].type # "version" /\ chan'["client"] = chan["client"]
          BY <3>2, <3>3, <3>4
        <4> QED
          BY <1>0, <3>1, <4>1, <4>2, <4>3, OrderKept
      <3>5. CASE s = "client"
        <4>1. chan'["server"] = chan["server"]
          BY <3>2, <3>5
        <4>2. \A i \in 1..Len(chan'["client"]) : i + 1 \in 1..Len(chan["client"]) /\ chan'["client"][i] = chan["client"][i + 1]
          BY <3>2, <3>3, <3>5
        <4>3. \A i \in 1..Len(chan'["client"]) : chan'["client"][i].type = "C" => \E j \in 1..Len(chan["client"]) : chan["client"][j].type = "C"
          BY <4>2
        <4> QED
          BY <1>a, <3>1, <4>1, <4>3
      <3> QED
        BY <3>4, <3>5 DEF Side
    <2>4. CASE ReturnBroadcast(s)
      BY <1>1, <2>4 DEF ReturnBroadcast
    <2> QED
      BY <1>7, <2>1, <2>2, <2>3, <2>4 DEF ReadSteps
  <1>8. ASSUME NEW t \in Thread, CallSteps(t)
        PROVE  ClientCalled' /\ ServerCalled' /\ VersionSent'
    <2>1. CASE CallSent(t)
      <3>1. /\ sock_send(On(t), "C", callId[t], t) /\ UNCHANGED <<protocolState, broken>> /\ pc[t] = "send"
        BY <2>1 DEF CallSent
      <3>2. On(t) \in Side /\ protocolState[On(t)] = "running" /\ callId[t] \in Nat /\ t \in Thread \cup {NoText}
        <4>1. On(t) \in Side /\ protocolState[On(t)] = "running"
          BY <3>1, ThreadFacts DEF OrderInv, ActiveRunning
        <4>2. callId[t] \in Nat
          BY <3>1 DEF BaseInv, TypeInv, InCall
        <4> QED
          BY <4>1, <4>2
      <3> QED
        BY <3>1, <3>2, OrderSend
    <2> QED
      BY <1>1, <1>8, <2>1 DEF CallSteps, CallBegin, CallWait, CallEnd, SpuriousWakeup
  <1>9. ASSUME NEW k \in Worker, NEW type \in Answer, NEW end \in Served, Replied(k, type, end)
        PROVE  ClientCalled' /\ ServerCalled' /\ VersionSent'
    <2>1. sock_send(On(k), type, k[2], input[k]) /\ UNCHANGED <<protocolState, broken>> /\ pc[k] \in {"dispatch", "result"}
      BY <1>9 DEF Replied
    <2>2. PICK s \in Side, n \in Nat, text \in Thread \cup {NoText} : s = On(k) /\ n = k[2] /\ text = input[k]
      BY ThreadFacts, SMTT(20) DEF BaseInv, TypeInv, TypeOK
    <2>3. protocolState[s] = "running" /\ type \in {"C", "R", "E"}
      BY <2>1, <2>2, ThreadFacts DEF OrderInv, ActiveRunning, Answer
    <2> QED
      BY <2>1, <2>2, <2>3, OrderSend
  <1> QED
    BY NextCases, <1>2, <1>3, <1>4, <1>5, <1>6, <1>7, <1>8, <1>9, Zenon DEF ServerSteps

\* OrderInv holds initially.
LEMMA OrderInit ==
  ASSUME Init
  PROVE  OrderInv
  <1>1. /\ \A s \in Side : Len(chan[s]) = 0 /\ protocolState[s] = "initializing" /\ opened[s] = "no"
        /\ \A t \in Thread : pc[t] \in {"idle", "none"}
        /\ create = "start"
    BY DEF Init
  <1> QED
    BY <1>1, SideFacts
       DEF OrderInv, CreatedRunning, OpenedRunning, ActiveRunning, ClientCalled, ServerCalled, VersionSent

\* Every step keeps OrderInv, when wakeups are not spurious.
LEMMA OrderStep ==
  ASSUME BaseInv, BaseInv', OrderInv, ~SpuriousWakeups, [Next]_vars
  PROVE  OrderInv'
  <1>1. CASE Next
    BY <1>1, StartedRunning, CalledStep DEF OrderInv
  <1>2. CASE UNCHANGED vars
    BY <1>2 DEF vars, OrderInv, CreatedRunning, OpenedRunning, ActiveRunning, ClientCalled, ServerCalled, VersionSent, VersionAhead
  <1> QED
    BY <1>1, <1>2

\* OrderInv implies NoCallDropped.
LEMMA OrderNoDrop ==
  ASSUME BaseInv, OrderInv
  PROVE  NoCallDropped
  <1> SUFFICES ASSUME NEW s \in Side, Message(s, {"C"})
               PROVE  protocolState[s] = "running"
    BY DEF NoCallDropped
  <1>1. chan[s][1].type = "C" /\ 1 \in 1..Len(chan[s])
    BY HeadFacts DEF BaseInv
  <1> QED
    BY <1>1 DEF OrderInv, ClientCalled, ServerCalled, VersionAhead, Side

\* OrderInv is an invariant, when pthread_cond_wait returns only after a
\* broadcast: textRPC_client_create does not test what it waited for.
THEOREM OrderInvariance == ~SpuriousWakeups => (Spec => [](BaseInv /\ CallInv /\ OrderInv))
  <1> SUFFICES ASSUME ~SpuriousWakeups PROVE Spec => [](BaseInv /\ CallInv /\ OrderInv)
    OBVIOUS
  <1>1. Init => OrderInv
    BY OrderInit
  <1>2. BaseInv /\ BaseInv' /\ OrderInv /\ [Next]_vars => OrderInv'
    BY OrderStep
  <1> QED
    BY <1>1, <1>2, CallInvariance, PTL DEF Spec

\* connection_sock_handler never drops a call as one that comes before the end
\* of the negotiation.
THEOREM NoneDropped == ~SpuriousWakeups => (Spec => []NoCallDropped)
  <1>1. BaseInv /\ OrderInv => NoCallDropped
    BY OrderNoDrop
  <1> QED
    BY <1>1, OrderInvariance, PTL

-----------------------------------------------------------------------------
(* How a call moves from one place to the next. *)

\* What a step may do to call id of side s: nothing brings an answer but its
\* execution, or a return but its answer, and while the connection lasts a call
\* leaves a place only for the next one.
Moves(s, id) ==
  /\ Answered(s, id)' => Answered(s, id) \/ pc[<<s, id>>] \in {"dispatch", "result"}
  /\ Returning(s, id)' => Returning(s, id) \/ (Answered(s, id) /\ id \in outstandingCalls[s])
  /\ result'[<<s, id>>] = result[<<s, id>>] \/ Answered(s, id)
  /\ UnderWay(s, id) => UnderWay(s, id)' \/ broken' \/ Executing(s, id)'
  /\ Executing(s, id) => Executing(s, id)' \/ broken' \/ Answered(s, id)'
  /\ Answered(s, id) => Answered(s, id)' \/ broken' \/ id \notin outstandingCalls[s] \/ Returning(s, id)'
  /\ Returning(s, id) => Returning(s, id)' \/ ReturnBroadcast(s)

\* Every step moves a call as Moves says.
LEMMA MovesStep ==
  ASSUME TypeInv, TypeInv', StartInv, CallInv, NoCallDropped, Next, NEW s \in Side, NEW id \in 0..MaxCalls
  PROVE  Moves(s, id)
  <1> DEFINE w == <<s, id>>
  <1> USE SideFacts DEF connection, table, readers, setup, threads
  <1>0. /\ w \in Worker /\ w \in Thread /\ On(w) = Other(s) /\ w[1] = s /\ w[2] = id
        /\ {"C"} \in SUBSET {"C", "R", "E"} /\ Answer \in SUBSET {"C", "R", "E"}
    BY ThreadFacts DEF Answer
  <1>1. ASSUME chan' = chan \/ broken', broken' => (Answered(s, id)' => Answered(s, id)),
               UNCHANGED result, pc'[w] = pc[w] \/ (Executing(s, id)' /\ Executing(s, id)),
               reader'[s] = reader[s] \/ reader[s] # "broadcast", reader'[s] = "broadcast" => reader[s] = "broadcast",
               UNCHANGED current
        PROVE  Moves(s, id)
    <2>1. broken' \/ ((UnderWay(s, id)' <=> UnderWay(s, id)) /\ (Answered(s, id)' <=> Answered(s, id)))
      BY <1>1 DEF UnderWay, Answered, In
    <2>2. Executing(s, id)' <=> Executing(s, id)
      BY <1>1 DEF Executing
    <2>3. Returning(s, id)' <=> Returning(s, id)
      BY <1>1 DEF Returning
    <2> QED
      BY <1>1, <2>1, <2>2, <2>3 DEF Moves
  <1>2. CASE CrashStep
    <2>1. UNCHANGED <<chan, pc, result, reader, current>>
      BY <1>2 DEF CrashStep, Crash
    <2> QED
      BY <1>1, <2>1 DEF Answered, In
  <1>3. CASE Quiet \/ ClientConnect \/ ServerAccept
    <2>1. /\ UNCHANGED <<chan, pc, result, current>>
          /\ reader'[s] = reader[s] \/ reader[s] # "broadcast"
          /\ reader'[s] = "broadcast" => reader[s] = "broadcast"
      <3>0. reader \in [Side -> {"none", "reading", "broadcast", "done"}]
        BY DEF TypeInv, TypeOK
      <3>1. CASE Quiet
        BY <3>0, <3>1 DEF Quiet, ClientWait, ClientCreated, SpuriousInit, HandleDisconnect, callConnectionOpened
      <3>2. CASE ClientConnect \/ ServerAccept
        BY <3>0, <3>2 DEF ClientConnect, ServerAccept, StartInv
      <3> QED
        BY <1>3, <3>1, <3>2
    <2> QED
      BY <1>1, <2>1 DEF Answered, In
  <1>4. CASE Break
    <2>1. UNCHANGED <<pc, result, reader, current>> /\ broken'
      BY <1>4 DEF Break
    <2>2. Len(chan'[s]) \in 0..Len(chan[s]) /\ (\A i \in 1..Len(chan'[s]) : chan'[s][i] = chan[s][i]) /\ Len(chan[s]) \in Nat
      BY <1>4, BreakFacts DEF TypeInv
    <2>3. 1..Len(chan'[s]) \subseteq 1..Len(chan[s])
      BY <2>2
    <2>4. Answered(s, id)' => Answered(s, id)
      BY <2>2, <2>3 DEF Answered, In
    <2> QED
      BY <1>1, <2>1, <2>4
  <1>5. ASSUME UnderWay(s, id)' <=> UnderWay(s, id), Answered(s, id)' <=> Answered(s, id), UNCHANGED <<pc, result, reader, current>>
        PROVE  Moves(s, id)
    BY <1>5 DEF Moves, Executing, Returning
  <1>6. CASE NegotiateSend
    <2>1. UNCHANGED <<pc, result, reader, current>> /\ sock_send("server", "request", Latest["server"], NoText)
      BY <1>6 DEF NegotiateSend
    <2>2. \A r \in Side : \A types \in SUBSET {"C", "R", "E"} : In(r, types, id)' <=> In(r, types, id)
      BY <2>1, InSend, TextRPCAssumption
    <2> QED
      BY <1>0, <1>5, <2>1, <2>2 DEF UnderWay, Answered
  <1>7. ASSUME NEW r \in Side, ReadSteps(r) PROVE Moves(s, id)
    <2>1. CASE RequestAnswered(r)
      <3>1. UNCHANGED <<pc, result, reader, current>>
        BY <2>1 DEF RequestAnswered
      <3>2. \A x \in Side : \A types \in SUBSET {"C", "R", "E"} : In(x, types, id)' <=> In(x, types, id)
        BY <2>1, InRequest
      <3> QED
        BY <1>0, <1>5, <3>1, <3>2 DEF UnderWay, Answered
    <2>2. ASSUME NEW ty, Message(r, ty), chan' = [chan EXCEPT ![r] = Tail(@)]
          PROVE  /\ UnderWay(s, id)' => UnderWay(s, id)
                 /\ UnderWay(s, id) => UnderWay(s, id)' \/ (r = Other(s) /\ Head(chan[r]).type = "C" /\ Head(chan[r]).n = id)
                 /\ Answered(s, id)' => Answered(s, id)
                 /\ Answered(s, id) => Answered(s, id)' \/ (r = s /\ Head(chan[r]).type \in Answer /\ Head(chan[r]).n = id)
      <3>1. \A x \in Side, types \in SUBSET {"C", "R", "E"} :
              /\ In(x, types, id)' => In(x, types, id)
              /\ In(x, types, id) => In(x, types, id)' \/ (x = r /\ Head(chan[r]).type \in types /\ Head(chan[r]).n = id)
        BY <2>2, InTake
      <3> QED
        BY <1>0, <3>1 DEF UnderWay, Answered
    <2>3. CASE HandleVersion(r)
      <3>1. Message(r, {"version"}) /\ chan' = [chan EXCEPT ![r] = Tail(@)] /\ UNCHANGED <<pc, result, reader, current>>
        BY <2>3 DEF HandleVersion
      <3>2. Head(chan[r]).type = "version"
        BY <3>1 DEF Message
      <3> QED
        BY <1>5, <2>2, <3>1, <3>2 DEF Answer
    <2>4. CASE HandleCall(r)
      <3> DEFINE k == <<Other(r), Head(chan[r]).n>>
      <3>1. Message(r, {"C"}) /\ chan' = [chan EXCEPT ![r] = Tail(@)] /\ UNCHANGED <<result, reader, current>>
        BY <2>4 DEF HandleCall
      <3>2. Head(chan[r]).type = "C" /\ protocolState[r] = "running"
        BY <3>1 DEF Message, NoCallDropped
      <3>3. pc' = [pc EXCEPT ![k] = "dispatch"]
        BY <2>4, <3>2 DEF HandleCall
      <3>4. r = Other(s) /\ Head(chan[r]).n = id => k = w
        OBVIOUS
      <3> HIDE DEF k
      <3>5. Executing(s, id)' \/ pc'[w] = pc[w]
        BY <1>0, <3>3 DEF Executing, TypeInv, TypeOK
      <3>6. k = w => Executing(s, id)'
        BY <1>0, <3>3 DEF Executing, TypeInv, TypeOK
      <3> QED
        BY <2>2, <3>1, <3>2, <3>4, <3>5, <3>6 DEF Moves, Executing, Returning, Answer
    <2>5. CASE HandleReturn(r)
      <3>1. Message(r, {"R", "E"}) /\ chan' = [chan EXCEPT ![r] = Tail(@)] /\ UNCHANGED pc
        BY <2>5 DEF HandleReturn
      <3>2. Head(chan[r]).type \in Answer /\ Head(chan[r]).type # "C" /\ reader[r] = "reading"
        BY <3>1 DEF Message, Answer
      <3>3. /\ UnderWay(s, id) => UnderWay(s, id)'
            /\ Answered(s, id)' => Answered(s, id)
            /\ Answered(s, id) => Answered(s, id)' \/ (r = s /\ Head(chan[r]).n = id)
            /\ Executing(s, id)' <=> Executing(s, id)
        BY <2>2, <3>1, <3>2 DEF Executing
      <3>4. r = s /\ Head(chan[r]).n = id => Answered(s, id)
        <4>1. Head(chan[r]) = chan[r][1] /\ 1 \in 1..Len(chan[r])
          BY <3>1, HeadFacts
        <4> QED
          BY <3>2, <4>1 DEF Answered, In
      <3>5. CASE Head(chan[r]).n \notin outstandingCalls[r]
        <4>1. UNCHANGED <<result, reader, current>>
          BY <2>5, <3>5 DEF HandleReturn
        <4> QED
          BY <3>3, <3>5, <4>1 DEF Moves, Returning
      <3>6. CASE Head(chan[r]).n \in outstandingCalls[r]
        <4>1. /\ result' = [result EXCEPT ![<<r, Head(chan[r]).n>>] = [type |-> Head(chan[r]).type, text |-> Head(chan[r]).text]]
              /\ reader' = [reader EXCEPT ![r] = "broadcast"] /\ current' = [current EXCEPT ![r] = Head(chan[r]).n]
          BY <2>5, <3>6 DEF HandleReturn
        <4>2. /\ reader'[r] = "broadcast" /\ current'[r] = Head(chan[r]).n
              /\ r # s => reader'[s] = reader[s] /\ current'[s] = current[s]
          BY <4>1 DEF TypeInv, TypeOK
        <4>3. result'[w] = result[w] \/ (r = s /\ Head(chan[r]).n = id)
          <5>1. DOMAIN result = Worker
            BY DEF TypeInv, TypeOK
          <5>2. result'[w] = result[w] \/ w = <<r, Head(chan[r]).n>>
            BY <1>0, <4>1, <5>1, Zenon
          <5> QED
            BY <5>2
        <4> QED
          BY <3>2, <3>3, <3>4, <3>6, <4>2, <4>3 DEF Moves, Returning
      <3> QED
        BY <3>5, <3>6
    <2>6. CASE ReturnBroadcast(r)
      <3>1. UNCHANGED <<chan, result>>
        BY <2>6 DEF ReturnBroadcast
      <3>2. pc'[w] = pc[w] \/ (pc[w] = "wait" /\ pc'[w] = "woken")
        BY <1>0, <2>6 DEF ReturnBroadcast
      <3>3. r # s => reader'[s] = reader[s] /\ current'[s] = current[s]
        BY <2>6 DEF ReturnBroadcast, TypeInv, TypeOK
      <3>4. r = s => reader'[s] = "reading"
        BY <2>6 DEF ReturnBroadcast, TypeInv, TypeOK
      <3>5. Executing(s, id)' <=> Executing(s, id)
        BY <3>2 DEF Executing
      <3> QED
        BY <2>6, <3>1, <3>3, <3>4, <3>5 DEF Moves, Returning, UnderWay, Answered, In
    <2> QED
      BY <1>7, <2>1, <2>3, <2>4, <2>5, <2>6 DEF ReadSteps
  <1>8. ASSUME NEW t \in Thread, CallSteps(t) PROVE Moves(s, id)
    <2>1. UNCHANGED <<result, reader, current>>
      BY <1>8 DEF CallSteps, CallBegin, CallSent, CallWait, CallEnd, SpuriousWakeup
    <2>2. Executing(s, id)' <=> Executing(s, id)
      <3>1. PICK p : pc' = [pc EXCEPT ![t] = p] /\ p \in {"idle", "send", "sent", "wait", "woken", "result"}
        BY <1>8 DEF CallSteps, CallBegin, CallSent, CallWait, CallEnd, SpuriousWakeup
      <3>2. pc[t] \notin {"none", "ended", "exited"}
        BY <1>8 DEF CallSteps, CallBegin, CallSent, CallWait, CallEnd, SpuriousWakeup, HasConnection
      <3>3. pc'[t] = p /\ (w # t => pc'[w] = pc[w])
        BY <1>0, <3>1, PcMoved
      <3> QED
        BY <3>1, <3>2, <3>3 DEF Executing
    <2>3. /\ UnderWay(s, id) => UnderWay(s, id)'
          /\ Answered(s, id)' <=> Answered(s, id)
      <3>1. CASE CallSent(t)
        <4>1. sock_send(On(t), "C", callId[t], t) /\ pc[t] = "send"
          BY <3>1 DEF CallSent
        <4>2. On(t) \in Side /\ callId[t] \in Nat /\ t \in Thread \cup {NoText}
          BY <4>1, ThreadFacts DEF TypeInv, InCall
        <4>3. \A r \in Side, types \in SUBSET {"C", "R", "E"} :
                In(r, types, id)' <=> In(r, types, id) \/ (~broken /\ r = Other(On(t)) /\ "C" \in types /\ callId[t] = id)
          BY <4>1, <4>2, InSend
        <4> QED
          BY <1>0, <4>3 DEF UnderWay, Answered, Answer
      <3>2. CASE chan' = chan
        BY <3>2 DEF UnderWay, Answered, In
      <3> QED
        BY <1>8, <3>1, <3>2 DEF CallSteps, CallBegin, CallWait, CallEnd, SpuriousWakeup
    <2> QED
      BY <2>1, <2>2, <2>3 DEF Moves, Returning
  <1>9. ASSUME NEW k \in Worker, NEW type \in Answer, NEW end \in Served, Replied(k, type, end) PROVE Moves(s, id)
    <2>1. /\ UNCHANGED <<result, reader, current, broken>> /\ pc' = [pc EXCEPT ![k] = end] /\ pc[k] \in {"dispatch", "result"}
          /\ sock_send(On(k), type, k[2], input[k])
      BY <1>9 DEF Replied
    <2>2. k \in Thread /\ (w # k => pc'[w] = pc[w])
      BY <1>0, <2>1, PcMoved, ThreadFacts
    <2>3. PICK x \in Side, n \in Nat, text \in Thread \cup {NoText} : x = On(k) /\ n = k[2] /\ text = input[k]
      <3>1. On(k) \in Side /\ k[2] \in Nat
        BY ThreadFacts
      <3>2. input[k] \in Thread \cup {NoText}
        BY DEF TypeInv, TypeOK
      <3> QED
        BY <3>1, <3>2
    <2>4. type \in {"request", "version", "C", "R", "E"} /\ type # "C" /\ sock_send(x, type, n, text)
      BY <2>1, <2>3 DEF Answer
    <2>5. \A r \in Side, types \in SUBSET {"C", "R", "E"} :
            In(r, types, id)' <=> In(r, types, id) \/ (~broken /\ r = Other(x) /\ type \in types /\ n = id)
      BY <2>4, InSend
    <2>6. Other(x) = s /\ n = id <=> k = w
      BY <2>3, ThreadFacts
    <2>7. /\ UnderWay(s, id)' <=> UnderWay(s, id)
          /\ Answered(s, id)' <=> Answered(s, id) \/ (~broken /\ k = w)
      BY <1>0, <2>4, <2>5, <2>6 DEF UnderWay, Answered
    <2> QED
      BY <2>1, <2>2, <2>7 DEF Moves, Executing, Returning
  <1> QED
    BY NextCases, <1>2, <1>3, <1>4, <1>6, <1>7, <1>8, <1>9, Zenon DEF ServerSteps

\* What a step may do to thread t, when no wakeup is spurious.
ThreadMoves(t) ==
  /\ pc'[t] = "woken" =>
       /\ callId'[t] = callId[t]
       /\ \/ pc[t] = "woken"
          \/ pc[t] = "wait" /\ Returning(On(t), callId[t]) /\ ReturnBroadcast(On(t))
  /\ pc'[t] \in {"sent", "wait"} =>
       /\ callId'[t] = callId[t]
       /\ \/ pc[t] \in {"sent", "wait"}
          \/ pc[t] = "send" /\ (broken \/ UnderWay(On(t), callId[t])')

\* Every step moves a thread as ThreadMoves says.
LEMMA ThreadStep ==
  ASSUME TypeInv, ~SpuriousWakeups, CallInv, Next, NEW t \in Thread
  PROVE  ThreadMoves(t)
  <1> USE SideFacts DEF connection, table, readers, setup, threads
  <1>1. ASSUME pc'[t] = pc[t], callId'[t] = callId[t] PROVE ThreadMoves(t)
    BY <1>1 DEF ThreadMoves
  <1>2. CASE CrashStep \/ Quiet \/ ServerSteps \/ Break
    BY <1>1, <1>2 DEF CrashStep, Crash, ServerSteps, ClientConnect, ServerAccept, NegotiateSend, Break, Quiet,
                ClientWait, ClientCreated, SpuriousInit, HandleDisconnect, callConnectionOpened
  <1>3. ASSUME NEW s \in Side, ReadSteps(s) PROVE ThreadMoves(t)
    <2>1. CASE RequestAnswered(s) \/ HandleVersion(s) \/ HandleReturn(s)
      BY <1>1, <2>1 DEF RequestAnswered, HandleVersion, HandleReturn
    <2>2. CASE HandleCall(s)
      <3>1. UNCHANGED callId /\ (pc' = pc \/ pc' = [pc EXCEPT ![<<Other(s), Head(chan[s]).n>>] = "dispatch"])
        BY <2>2 DEF HandleCall
      <3>2. pc'[t] = pc[t] \/ pc'[t] = "dispatch"
        <4>1. DOMAIN pc = Thread
          BY DEF TypeInv, TypeOK
        <4> QED
          BY <3>1, <4>1, Zenon
      <3> QED
        BY <1>1, <3>1, <3>2 DEF ThreadMoves
    <2>3. CASE ReturnBroadcast(s)
      <3>1. UNCHANGED callId /\ reader[s] = "broadcast"
        BY <2>3 DEF ReturnBroadcast
      <3>2. pc'[t] = IF CallOf(t, s, current[s]) /\ pc[t] = "wait" THEN "woken" ELSE pc[t]
        BY <2>3 DEF ReturnBroadcast
      <3>3. CASE CallOf(t, s, current[s]) /\ pc[t] = "wait"
        <4>1. On(t) = s /\ callId[t] = current[s] /\ pc'[t] = "woken"
          BY <3>2, <3>3 DEF CallOf
        <4> QED
          BY <2>3, <3>1, <3>3, <4>1 DEF ThreadMoves, Returning
      <3>4. CASE ~(CallOf(t, s, current[s]) /\ pc[t] = "wait")
        BY <1>1, <3>1, <3>2, <3>4
      <3> QED
        BY <3>3, <3>4
    <2> QED
      BY <1>3, <2>1, <2>2, <2>3 DEF ReadSteps
  <1>4. ASSUME NEW u \in Thread, CallSteps(u) PROVE ThreadMoves(t)
    <2>1. CASE u # t
      <3>1. /\ \E p : pc' = [pc EXCEPT ![u] = p]
            /\ \E c : callId' = [callId EXCEPT ![u] = c]
        BY <1>4 DEF CallSteps, CallBegin, CallSent, CallWait, CallEnd, SpuriousWakeup, TypeInv, TypeOK
      <3>2. DOMAIN pc = Thread /\ DOMAIN callId = Thread
        BY DEF TypeInv, TypeOK
      <3>3. pc'[t] = pc[t] /\ callId'[t] = callId[t]
        BY <2>1, <3>1, <3>2, Zenon
      <3> QED
        BY <1>1, <3>3
    <2>2. CASE u = t
      <3>1. CASE CallBegin(t) \/ CallEnd(t)
        <4>1. PICK p \in {"send", "idle", "result"} : pc' = [pc EXCEPT ![t] = p]
          BY <3>1 DEF CallBegin, CallEnd
        <4>2. pc'[t] \in {"send", "idle", "result"}
          BY <4>1, PcMoved
        <4> QED
          BY <4>2 DEF ThreadMoves
      <3>2. CASE CallWait(t)
        <4>1. pc' = [pc EXCEPT ![t] = "wait"] /\ UNCHANGED callId /\ pc[t] = "sent"
          BY <3>2 DEF CallWait
        <4>2. pc'[t] = "wait"
          BY <4>1, PcMoved
        <4> QED
          BY <4>1, <4>2 DEF ThreadMoves
      <3>3. CASE CallSent(t)
        <4>1. /\ pc' = [pc EXCEPT ![t] = "sent"] /\ UNCHANGED callId /\ pc[t] = "send"
              /\ sock_send(On(t), "C", callId[t], t)
          BY <3>3 DEF CallSent
        <4>2. pc'[t] = "sent"
          BY <4>1, PcMoved
        <4>3. PICK s \in Side, id \in Nat, text \in Thread \cup {NoText} : s = On(t) /\ id = callId[t] /\ text = t
          BY <4>1, ThreadFacts DEF TypeInv, InCall
        <4>4. In(Other(s), {"C"}, id)' <=> In(Other(s), {"C"}, id) \/ (~broken /\ Other(s) = Other(s) /\ "C" \in {"C"} /\ id = id)
          BY <4>1, <4>3, InSend
        <4>5. broken \/ UnderWay(s, id)'
          BY <4>4 DEF UnderWay
        <4>6. broken \/ UnderWay(On(t), callId[t])'
          BY <4>1, <4>3, <4>5 DEF UnderWay, In
        <4> QED
          BY <4>1, <4>2, <4>6 DEF ThreadMoves
      <3> QED
        BY <1>4, <2>2, <3>1, <3>2, <3>3 DEF CallSteps, SpuriousWakeup
    <2> QED
      BY <2>1, <2>2
  <1>5. ASSUME NEW k \in Worker, NEW type \in Answer, NEW end \in Served, Replied(k, type, end) PROVE ThreadMoves(t)
    <2>1. UNCHANGED callId /\ pc' = [pc EXCEPT ![k] = end] /\ k \in Thread
      BY <1>5, ThreadFacts DEF Replied
    <2>2. pc'[t] = pc[t] \/ pc'[t] \in Served
      BY <2>1, PcMoved
    <2> QED
      BY <1>1, <2>1, <2>2 DEF ThreadMoves, Served
  <1> QED
    BY NextCases, <1>2, <1>3, <1>4, <1>5, Zenon

\* Only the thread that made a call, woken, deletes it from outstandingCalls.
LEMMA TableStep ==
  ASSUME TypeInv, Next, NEW s \in Side, NEW id \in outstandingCalls[s], id \notin outstandingCalls'[s]
  PROVE  \E t \in Thread : pc[t] = "woken" /\ On(t) = s /\ callId[t] = id
  <1> USE SideFacts, ThreadFacts DEF connection, table, readers, setup, threads
  <1>0. outstandingCalls \in [Side -> SUBSET (0..MaxCalls)]
    BY DEF TypeInv, TypeOK
  <1>1. outstandingCalls' # outstandingCalls
    OBVIOUS
  <1>2. CASE CrashStep \/ Quiet \/ ServerSteps \/ Break
    BY <1>1, <1>2 DEF CrashStep, Crash, ServerSteps, ClientConnect, ServerAccept, NegotiateSend, Break, Quiet,
                ClientWait, ClientCreated, SpuriousInit, HandleDisconnect, callConnectionOpened
  <1>3. ASSUME NEW r \in Side, ReadSteps(r) PROVE FALSE
    BY <1>1, <1>3 DEF ReadSteps, RequestAnswered, HandleVersion, HandleCall, HandleReturn, ReturnBroadcast
  <1>4. ASSUME NEW t \in Thread, CallSteps(t) PROVE pc[t] = "woken" /\ On(t) = s /\ callId[t] = id
    <2>1. CASE CallEnd(t)
      BY <1>0, <2>1 DEF CallEnd
    <2>2. CASE CallBegin(t)
      BY <1>0, <2>2 DEF CallBegin
    <2> QED
      BY <1>1, <1>4, <2>1, <2>2 DEF CallSteps, CallSent, CallWait, SpuriousWakeup
  <1>5. ASSUME NEW k \in Worker, NEW type \in Answer, NEW end \in Served, Replied(k, type, end) PROVE FALSE
    BY <1>1, <1>5 DEF Replied
  <1> QED
    BY NextCases, <1>2, <1>3, <1>4, <1>5, Zenon

\* A lost connection stays lost.
LEMMA BrokenStep ==
  ASSUME Next, broken
  PROVE  broken'
  <1> USE DEF connection, table, readers, setup, threads
  <1>1. CASE CrashStep \/ Quiet \/ ServerSteps \/ Break
    BY <1>1 DEF CrashStep, Crash, ServerSteps, ClientConnect, ServerAccept, NegotiateSend, Break, Quiet,
                ClientWait, ClientCreated, SpuriousInit, HandleDisconnect, callConnectionOpened
  <1>2. ASSUME NEW r \in Side, ReadSteps(r) PROVE broken'
    BY <1>2 DEF ReadSteps, RequestAnswered, HandleVersion, HandleCall, HandleReturn, ReturnBroadcast
  <1>3. ASSUME NEW t \in Thread, CallSteps(t) PROVE broken'
    BY <1>3 DEF CallSteps, CallBegin, CallEnd, CallSent, CallWait, SpuriousWakeup
  <1>4. ASSUME NEW k \in Worker, NEW type \in Answer, NEW end \in Served, Replied(k, type, end) PROVE broken'
    BY <1>4 DEF Replied
  <1> QED
    BY NextCases, <1>1, <1>2, <1>3, <1>4, Zenon

-----------------------------------------------------------------------------
(* The life of a call. *)

\* A caller that goes on has its own answer, and nothing of its call is left.
WakeInv ==
  \A t \in Thread : pc[t] = "woken" =>
    /\ pc[<<On(t), callId[t]>>] \in Served
    /\ ~Answered(On(t), callId[t]) /\ ~Returning(On(t), callId[t])
    /\ result[<<On(t), callId[t]>>].text = t

\* A call is in one of its places.
Somewhere(s, id) == UnderWay(s, id) \/ Answered(s, id) \/ Executing(s, id) \/ Returning(s, id)

\* So is every call whose caller waits, while the connection lasts.
SomewhereInv == \A t \in Thread : pc[t] \in {"sent", "wait"} /\ ~broken => Somewhere(On(t), callId[t])

\* The life of a call.
LifeInv == WakeInv /\ BroadcastBeforeFree /\ SomewhereInv

\* Every step keeps WakeInv.
LEMMA WakeStep ==
  ASSUME TypeInv, TypeInv', StartInv, CallInv, CallInv', NoCallDropped, WakeInv, ~SpuriousWakeups, Next
  PROVE  WakeInv'
  <1> SUFFICES ASSUME NEW t \in Thread, pc'[t] = "woken"
               PROVE  /\ pc'[<<On(t), callId'[t]>>] \in Served
                      /\ ~Answered(On(t), callId[t])' /\ ~Returning(On(t), callId[t])'
                      /\ result'[<<On(t), callId'[t]>>].text = t
    BY DEF WakeInv
  <1> USE SideFacts, ThreadFacts
  <1>1. /\ callId'[t] = callId[t]
        /\ \/ pc[t] = "woken"
           \/ pc[t] = "wait" /\ Returning(On(t), callId[t]) /\ ReturnBroadcast(On(t))
    BY ThreadStep DEF ThreadMoves
  <1>2. PICK s \in Side, id \in 0..MaxCalls : s = On(t) /\ id = callId[t] /\ id = callId'[t]
    BY <1>1 DEF TypeInv, InCall
  <1>3. <<s, id>> \in Worker /\ InCall(t)
    BY <1>1 DEF InCall
  <1> SUFFICES /\ pc'[<<s, id>>] \in Served /\ ~Answered(s, id)' /\ ~Returning(s, id)'
               /\ result'[<<s, id>>].text = t
    BY <1>2 DEF Answered, Returning, In
  <1>4. Moves(s, id)
    BY MovesStep
  <1>5. CASE pc[t] = "woken"
    <2>1. /\ pc[<<s, id>>] \in Served /\ ~Answered(s, id) /\ ~Returning(s, id)
          /\ result[<<s, id>>].text = t
      BY <1>2, <1>5 DEF WakeInv
    <2>2. pc'[<<s, id>>] = pc[<<s, id>>]
      BY <1>3, <2>1, ExecutedStep
    <2> QED
      BY <1>4, <2>1, <2>2 DEF Moves, Served
  <1>6. CASE Returning(s, id) /\ ReturnBroadcast(s)
    <2>1. reader[s] = "broadcast" /\ current[s] = id
      BY <1>6 DEF Returning
    <2>2. /\ pc[<<s, id>>] \in Served /\ result[<<s, id>>].text = t
          /\ \A i \in 1..Len(chan[s]) : chan[s][i].type \in Answer => chan[s][i].n # id
      <3>1. pc[<<s, id>>] \in Served
        BY <2>1, Zenon DEF CallInv, BroadcastServed
      <3>2. result[<<s, id>>].text = t
        BY <1>2, <1>3, <2>1, Zenon DEF CallInv, TextBroadcast
      <3>3. \A i \in 1..Len(chan[s]) : chan[s][i].type \in Answer => chan[s][i].n # id
        BY <2>1, Zenon DEF CallInv, NotBroadcast
      <3> QED
        BY <3>1, <3>2, <3>3
    <2>3. UNCHANGED <<chan, result>> /\ reader'[s] = "reading"
      BY <1>6 DEF ReturnBroadcast, table, TypeInv, TypeOK
    <2>4. pc'[<<s, id>>] = pc[<<s, id>>]
      BY <1>3, <2>2, ExecutedStep
    <2> QED
      BY <2>2, <2>3, <2>4 DEF Answered, In, Returning
  <1> QED
    BY <1>1, <1>2, <1>5, <1>6

\* Every step keeps BroadcastBeforeFree.
LEMMA FreeStep ==
  ASSUME TypeInv, TypeInv', StartInv, CallInv, CallInv', NoCallDropped, WakeInv, BroadcastBeforeFree, Next
  PROVE  BroadcastBeforeFree'
  <1> SUFFICES ASSUME NEW s \in Side, reader'[s] = "broadcast", current'[s] \notin outstandingCalls'[s]
               PROVE  FALSE
    BY DEF BroadcastBeforeFree
  <1>1. PICK id \in 0..MaxCalls : id = current'[s]
    BY DEF CallInv, BroadcastServed
  <1>2. Returning(s, id) \/ (Answered(s, id) /\ id \in outstandingCalls[s])
    BY <1>1, MovesStep DEF Moves, Returning
  <1>3. id \in outstandingCalls[s]
    BY <1>2 DEF Returning, BroadcastBeforeFree
  <1>4. PICK t \in Thread : pc[t] = "woken" /\ On(t) = s /\ callId[t] = id
    BY <1>1, <1>3, TableStep
  <1> QED
    BY <1>2, <1>4 DEF WakeInv

\* Every step keeps SomewhereInv.
LEMMA SomewhereStep ==
  ASSUME TypeInv, TypeInv', StartInv, CallInv, NoCallDropped, SomewhereInv, ~SpuriousWakeups, Next
  PROVE  SomewhereInv'
  <1> SUFFICES ASSUME NEW t \in Thread, pc'[t] \in {"sent", "wait"}, ~broken'
               PROVE  Somewhere(On(t), callId[t])'
    BY DEF SomewhereInv
  <1>1. /\ callId'[t] = callId[t]
        /\ \/ pc[t] \in {"sent", "wait"}
           \/ pc[t] = "send" /\ (broken \/ UnderWay(On(t), callId[t])')
    BY ThreadStep DEF ThreadMoves
  <1>2. ~broken
    BY BrokenStep
  <1>3. PICK s \in Side, id \in 0..MaxCalls : s = On(t) /\ id = callId[t] /\ id = callId'[t]
    BY <1>1, ThreadFacts DEF TypeInv, InCall
  <1> SUFFICES Somewhere(s, id)'
    BY <1>3 DEF Somewhere, UnderWay, Answered, Executing, Returning, In
  <1>4. CASE pc[t] = "send" /\ (broken \/ UnderWay(On(t), callId[t])')
    <2>1. UnderWay(s, id)'
      BY <1>2, <1>3, <1>4 DEF UnderWay, In
    <2> QED
      BY <2>1 DEF Somewhere
  <1>5. CASE pc[t] \in {"sent", "wait"}
    <2>1. Somewhere(s, id)
      BY <1>2, <1>3, <1>5 DEF SomewhereInv
    <2>2. id \in outstandingCalls[s]
      BY <1>3, <1>5 DEF CallInv, Issued, InCall
    <2>3. ~(Returning(s, id) /\ ReturnBroadcast(s))
      <3> SUFFICES ASSUME Returning(s, id), ReturnBroadcast(s) PROVE FALSE
        OBVIOUS
      <3>1. reader[s] = "broadcast" /\ current[s] = id
        BY DEF Returning
      <3>2. pc[t] # "sent"
        BY <1>3, <3>1 DEF CallInv, SentNotBroadcast
      <3>3. CallOf(t, s, current[s]) /\ pc[t] = "wait"
        BY <1>3, <1>5, <3>1, <3>2 DEF CallOf
      <3>4. pc'[t] = "woken"
        BY <3>3 DEF ReturnBroadcast
      <3> QED
        BY <3>4
    <2>4. Moves(s, id)
      BY MovesStep
    <2> QED
      BY <2>1, <2>2, <2>3, <2>4 DEF Moves, Somewhere
  <1> QED
    BY <1>1, <1>4, <1>5

\* LifeInv holds initially.
LEMMA LifeInit ==
  ASSUME Init
  PROVE  LifeInv
  <1>1. /\ \A s \in Side : reader[s] = "none"
        /\ \A t \in Thread : pc[t] \in {"idle", "none"}
    BY DEF Init
  <1> QED
    BY <1>1 DEF LifeInv, WakeInv, BroadcastBeforeFree, SomewhereInv

\* A stuttering step keeps LifeInv.
LEMMA LifeStutter ==
  ASSUME LifeInv, UNCHANGED vars
  PROVE  LifeInv'
  BY DEF vars, LifeInv, WakeInv, BroadcastBeforeFree, SomewhereInv, Somewhere, UnderWay, Answered, Executing, Returning, In

\* LifeInv is an invariant, when pthread_cond_wait returns only after a
\* broadcast.
THEOREM LifeInvariance == ~SpuriousWakeups => (Spec => [](BaseInv /\ CallInv /\ OrderInv /\ LifeInv))
  <1> SUFFICES ASSUME ~SpuriousWakeups PROVE Spec => [](BaseInv /\ CallInv /\ OrderInv /\ LifeInv)
    OBVIOUS
  <1>1. Init => LifeInv
    BY LifeInit
  <1>2. BaseInv /\ BaseInv' /\ CallInv /\ CallInv' /\ OrderInv /\ LifeInv /\ [Next]_vars => LifeInv'
    <2> SUFFICES ASSUME BaseInv, BaseInv', CallInv, CallInv', OrderInv, LifeInv, [Next]_vars PROVE LifeInv'
      OBVIOUS
    <2>1. NoCallDropped
      BY OrderNoDrop
    <2>2. TypeInv /\ TypeInv' /\ StartInv /\ WakeInv /\ BroadcastBeforeFree /\ SomewhereInv
      BY DEF BaseInv, LifeInv
    <2>3. CASE Next
      <3>1. WakeInv'
        BY <2>1, <2>2, <2>3, WakeStep
      <3>2. BroadcastBeforeFree'
        BY <2>1, <2>2, <2>3, FreeStep
      <3>3. SomewhereInv'
        BY <2>1, <2>2, <2>3, SomewhereStep
      <3> QED
        BY <3>1, <3>2, <3>3 DEF LifeInv
    <2> QED
      BY <2>3, LifeStutter
  <1> QED
    BY <1>1, <1>2, OrderInvariance, PTL DEF Spec

\* textRPC_call returns the result of its own call, however calls are
\* interleaved, nested and answered.
THEOREM OwnAnswer == ~SpuriousWakeups => (Spec => []AnswerIsOwn)
  <1>1. LifeInv => AnswerIsOwn
    BY DEF LifeInv, WakeInv, AnswerIsOwn
  <1> QED
    BY <1>1, LifeInvariance, PTL

\* A call whose caller waits is in exactly one place.
LEMMA OnePlace ==
  ASSUME TypeInv, CallInv, LifeInv, NEW t \in Thread, pc[t] \in {"sent", "wait"}, ~broken
  PROVE  Places(On(t), callId[t]) = 1
  <1>1. PICK s \in Side, id \in 0..MaxCalls : s = On(t) /\ id = callId[t]
    BY ThreadFacts DEF TypeInv, InCall
  <1> DEFINE C == {i \in 1..Len(chan[Other(s)]) : chan[Other(s)][i].type = "C" /\ chan[Other(s)][i].n = id}
             R == {i \in 1..Len(chan[s]) : chan[s][i].type \in {"R", "E"} /\ chan[s][i].n = id}
             x == IF pc[<<s, id>>] \in {"none", "ended", "exited"} THEN 0 ELSE 1
             b == IF reader[s] = "broadcast" /\ current[s] = id THEN 1 ELSE 0
  <1> SUFFICES Cardinality(C) + Cardinality(R) + x + b = 1
    BY <1>1 DEF Places
  <1>2. UnderWay(s, id) \/ Answered(s, id) \/ Executing(s, id) \/ Returning(s, id)
    BY <1>1 DEF LifeInv, SomewhereInv, Somewhere
  <1>3. /\ x = IF Executing(s, id) THEN 1 ELSE 0
        /\ b = IF Returning(s, id) THEN 1 ELSE 0
    BY DEF Executing, Returning
  <1>4. C # {} <=> UnderWay(s, id)
    BY DEF UnderWay, In
  <1>5. R # {} <=> Answered(s, id)
    BY DEF Answered, In, Answer
  <1>6. UnderWay(s, id) => pc[<<s, id>>] = "none"
    BY SideFacts DEF UnderWay, In, CallInv, CallFresh
  <1>7. Answered(s, id) => pc[<<s, id>>] \in Served /\ ~Returning(s, id)
    BY DEF Answered, In, CallInv, AnswerServed, NotBroadcast, Returning
  <1>8. Returning(s, id) => pc[<<s, id>>] \in Served
    BY DEF Returning, CallInv, BroadcastServed
  <1>9. C = {} \/ \E i : C = {i}
    <2>1. \A i, j \in C : i = j
      BY SideFacts DEF CallInv, OneCall
    <2> HIDE DEF C
    <2> QED
      BY <2>1
  <1>10. R = {} \/ \E i : R = {i}
    <2>1. \A i, j \in R : i = j
      BY SideFacts DEF CallInv, OneAnswer, Answer
    <2> HIDE DEF R
    <2> QED
      BY <2>1
  <1>11. Cardinality({}) = 0 /\ \A i : Cardinality({i}) = 1
    BY FS_EmptySet, FS_Singleton
  <1> HIDE DEF C, R, x, b
  <1>12. /\ Cardinality(C) = IF UnderWay(s, id) THEN 1 ELSE 0
         /\ Cardinality(R) = IF Answered(s, id) THEN 1 ELSE 0
    BY <1>4, <1>5, <1>9, <1>10, <1>11
  <1>13. /\ UnderWay(s, id) => ~Answered(s, id) /\ ~Executing(s, id) /\ ~Returning(s, id)
         /\ Answered(s, id) => ~Executing(s, id) /\ ~Returning(s, id)
         /\ Executing(s, id) => ~Returning(s, id)
    BY <1>6, <1>7, <1>8 DEF Executing, Served
  <1> QED
    BY <1>2, <1>3, <1>12, <1>13

\* No message, execution or wakeup of a call is lost or duplicated while the
\* connection lasts, and textRPC_call does not free a call of which
\* handleReturn has yet to broadcast the condition.
THEOREM Tracked == ~SpuriousWakeups => (Spec => []CallsTracked)
  <1>1. BaseInv /\ CallInv /\ LifeInv => CallsTracked
    <2> SUFFICES ASSUME BaseInv, CallInv, LifeInv PROVE CallsTracked
      OBVIOUS
    <2>1. TypeInv /\ TypeOK
      BY DEF BaseInv, TypeInv
    <2>2. CallSomewhere
      BY <2>1, OnePlace DEF CallSomewhere
    <2> QED
      BY <2>1, <2>2 DEF CallsTracked, LifeInv
  <1> QED
    BY <1>1, LifeInvariance, PTL
=============================================================================
