-------------------------------- MODULE Sock --------------------------------
(***************************************************************************)
(* Sockets of sock.c, in its POSIX build: clients that connect, the        *)
(* server's thread that accepts, and at each end of a connection a thread  *)
(* that reads lines (file_readLine of file.c) and calls the handler of the *)
(* application.                                                            *)
(*                                                                         *)
(* What is written is a sequence of pieces, one for each write: a line, or *)
(* the beginning of one after a short write, which is only warned of.      *)
(* Lines are shorter than the buffers and not empty.                       *)
(***************************************************************************)
EXTENDS Naturals, Sequences, FiniteSetsExt, SequencesExt

CONSTANTS
  SockConn,        \* the connections that clients make, one each
  SockMaxPieces    \* bound on the writes of all

ASSUME SockAssumption == SockMaxPieces \in Nat

VARIABLES
  sockServer,      \* what the server's thread does, and with which connection
  sockPending,     \* connections made and not accepted yet
  sockEnd          \* the two ends of each connection

sockVars == <<sockServer, sockPending, sockEnd>>

Client(k) == <<k, "client">>
Serving(k) == <<k, "server">>
SockEnds == SockConn \X {"client", "server"}
Peer(e) == IF e[2] = "client" THEN Serving(e[1]) ELSE Client(e[1])

(* sent and got: what was written to this end, and what its handler was    *)
(* given; buffer: what its thread has read last, a comment too; blind: a    *)
(* handler was called while data was NULL; broken: reading failed; freed:  *)
(* the connection was freed under its reading thread.                      *)
Unread == << >>  \* what the stack held where the buffer is

NewEnd ==
  [state |-> "none", data |-> FALSE, reader |-> "none", input |-> << >>, buffer |-> Unread,
   sent |-> << >>, got |-> << >>, blind |-> FALSE, broken |-> FALSE, freed |-> FALSE]

(* A server that sock_create_server has made listens already.              *)
SockInit ==
  /\ sockServer = [does |-> "accept", conn |-> CHOOSE k \in SockConn : TRUE]
  /\ sockPending = << >>
  /\ sockEnd = [e \in SockEnds |-> NewEnd]

---------------------------------------------------------------------------
(* Connecting: the connection is complete before its thread starts.        *)

sock_connect(k) ==
  /\ sockEnd[Client(k)].state = "none" /\ sockServer.does # "ended"
  /\ sockEnd' = [sockEnd EXCEPT ![Client(k)].state = "open", ![Client(k)].data = TRUE,
                                ![Client(k)].reader = "reading"]
  /\ sockPending' = Append(sockPending, k)
  /\ UNCHANGED sockServer

(* No memory, host, socket or server: all is released, nothing happened.   *)
ConnectFails(k) ==
  /\ sockEnd[Client(k)].state = "none"
  /\ sockEnd' = [sockEnd EXCEPT ![Client(k)].state = "failed"]
  /\ UNCHANGED <<sockServer, sockPending>>

(* Connected, but no thread: closed again, which the server finds out.     *)
ConnectWithoutThread(k) ==
  /\ sockEnd[Client(k)].state = "none" /\ sockServer.does # "ended"
  /\ sockEnd' = [sockEnd EXCEPT ![Client(k)].state = "closed"]
  /\ sockPending' = Append(sockPending, k)
  /\ UNCHANGED sockServer

(* Nothing stops the reading thread of this end, which uses the connection *)
(* again when a line arrives: what follows then is undefined.              *)
sock_disconnect(k) ==
  /\ sockEnd[Client(k)].state = "open"
  /\ sockEnd' = [sockEnd EXCEPT ![Client(k)].state = "closed",
                                ![Client(k)].freed = @ \/ sockEnd[Client(k)].reader = "reading"]
  /\ UNCHANGED <<sockServer, sockPending>>

---------------------------------------------------------------------------
(* server_thread_func: accept, tell the application, start the thread.     *)

Mut_AcceptRunsThread ==
  /\ sockServer.does = "accept" /\ sockPending # << >>
  /\ sockServer' = [does |-> "handler", conn |-> Head(sockPending)]
  /\ sockPending' = Tail(sockPending)
  /\ sockEnd' = [sockEnd EXCEPT ![Serving(Head(sockPending))].state = "open",
                                ![Serving(Head(sockPending))].reader = "reading"]

ServerAccept ==
  /\ sockServer.does = "accept" /\ sockPending # << >>
  /\ sockServer' = [does |-> "handler", conn |-> Head(sockPending)]
  /\ sockPending' = Tail(sockPending)
  /\ sockEnd' = [sockEnd EXCEPT ![Serving(Head(sockPending))].state = "open"]

(* The handler of the application gives the connection its data.           *)
sock_setUserData ==
  /\ sockServer.does = "handler"
  /\ sockServer' = [sockServer EXCEPT !.does = "run"]
  /\ sockEnd' = [sockEnd EXCEPT ![Serving(sockServer.conn)].data = TRUE]
  /\ UNCHANGED sockPending

ServerRunThread ==
  /\ sockServer.does = "run"
  /\ sockServer' = [sockServer EXCEPT !.does = "accept"]
  /\ sockEnd' = [sockEnd EXCEPT ![Serving(sockServer.conn)].reader = "reading"]
  /\ UNCHANGED sockPending

(* A failure of accept, of malloc or of the thread pool is an assert, and  *)
(* ends the process, as anything else may; the kernel closes its sockets.  *)
ServerEnds ==
  /\ sockServer.does # "ended"
  /\ sockServer' = [sockServer EXCEPT !.does = "ended"]
  /\ sockEnd' = [e \in SockEnds |->
                   IF e[2] = "server" /\ sockEnd[Peer(e)].state \in {"open", "closed"}
                   THEN [sockEnd[e] EXCEPT !.state = "closed",
                           !.reader = IF @ = "reading" THEN "killed" ELSE @]
                   ELSE sockEnd[e]]
  /\ sockPending' = << >>

ClientEnds(k) ==
  /\ sockEnd[Client(k)].state = "open"
  /\ sockEnd' = [sockEnd EXCEPT ![Client(k)].state = "closed",
                                ![Client(k)].reader = IF @ = "reading" THEN "killed" ELSE @]
  /\ UNCHANGED <<sockServer, sockPending>>

---------------------------------------------------------------------------
(* One write.  A short one loses the rest of the line with its newline,    *)
(* and is no error; one to a peer that has gone changes nothing.           *)
sock_send_binary(e, comment, whole) ==
  LET to == sockEnd[Peer(e)]
      piece == [comment |-> comment, number |-> Len(to.sent) + 1, newline |-> whole]
  IN /\ sockEnd[e].state = "open" /\ sockEnd[e].data /\ to.state # "closed"
     /\ MapThenSumSet(LAMBDA f : Len(sockEnd[f].sent), SockEnds) < SockMaxPieces
     /\ sockEnd' = [sockEnd EXCEPT ![Peer(e)].sent = Append(@, piece),
                                   ![Peer(e)].input = Append(@, piece)]
     /\ UNCHANGED <<sockServer, sockPending>>

(* fgets reads up to a newline, or all there is.                           *)
FirstLine(input) ==
  LET ends == {i \in DOMAIN input : input[i].newline}
  IN SubSeq(input, 1, IF ends = {} THEN Len(input) ELSE Min(ends))

Ended(line) == Last(line).newline
IsComment(line) == Head(line).comment
AfterLine(input) == SubSeq(input, Len(FirstLine(input)) + 1, Len(input))

EndOfFile(e) == sockEnd[Peer(e)].state = "closed"

Reading(e) == sockEnd[e].reader = "reading"

(* fgets takes the first line of the input into the buffer.                *)
Fetched(end) == [end EXCEPT !.buffer = FirstLine(end.input), !.input = AfterLine(end.input)]

(* connection->handler(connection, connection->data, SOCK_MESSAGE, buffer) *)
Handled(end) == [end EXCEPT !.got = Append(@, end.buffer), !.blind = @ \/ ~end.data]

Disconnected(end) == [end EXCEPT !.reader = "done", !.blind = @ \/ ~end.data]

SetEnd(e, end) ==
  /\ sockEnd' = [sockEnd EXCEPT ![e] = end]
  /\ UNCHANGED <<sockServer, sockPending>>

(* file_readLine reads on after a comment.                                 *)
ReadComment(e) ==
  LET input == sockEnd[e].input
  IN /\ Reading(e) /\ input # << >>
     /\ Ended(FirstLine(input)) /\ IsComment(FirstLine(input))
     /\ SetEnd(e, Fetched(sockEnd[e]))

ReadMessage(e) ==
  LET input == sockEnd[e].input
  IN /\ Reading(e) /\ input # << >>
     /\ Ended(FirstLine(input)) /\ ~IsComment(FirstLine(input))
     /\ SetEnd(e, Handled(Fetched(sockEnd[e])))

(* The end of the file ends a line, a comment too, and then the loop.      *)
ReadPartial(e) ==
  LET input == sockEnd[e].input
  IN /\ Reading(e) /\ input # << >> /\ ~Ended(FirstLine(input)) /\ EndOfFile(e)
     /\ SetEnd(e, Disconnected(Handled(Fetched(sockEnd[e]))))

(* fgets returns NULL at the end of the file and leaves errno as it was:   *)
(* zero stands for a line, and the handler is given the buffer as it is.   *)
ReadEndOfFile(e) ==
  /\ Reading(e) /\ sockEnd[e].input = << >> /\ EndOfFile(e)
  /\ \E errno \in {"zero", "other"} :
       SetEnd(e, Disconnected(IF errno = "zero" THEN Handled(sockEnd[e]) ELSE sockEnd[e]))

(* An error of the connection; after EINTR the loop just reads again.      *)
ReadFails(e) ==
  /\ Reading(e) /\ EndOfFile(e)
  /\ SetEnd(e, Disconnected([sockEnd[e] EXCEPT !.broken = TRUE]))

SockNext ==
  /\ \A e \in SockEnds : ~sockEnd[e].freed
  /\ \/ \E k \in SockConn :
          sock_connect(k) \/ ConnectFails(k) \/ ConnectWithoutThread(k)
            \/ sock_disconnect(k) \/ ClientEnds(k)
     \/ ServerAccept \/ sock_setUserData \/ ServerRunThread \/ ServerEnds
     \/ \E e \in SockEnds :
          \/ \E comment, whole \in BOOLEAN : sock_send_binary(e, comment, whole)
          \/ ReadComment(e) \/ ReadMessage(e) \/ ReadPartial(e)
          \/ ReadEndOfFile(e) \/ ReadFails(e)

---------------------------------------------------------------------------
(* The application has set the data of a connection before anything of it  *)
(* reaches the handler: the comment in server_thread_func tells of the     *)
(* crash when it had not.                                                  *)
DataBeforeInput == \A e \in SockEnds : ~sockEnd[e].blind

(* The lines that pieces make up, the last one perhaps not ended.          *)
WithPiece(lines, p) ==
  IF lines = << >> \/ Ended(Last(lines)) THEN Append(lines, <<p>>)
  ELSE Front(lines) \o <<Append(Last(lines), p)>>

Lines(pieces) ==
  LET at[n \in 0 .. Len(pieces)] ==
        IF n = 0 THEN << >> ELSE WithPiece(at[n - 1], pieces[n])
  IN at[Len(pieces)]

(* Those of them that are no comments, or ended by the end of the file.    *)
WithLine(given, line, eof) ==
  IF ~IsComment(line) \/ (eof /\ ~Ended(line)) THEN Append(given, line) ELSE given

Given(lines, eof) ==
  LET at[n \in 0 .. Len(lines)] ==
        IF n = 0 THEN << >> ELSE WithLine(at[n - 1], lines[n], eof)
  IN at[Len(lines)]

LastRead(lines) == IF lines = << >> THEN Unread ELSE Last(lines)

(* The handler is given the lines written by the other end, in order, none *)
(* lost or made up, whatever is written, however cut, before the           *)
(* connection is accepted or while it ends; comments are left out.  At the *)
(* end of the file all of them have been given, with an unfinished last    *)
(* one, and at most one more: the buffer with what was read last, a line   *)
(* or a comment, or with nothing that was ever sent.                       *)
LinesHandled ==
  \A e \in SockEnds :
    LET end == sockEnd[e]
        lines == Lines(end.sent)
    IN /\ end.reader \in {"none", "reading"} =>
            Given(lines, FALSE) = end.got \o Given(Lines(end.input), FALSE)
       /\ end.reader = "done" /\ ~end.broken =>
            \/ end.got = Given(lines, TRUE)
            \/ /\ lines = << >> \/ Ended(Last(lines))
               /\ end.got = Append(Given(lines, TRUE), LastRead(lines))

(* The contract of sock.c with the handlers: data first, then every line.  *)
SockSound == DataBeforeInput /\ LinesHandled

(* A connection is freed after its reading thread has ended: sock.c:388    *)
(* asks for it, and sock_disconnect does nothing about it.                 *)
DisconnectIsLast == \A e \in SockEnds : ~sockEnd[e].freed

(* sock.h: SOCK_MESSAGE means that a line has been received.  With errno   *)
(* left at zero the handler is given one line more than there are.         *)
MessageIsNew == \A e \in SockEnds : IsPrefix(sockEnd[e].got, Given(Lines(sockEnd[e].sent), TRUE))
=============================================================================
