----------------------------- MODULE ByteQueue -----------------------------
(***************************************************************************)
(* The ring buffer of byteQueueC.c (byteQueue.cpp is its C++ twin), which  *)
(* passes bytes from one writer thread to one reader thread: writes to a   *)
(* full queue drop bytes, reads from an empty one block, and streams are   *)
(* separated by an end mark that the reader has to see before the next one *)
(* may start.                                                              *)
(*                                                                         *)
(* Everything happens under one pthread mutex; a step is a lock operation, *)
(* one turn of a copy loop, or the code from there to the unlock.          *)
(***************************************************************************)
EXTENDS Integers, Sequences

CONSTANTS Size,        \* bytes in the buffer
          MaxWrite,    \* bound: bytes in one write
          MaxRead,     \* bound: bytes in one read request
          Period,      \* bytes are numbered modulo this, to tell them apart
          MaxSpurious  \* bound: how often pthread_cond_wait returns without a signal

ASSUME ByteQueueAssumption ==
  /\ Size \in Nat \ {0}              \* assert( size != 0 ) in byteQueue_create
  /\ MaxWrite \in Nat \ {0}
  /\ MaxRead \in Nat \ {0}
  /\ Period \in Nat \ {0}
  /\ MaxSpurious \in Nat

VARIABLES buffer, head, tail, isFull,
          endOfStream, endOfStreamReported,
          mutex,       \* "writer", "reader" or "free"
          waiting,     \* who sleeps on the condition variable
          wpc, data, wasEmpty,        \* the writer: its place, bytes still to write
          stream, next,               \* the writer's test data: which stream, which byte
          rpc, request, result,       \* the reader: its place, request, bytes got so far
          spurious                    \* spurious wakeups so far

queue  == <<buffer, head, tail, isFull>>
ends   == <<endOfStream, endOfStreamReported>>
writer == <<wpc, data, wasEmpty, stream, next>>
reader == <<rpc, request, result>>
vars   == <<buffer, head, tail, isFull, endOfStream, endOfStreamReported, mutex, waiting,
            wpc, data, wasEmpty, stream, next, rpc, request, result, spurious>>

\* A byte carries the parity of its stream and its number, so that a byte out of
\* place is noticed.
Byte == {0, 1} \X (0..(Period - 1))

\* byteQueue_create
Init ==
  /\ buffer = [i \in 0..(Size - 1) |-> <<0, 0>>]
  /\ head = 0 /\ tail = 0 /\ isFull = FALSE
  /\ endOfStream = TRUE
  /\ endOfStreamReported = FALSE
  /\ mutex = "free"
  /\ waiting = {}
  /\ wpc = "client" /\ data = << >> /\ wasEmpty = FALSE
  /\ stream = 0 /\ next = 0
  /\ rpc = "client" /\ request = 0 /\ result = << >>
  /\ spurious = 0

Full == isFull /\ head = tail

Empty == head = tail /\ ~isFull

Min(a, b) == IF a < b THEN a ELSE b

Lock(who) == mutex = "free" /\ mutex' = who
Unlock == mutex' = "free"

-----------------------------------------------------------------------------
(* byteQueue_writeData *)

WriteStart ==
  /\ wpc = "client"
  /\ ~endOfStream                    \* assert( !byteQueue_isEndOfStream( bq ) )
  /\ Lock("writer")
  /\ wpc' = "write"
  /\ \E n \in 1..MaxWrite :
       /\ data' = [i \in 1..n |-> <<stream, (next + i - 1) % Period>>]
       /\ next' = (next + n) % Period
  /\ wasEmpty' = Empty
  /\ UNCHANGED <<queue, ends, waiting, stream, reader>>

\* bytesToCopy, from the tail to the head or to the end of the buffer.
Mut_WriteSpanToEnd == Size - tail

WriteSpan == IF head > tail THEN head - tail ELSE Size - tail

\* One turn of the copy loop.
WriteCopy ==
  LET n == Min(WriteSpan, Len(data))
      newTail == IF tail + n = Size THEN 0 ELSE tail + n
  IN
  /\ wpc = "write" /\ data # << >> /\ ~Full
  /\ buffer' = [i \in 0..(Size - 1) |-> IF i \in tail..(tail + n - 1) THEN data[i - tail + 1] ELSE buffer[i]]
  /\ tail' = newTail
  /\ isFull' = (isFull \/ head = newTail)
  /\ data' = SubSeq(data, n + 1, Len(data))
  /\ waiting' = IF wasEmpty THEN {} ELSE waiting
  /\ wasEmpty' = FALSE
  /\ UNCHANGED <<head, ends, mutex, wpc, stream, next, reader>>

\* All bytes are written, or the queue is full and the rest is dropped.
WriteReturn ==
  /\ wpc = "write" /\ (data = << >> \/ Full)
  /\ wpc' = "client"
  /\ data' = << >>
  /\ Unlock
  /\ UNCHANGED <<queue, ends, waiting, wasEmpty, stream, next, reader>>

-----------------------------------------------------------------------------
(* byteQueue_writeEndOfStream, byteQueue_writeStartOfStream *)

Mut_WriteEndOfStreamSilent ==
  /\ wpc = "client"
  /\ mutex = "free"
  /\ ~endOfStream
  /\ endOfStreamReported' = FALSE
  /\ endOfStream' = TRUE
  /\ UNCHANGED <<queue, mutex, waiting, writer, reader>>

\* Lock, mark, broadcast, unlock.  At the end of a stream already, it does nothing.
WriteEndOfStream ==
  /\ wpc = "client"
  /\ mutex = "free"
  /\ ~endOfStream
  /\ endOfStreamReported' = FALSE
  /\ endOfStream' = TRUE
  /\ waiting' = {}
  /\ UNCHANGED <<queue, mutex, writer, reader>>

StartLock ==
  /\ wpc = "client"
  /\ endOfStream                     \* assert( bq->endOfStream )
  /\ Lock("writer")
  /\ wpc' = "start"
  /\ UNCHANGED <<queue, ends, waiting, data, wasEmpty, stream, next, reader>>

StartWait ==
  /\ wpc = "start" /\ ~endOfStreamReported
  /\ wpc' = "startWait"
  /\ waiting' = waiting \cup {"writer"}
  /\ Unlock
  /\ UNCHANGED <<queue, ends, data, wasEmpty, stream, next, reader>>

StartWake ==
  /\ wpc = "startWait" /\ "writer" \notin waiting
  /\ Lock("writer")
  /\ wpc' = "start"
  /\ UNCHANGED <<queue, ends, waiting, data, wasEmpty, stream, next, reader>>

Mut_StartBeginImpatient ==
  /\ wpc = "start"
  /\ endOfStream' = FALSE
  /\ stream' = 1 - stream
  /\ wpc' = "client"
  /\ Unlock
  /\ UNCHANGED <<queue, endOfStreamReported, waiting, data, wasEmpty, next, reader>>

StartBegin ==
  /\ wpc = "start" /\ endOfStreamReported
  /\ endOfStream' = FALSE
  /\ stream' = 1 - stream
  /\ wpc' = "client"
  /\ Unlock
  /\ UNCHANGED <<queue, endOfStreamReported, waiting, data, wasEmpty, next, reader>>

-----------------------------------------------------------------------------
(* ByteQueue_readData *)

ReadStart ==
  /\ rpc = "client"
  /\ Lock("reader")
  /\ rpc' = "read"
  /\ request' \in 1..MaxRead
  /\ UNCHANGED <<queue, ends, waiting, result, writer>>

Missing == request - Len(result)

AtEnd == endOfStream /\ ~endOfStreamReported

ReadWait ==
  /\ rpc = "read" /\ Missing > 0
  /\ Empty /\ ~AtEnd
  /\ rpc' = "readWait"
  /\ waiting' = waiting \cup {"reader"}
  /\ Unlock
  /\ UNCHANGED <<queue, ends, request, result, writer>>

ReadWake ==
  /\ rpc = "readWait" /\ "reader" \notin waiting
  /\ Lock("reader")
  /\ rpc' = "read"
  /\ UNCHANGED <<queue, ends, waiting, request, result, writer>>

\* bytesToCopy, from the head to the tail or to the end of the buffer.
Mut_ReadSpanStrict == IF tail < head THEN Size - head ELSE tail - head

ReadSpan == IF tail <= head THEN Size - head ELSE tail - head

\* One turn of the copy loop.
ReadCopy ==
  LET n == Min(ReadSpan, Missing) IN
  /\ rpc = "read" /\ Missing > 0 /\ ~Empty
  /\ result' = result \o [i \in 1..n |-> buffer[head + i - 1]]
  /\ isFull' = (isFull /\ head # tail)
  /\ head' = IF head + n = Size THEN 0 ELSE head + n
  /\ UNCHANGED <<buffer, tail, ends, mutex, waiting, rpc, request, writer>>

\* The request is filled.
ReadReturn ==
  /\ rpc = "read" /\ Missing = 0
  /\ rpc' = "client" /\ request' = 0 /\ result' = << >>
  /\ Unlock
  /\ UNCHANGED <<queue, ends, waiting, writer>>

Mut_ReadReturnShortSilent ==
  /\ rpc = "read" /\ Missing > 0
  /\ Empty /\ AtEnd
  /\ endOfStreamReported' = TRUE
  /\ rpc' = "client" /\ request' = 0 /\ result' = << >>
  /\ Unlock
  /\ UNCHANGED <<queue, endOfStream, waiting, writer>>

\* The stream has ended: fewer bytes than asked for are returned, which tells the
\* reader so.
ReadReturnShort ==
  /\ rpc = "read" /\ Missing > 0
  /\ Empty /\ AtEnd
  /\ endOfStreamReported' = TRUE
  /\ waiting' = {}
  /\ rpc' = "client" /\ request' = 0 /\ result' = << >>
  /\ Unlock
  /\ UNCHANGED <<queue, endOfStream, writer>>

SpuriousWakeup ==
  /\ spurious < MaxSpurious /\ spurious' = spurious + 1
  /\ \E who \in waiting : waiting' = waiting \ {who}
  /\ UNCHANGED <<queue, ends, mutex, writer, reader>>

-----------------------------------------------------------------------------
Writing == WriteCopy \/ WriteReturn \/ StartWait \/ StartWake \/ StartBegin

Reading == ReadWait \/ ReadWake \/ ReadCopy \/ ReadReturn \/ ReadReturnShort

Calling == WriteStart \/ WriteEndOfStream \/ StartLock \/ ReadStart

Next ==
  \/ (Calling \/ Writing \/ Reading) /\ UNCHANGED spurious
  \/ SpuriousWakeup

Spec == Init /\ [][Next]_vars

\* Both threads go on while they are not blocked, and the reader keeps reading.
\* The writer need not write.
FairSpec ==
  /\ Spec
  /\ WF_vars(Writing /\ UNCHANGED spurious)
  /\ WF_vars((ReadStart \/ Reading) /\ UNCHANGED spurious)

-----------------------------------------------------------------------------
(* Properties *)

\* Types of the fields of sByteQueue and of the locals of its functions.
TypeOK ==
  /\ buffer \in [0..(Size - 1) -> Byte]
  /\ head \in 0..(Size - 1)
  /\ tail \in 0..(Size - 1)
  /\ isFull \in BOOLEAN
  /\ endOfStream \in BOOLEAN
  /\ endOfStreamReported \in BOOLEAN
  /\ mutex \in {"free", "writer", "reader"}
  /\ waiting \subseteq {"writer", "reader"}
  /\ wpc \in {"client", "write", "start", "startWait"}
  /\ data \in Seq(Byte) /\ Len(data) <= MaxWrite
  /\ wasEmpty \in BOOLEAN
  /\ stream \in {0, 1}
  /\ next \in 0..(Period - 1)
  /\ rpc \in {"client", "read", "readWait"}
  /\ request \in 0..MaxRead
  /\ result \in Seq(Byte) /\ Len(result) <= request
  /\ spurious \in 0..MaxSpurious

\* Both indices stay in the ring, all else has its type, the flag that tells a
\* full ring from an empty one is set only when head and tail meet, and the
\* asserts of the copy loops hold: every turn copies something, stays inside
\* the buffer, and leaves a queue that is not empty behind.
RingSound ==
  /\ TypeOK
  /\ isFull => head = tail
  /\ wpc = "write" /\ data # << >> /\ ~Full => WriteSpan > 0 /\ tail + Min(WriteSpan, Len(data)) <= Size
  /\ rpc = "read" /\ Missing > 0 /\ ~Empty => ReadSpan > 0 /\ head + Min(ReadSpan, Missing) <= Size
  /\ wpc = "write" /\ ~wasEmpty => ~Empty

\* The reader never gets bytes of two streams in one read, however the end and
\* start marks, partial reads and wakeups interleave.
OneStreamPerRead ==
  \A i, j \in 1..Len(result) : result[i][1] = result[j][1]

\* Nobody sleeps through an event: with the mutex free, a sleeping reader has
\* neither data nor an unreported end of stream to see, and a sleeping writer has
\* no report to act on.  (Broadcasts are given only on the change from empty, at
\* the end of a stream, and at a short read.)
NobodySleepsInVain ==
  mutex = "free" =>
    /\ "reader" \in waiting => Empty /\ ~AtEnd
    /\ "writer" \in waiting => ~endOfStreamReported

Used == IF isFull THEN Size ELSE (tail - head) % Size

Stream == INSTANCE ByteStream WITH
  Byte     <- Byte,
  Capacity <- Size,
  contents <- [i \in 1..Used |-> buffer[(head + i - 1) % Size]],
  ended    <- endOfStream,
  endSeen  <- endOfStreamReported

\* The ring buffer is a bounded FIFO of bytes in which a stream starts only after
\* the previous one has been read to its end.
ImplementsByteStream == Stream!Spec

\* A reader that keeps reading is told of every end of stream, also one that
\* comes while it sleeps in the middle of a read.
EndIsReported == AtEnd ~> ~AtEnd

\* byteQueue_writeStartOfStream, which blocks until the reader has seen the end of
\* the previous stream, returns if the reader keeps reading.
StartReturns == (wpc = "start") ~> (wpc = "client")

(* The ring of byteQueueC.c is sound, and nobody sleeps on its condition   *)
(* for something that has already happened.                                *)
ByteQueueSound == RingSound /\ NobodySleepsInVain

(* Neither side of byteQueueC.c is stuck at the border of two streams: the *)
(* end is reported to a reader that keeps reading, and the writer's        *)
(* writeStartOfStream returns.                                             *)
StreamsProgress == EndIsReported /\ StartReturns
=============================================================================
