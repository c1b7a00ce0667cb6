-------------------------- MODULE ByteQueueProofs --------------------------
(***************************************************************************)
(* The ring of byteQueueC.c for every buffer size, every length of write   *)
(* and read request and any number of spurious wakeups: it is sound, a     *)
(* read never mixes two streams, and it implements the bounded FIFO of     *)
(* ByteStream.  All three rest on one inductive invariant.                 *)
(***************************************************************************)
EXTENDS ByteQueue, SequenceTheorems, TLAPS

\* The places of the ring between head and tail hold bytes not read yet.
Buffered(i) ==
  \/ isFull
  \/ head <= tail /\ head <= i /\ i < tail
  \/ tail < head /\ (head <= i \/ i < tail)

\* The mutex is held exactly by who is inside an operation.
LockInv ==
  /\ mutex = "writer" <=> wpc \in {"write", "start"}
  /\ mutex = "reader" <=> rpc = "read"

\* What the writer's place says: it writes only inside a stream, wasEmpty is still
\* true of the queue while it writes, and it waits only between two streams.
WriterInv ==
  /\ wpc = "write" => ~endOfStream /\ (wasEmpty <=> Empty)
  /\ wpc \in {"start", "startWait"} => endOfStream
  /\ wpc # "write" => data = << >>

\* Between two streams of which the reader has been told of the end, nothing is
\* left: neither in the ring nor in a read that has begun.
ReaderInv ==
  /\ rpc = "client" => result = << >>
  /\ endOfStream /\ endOfStreamReported => Empty /\ result = << >>

\* Who is registered on the condition sleeps, and what it sleeps for has not
\* happened; this holds at every step, not only while the mutex is free.
SleepInv ==
  /\ "reader" \in waiting => rpc = "readWait" /\ Empty /\ ~AtEnd
  /\ "writer" \in waiting => wpc = "startWait" /\ ~endOfStreamReported

\* Every byte on its way (still to write, in the ring, in a read that has begun)
\* belongs to the writer's current stream.
StreamInv ==
  /\ \A i \in 0..(Size - 1) : Buffered(i) => buffer[i][1] = stream
  /\ \A i \in 1..Len(data) : data[i][1] = stream
  /\ \A i \in 1..Len(result) : result[i][1] = stream

\* isFull is set only where head and tail meet.
FullInv == isFull => head = tail

\* The inductive invariant.
Inv == TypeOK /\ FullInv /\ LockInv /\ WriterInv /\ ReaderInv /\ SleepInv /\ StreamInv

\* Bytes are numbered below Period.
LEMMA ModRange ==
  ASSUME NEW m \in Nat \ {0}, NEW a \in Int
  PROVE  a % m \in 0..(m - 1)
  OBVIOUS

\* A queue made by byteQueue_create satisfies the invariant.
LEMMA InitInv == Init => Inv
  <1> SUFFICES ASSUME Init PROVE Inv
    OBVIOUS
  <1>1. TypeOK
    <2>1. << >> \in Seq(Byte) /\ Len(<< >>) = 0
      OBVIOUS
    <2>2. buffer \in [0..(Size - 1) -> Byte]
      BY ByteQueueAssumption DEF Init, Byte
    <2> QED
      BY <2>1, <2>2, ByteQueueAssumption, Z3 DEF Init, TypeOK
  <1>2. StreamInv
    BY ByteQueueAssumption DEF Init, StreamInv, Buffered
  <1>3. FullInv /\ LockInv /\ WriterInv /\ ReaderInv /\ SleepInv
    BY DEF Init, FullInv, LockInv, WriterInv, ReaderInv, SleepInv, Empty, AtEnd
  <1> QED
    BY <1>1, <1>2, <1>3 DEF Inv

\* The start of byteQueue_writeData: new bytes of the current stream.
LEMMA WriteStartInv ==
  ASSUME Inv, WriteStart, UNCHANGED spurious
  PROVE  Inv'
  <1> USE ByteQueueAssumption DEF queue, ends, writer, reader
  <1>0. PICK n \in 1..MaxWrite :
          /\ data' = [i \in 1..n |-> <<stream, (next + i - 1) % Period>>]
          /\ next' = (next + n) % Period
    BY DEF WriteStart
  <1>1. next' \in 0..(Period - 1)
    <2>1. next + n \in Int
      BY DEF Inv, TypeOK
    <2> QED
      BY <1>0, <2>1, ModRange, Zenon
  <1>2. data' \in Seq(Byte) /\ Len(data') = n
    <2>1. ASSUME NEW i \in 1..n PROVE <<stream, (next + i - 1) % Period>> \in Byte
      <3>1. next + i - 1 \in Int /\ stream \in {0, 1}
        BY DEF Inv, TypeOK
      <3>2. (next + i - 1) % Period \in 0..(Period - 1)
        BY <3>1, ModRange, Zenon
      <3> QED
        BY <3>1, <3>2 DEF Byte
    <2> QED
      BY <1>0, <2>1
  <1>3. TypeOK'
    BY <1>1, <1>2, Z3T(20) DEF Inv, TypeOK, WriteStart, Lock, Empty, Byte
  <1>4. StreamInv'
    BY <1>0, <1>2 DEF Inv, StreamInv, WriteStart, Buffered
  <1>5. FullInv' /\ LockInv' /\ WriterInv' /\ ReaderInv' /\ SleepInv'
    BY DEF Inv, TypeOK, FullInv, LockInv, WriterInv, ReaderInv, SleepInv, Empty, AtEnd, WriteStart, Lock
  <1> QED
    BY <1>3, <1>4, <1>5 DEF Inv

\* One turn of the copy loop of byteQueue_writeData stays inside the buffer, leaves
\* a queue that is not empty, and wakes the reader if it was.
LEMMA WriteCopyInv ==
  ASSUME Inv, WriteCopy, UNCHANGED spurious
  PROVE  Inv'
  <1> USE ByteQueueAssumption DEF queue, ends, writer, reader
  <1> DEFINE n == Min(WriteSpan, Len(data))
             newTail == IF tail + n = Size THEN 0 ELSE tail + n
  <1>0. /\ wpc = "write" /\ data # << >> /\ ~Full
        /\ buffer' = [i \in 0..(Size - 1) |-> IF i \in tail..(tail + n - 1) THEN data[i - tail + 1] ELSE buffer[i]]
        /\ tail' = newTail
        /\ isFull' = (isFull \/ head = newTail)
        /\ data' = SubSeq(data, n + 1, Len(data))
    BY DEF WriteCopy
  <1>1. n \in Nat /\ n > 0 /\ n <= Len(data) /\ tail + n <= Size /\ (head > tail => tail + n <= head)
    BY <1>0 DEF Inv, TypeOK, Min, WriteSpan
  <1> HIDE DEF n
  <1>2. tail' \in 0..(Size - 1) /\ isFull' \in BOOLEAN
    BY <1>0, <1>1 DEF Inv, TypeOK
  <1>3. data' \in Seq(Byte) /\ Len(data') = Len(data) - n /\ \A i \in 1..Len(data') : data'[i] = data[i + n]
    <2>1. data \in Seq(Byte) /\ n + 1 \in 1..(Len(data) + 1) /\ Len(data) \in n..Len(data)
      BY <1>1 DEF Inv, TypeOK
    <2> QED
      BY <1>0, <1>1, <2>1, SubSeqProperties
  <1>4. buffer' \in [0..(Size - 1) -> Byte]
    <2>1. ASSUME NEW i \in 0..(Size - 1), i \in tail..(tail + n - 1) PROVE data[i - tail + 1] \in Byte
      BY <1>1, <2>1 DEF Inv, TypeOK
    <2>2. ASSUME NEW i \in 0..(Size - 1) PROVE buffer[i] \in Byte
      BY <2>2 DEF Inv, TypeOK
    <2> QED
      BY <1>0, <2>1, <2>2, Z3
  <1>5. TypeOK'
    <2>1. /\ UNCHANGED <<head, endOfStream, endOfStreamReported, mutex, wpc, stream, next, rpc, request, result>>
          /\ waiting' \subseteq waiting /\ wasEmpty' = FALSE
      BY DEF WriteCopy
    <2>2. Len(data') <= MaxWrite
      BY <1>1, <1>3 DEF Inv, TypeOK
    <2> QED
      BY <1>2, <1>3, <1>4, <2>1, <2>2 DEF Inv, TypeOK, Byte
  <1>6. ASSUME NEW i \in 0..(Size - 1), Buffered(i)' PROVE i \in tail..(tail + n - 1) \/ Buffered(i)
    BY <1>0, <1>1, <1>6 DEF Inv, TypeOK, FullInv, Buffered, WriteCopy
  <1>7. ASSUME NEW i \in 0..(Size - 1), Buffered(i)' PROVE buffer'[i][1] = stream'
    BY <1>0, <1>1, <1>6, <1>7 DEF Inv, TypeOK, StreamInv, WriteCopy
  <1>8. StreamInv'
    <2>1. /\ stream' = stream /\ result' = result
          /\ \A i \in 1..Len(data) : data[i][1] = stream
          /\ \A i \in 1..Len(result) : result[i][1] = stream
      BY DEF Inv, StreamInv, WriteCopy
    <2>2. ASSUME NEW i \in 1..Len(data') PROVE data'[i][1] = stream'
      <3>1. i + n \in 1..Len(data) /\ data'[i] = data[i + n]
        BY <1>1, <1>3 DEF Inv, TypeOK
      <3> QED
        BY <2>1, <3>1, Zenon
    <2> QED
      BY <1>7, <2>1, <2>2 DEF StreamInv
  <1>9. Empty' = FALSE /\ FullInv'
    BY <1>0, <1>1 DEF Inv, TypeOK, FullInv, Full, Empty, WriteCopy
  <1>10. LockInv' /\ WriterInv' /\ ReaderInv' /\ SleepInv'
    BY <1>9 DEF Inv, TypeOK, LockInv, WriterInv, ReaderInv, SleepInv, Empty, AtEnd, WriteCopy
  <1> QED
    BY <1>5, <1>8, <1>9, <1>10 DEF Inv

\* The end of byteQueue_writeData, the rest of the bytes dropped.
LEMMA WriteReturnInv ==
  ASSUME Inv, WriteReturn, UNCHANGED spurious
  PROVE  Inv'
  <1> USE ByteQueueAssumption DEF queue, ends, writer, reader
  <1>1. TypeOK'
    BY DEF Inv, TypeOK, ReaderInv, Byte, WriteReturn, Unlock
  <1>2. StreamInv'
    BY DEF Inv, StreamInv, ReaderInv, WriterInv, Buffered, Empty, WriteReturn, Unlock
  <1>3. FullInv' /\ LockInv' /\ WriterInv' /\ ReaderInv' /\ SleepInv'
    BY DEF Inv, TypeOK, FullInv, LockInv, WriterInv, ReaderInv, SleepInv, Empty, AtEnd, WriteReturn, Unlock
  <1> QED
    BY <1>1, <1>2, <1>3 DEF Inv

\* byteQueue_writeEndOfStream wakes the reader for the end it has not seen.
LEMMA WriteEndOfStreamInv ==
  ASSUME Inv, WriteEndOfStream, UNCHANGED spurious
  PROVE  Inv'
  <1> USE ByteQueueAssumption DEF queue, ends, writer, reader
  <1>1. TypeOK'
    BY DEF Inv, TypeOK, ReaderInv, Byte, WriteEndOfStream
  <1>2. StreamInv'
    BY DEF Inv, StreamInv, ReaderInv, WriterInv, Buffered, Empty, WriteEndOfStream
  <1>3. FullInv' /\ LockInv' /\ WriterInv' /\ ReaderInv' /\ SleepInv'
    BY DEF Inv, TypeOK, FullInv, LockInv, WriterInv, ReaderInv, SleepInv, Empty, AtEnd, WriteEndOfStream
  <1> QED
    BY <1>1, <1>2, <1>3 DEF Inv

\* The entry of byteQueue_writeStartOfStream.
LEMMA StartLockInv ==
  ASSUME Inv, StartLock, UNCHANGED spurious
  PROVE  Inv'
  <1> USE ByteQueueAssumption DEF queue, ends, writer, reader
  <1>1. TypeOK'
    BY DEF Inv, TypeOK, ReaderInv, Byte, StartLock, Lock
  <1>2. StreamInv'
    BY DEF Inv, StreamInv, ReaderInv, WriterInv, Buffered, Empty, StartLock, Lock
  <1>3. FullInv' /\ LockInv' /\ WriterInv' /\ ReaderInv' /\ SleepInv'
    BY DEF Inv, TypeOK, FullInv, LockInv, WriterInv, ReaderInv, SleepInv, Empty, AtEnd, StartLock, Lock
  <1> QED
    BY <1>1, <1>2, <1>3 DEF Inv

\* byteQueue_writeStartOfStream sleeps only while the end is not reported.
LEMMA StartWaitInv ==
  ASSUME Inv, StartWait, UNCHANGED spurious
  PROVE  Inv'
  <1> USE ByteQueueAssumption DEF queue, ends, writer, reader
  <1>1. TypeOK'
    BY DEF Inv, TypeOK, ReaderInv, Byte, StartWait, Unlock
  <1>2. StreamInv'
    BY DEF Inv, StreamInv, ReaderInv, WriterInv, Buffered, Empty, StartWait, Unlock
  <1>3. FullInv' /\ LockInv' /\ WriterInv' /\ ReaderInv' /\ SleepInv'
    BY DEF Inv, TypeOK, FullInv, LockInv, WriterInv, ReaderInv, SleepInv, Empty, AtEnd, StartWait, Unlock
  <1> QED
    BY <1>1, <1>2, <1>3 DEF Inv

\* The writer is back from its wait.
LEMMA StartWakeInv ==
  ASSUME Inv, StartWake, UNCHANGED spurious
  PROVE  Inv'
  <1> USE ByteQueueAssumption DEF queue, ends, writer, reader
  <1>1. TypeOK'
    BY DEF Inv, TypeOK, ReaderInv, Byte, StartWake, Lock
  <1>2. StreamInv'
    BY DEF Inv, StreamInv, ReaderInv, WriterInv, Buffered, Empty, StartWake, Lock
  <1>3. FullInv' /\ LockInv' /\ WriterInv' /\ ReaderInv' /\ SleepInv'
    BY DEF Inv, TypeOK, FullInv, LockInv, WriterInv, ReaderInv, SleepInv, Empty, AtEnd, StartWake, Lock
  <1> QED
    BY <1>1, <1>2, <1>3 DEF Inv

\* A new stream starts with nothing of the old one left anywhere.
LEMMA StartBeginInv ==
  ASSUME Inv, StartBegin, UNCHANGED spurious
  PROVE  Inv'
  <1> USE ByteQueueAssumption DEF queue, ends, writer, reader
  <1>1. TypeOK'
    <2>1. stream' \in {0, 1}
      BY DEF Inv, TypeOK, StartBegin
    <2> QED
      <3>1. /\ mutex' = "free" /\ wpc' = "client" /\ endOfStream' = FALSE
            /\ UNCHANGED <<queue, endOfStreamReported, waiting, data, wasEmpty, next, reader, spurious>>
        BY DEF StartBegin, Unlock
      <3> QED
        BY <2>1, <3>1 DEF Inv, TypeOK, Byte
  <1>2. StreamInv'
    <2>1. Empty /\ result = << >> /\ data = << >> /\ UNCHANGED <<queue, data, result>>
      BY DEF Inv, WriterInv, ReaderInv, StartBegin
    <2>2. ASSUME NEW i \in 0..(Size - 1) PROVE ~Buffered(i)'
      BY <2>1 DEF Inv, TypeOK, Empty, Buffered
    <2>3. Len(data') = 0 /\ Len(result') = 0
      BY <2>1
    <2> QED
      BY <2>2, <2>3 DEF StreamInv
  <1>3. FullInv' /\ LockInv' /\ WriterInv' /\ ReaderInv' /\ SleepInv'
    BY DEF Inv, TypeOK, FullInv, LockInv, WriterInv, ReaderInv, SleepInv, Empty, AtEnd, StartBegin, Unlock
  <1> QED
    BY <1>1, <1>2, <1>3 DEF Inv

\* The entry of ByteQueue_readData.
LEMMA ReadStartInv ==
  ASSUME Inv, ReadStart, UNCHANGED spurious
  PROVE  Inv'
  <1> USE ByteQueueAssumption DEF queue, ends, writer, reader
  <1>1. TypeOK'
    BY DEF Inv, TypeOK, ReaderInv, Byte, ReadStart, Lock
  <1>2. StreamInv'
    BY DEF Inv, StreamInv, ReaderInv, WriterInv, Buffered, Empty, ReadStart, Lock
  <1>3. FullInv' /\ LockInv' /\ WriterInv' /\ ReaderInv' /\ SleepInv'
    BY DEF Inv, TypeOK, FullInv, LockInv, WriterInv, ReaderInv, SleepInv, Empty, AtEnd, ReadStart, Lock
  <1> QED
    BY <1>1, <1>2, <1>3 DEF Inv

\* ByteQueue_readData sleeps only on an empty queue without an end to report.
LEMMA ReadWaitInv ==
  ASSUME Inv, ReadWait, UNCHANGED spurious
  PROVE  Inv'
  <1> USE ByteQueueAssumption DEF queue, ends, writer, reader
  <1>1. TypeOK'
    BY DEF Inv, TypeOK, ReaderInv, Byte, ReadWait, Unlock, Missing
  <1>2. StreamInv'
    BY DEF Inv, StreamInv, ReaderInv, WriterInv, Buffered, Empty, ReadWait, Unlock, Missing
  <1>3. FullInv' /\ LockInv' /\ WriterInv' /\ ReaderInv' /\ SleepInv'
    BY DEF Inv, TypeOK, FullInv, LockInv, WriterInv, ReaderInv, SleepInv, Empty, AtEnd, ReadWait, Unlock, Missing
  <1> QED
    BY <1>1, <1>2, <1>3 DEF Inv

\* The reader is back from its wait.
LEMMA ReadWakeInv ==
  ASSUME Inv, ReadWake, UNCHANGED spurious
  PROVE  Inv'
  <1> USE ByteQueueAssumption DEF queue, ends, writer, reader
  <1>1. TypeOK'
    BY DEF Inv, TypeOK, ReaderInv, Byte, ReadWake, Lock
  <1>2. StreamInv'
    BY DEF Inv, StreamInv, ReaderInv, WriterInv, Buffered, Empty, ReadWake, Lock
  <1>3. FullInv' /\ LockInv' /\ WriterInv' /\ ReaderInv' /\ SleepInv'
    BY DEF Inv, TypeOK, FullInv, LockInv, WriterInv, ReaderInv, SleepInv, Empty, AtEnd, ReadWake, Lock
  <1> QED
    BY <1>1, <1>2, <1>3 DEF Inv

\* ByteQueue_readData with the request filled.
LEMMA ReadReturnInv ==
  ASSUME Inv, ReadReturn, UNCHANGED spurious
  PROVE  Inv'
  <1> USE ByteQueueAssumption DEF queue, ends, writer, reader
  <1>1. TypeOK'
    BY DEF Inv, TypeOK, ReaderInv, Byte, ReadReturn, Unlock
  <1>2. StreamInv'
    BY DEF Inv, StreamInv, ReaderInv, WriterInv, Buffered, Empty, ReadReturn, Unlock
  <1>3. FullInv' /\ LockInv' /\ WriterInv' /\ ReaderInv' /\ SleepInv'
    BY DEF Inv, TypeOK, FullInv, LockInv, WriterInv, ReaderInv, SleepInv, Empty, AtEnd, ReadReturn, Unlock
  <1> QED
    BY <1>1, <1>2, <1>3 DEF Inv

\* ByteQueue_readData at the end of the stream wakes the writer.
LEMMA ReadReturnShortInv ==
  ASSUME Inv, ReadReturnShort, UNCHANGED spurious
  PROVE  Inv'
  <1> USE ByteQueueAssumption DEF queue, ends, writer, reader
  <1>1. TypeOK'
    BY DEF Inv, TypeOK, ReaderInv, Byte, ReadReturnShort, Unlock
  <1>2. StreamInv'
    BY DEF Inv, StreamInv, ReaderInv, WriterInv, Buffered, Empty, ReadReturnShort, Unlock
  <1>3. FullInv' /\ LockInv' /\ WriterInv' /\ ReaderInv' /\ SleepInv'
    BY DEF Inv, TypeOK, FullInv, LockInv, WriterInv, ReaderInv, SleepInv, Empty, AtEnd, ReadReturnShort, Unlock
  <1> QED
    BY <1>1, <1>2, <1>3 DEF Inv

\* A wakeup without a signal disturbs nothing, because both waits are in loops.
LEMMA SpuriousWakeupInv ==
  ASSUME Inv, SpuriousWakeup
  PROVE  Inv'
  <1> USE ByteQueueAssumption DEF queue, ends, writer, reader
  <1>1. TypeOK'
    BY DEF Inv, TypeOK, ReaderInv, Byte, SpuriousWakeup
  <1>2. StreamInv'
    BY DEF Inv, StreamInv, ReaderInv, WriterInv, Buffered, Empty, SpuriousWakeup
  <1>3. FullInv' /\ LockInv' /\ WriterInv' /\ ReaderInv' /\ SleepInv'
    BY DEF Inv, TypeOK, FullInv, LockInv, WriterInv, ReaderInv, SleepInv, Empty, AtEnd, SpuriousWakeup
  <1> QED
    BY <1>1, <1>2, <1>3 DEF Inv

\* One turn of the copy loop of ByteQueue_readData takes bytes that are in the ring.
LEMMA ReadCopyInv ==
  ASSUME Inv, ReadCopy, UNCHANGED spurious
  PROVE  Inv'
  <1> USE ByteQueueAssumption DEF queue, ends, writer, reader
  <1> DEFINE n == Min(ReadSpan, Missing)
             got == [i \in 1..n |-> buffer[head + i - 1]]
  <1>0. /\ rpc = "read" /\ Missing > 0 /\ ~Empty
        /\ result' = result \o got
        /\ isFull' = (isFull /\ head # tail)
        /\ head' = IF head + n = Size THEN 0 ELSE head + n
        /\ UNCHANGED <<buffer, tail, endOfStream, endOfStreamReported, mutex, waiting, rpc, request,
                       wpc, data, wasEmpty, stream, next>>
    BY DEF ReadCopy
  <1>1. /\ n \in Nat /\ n > 0 /\ n <= request - Len(result) /\ head + n <= Size
        /\ tail > head => head + n <= tail
    BY <1>0 DEF Inv, TypeOK, Min, ReadSpan, Missing
  <1> HIDE DEF n
  <1>2. head' \in 0..(Size - 1) /\ isFull' \in BOOLEAN
    BY <1>0, <1>1 DEF Inv, TypeOK
  <1>3. ASSUME NEW i \in 1..n
        PROVE  head + i - 1 \in 0..(Size - 1) /\ Buffered(head + i - 1)
    BY <1>0, <1>1 DEF Inv, TypeOK, FullInv, Buffered, Empty
  <1>4. got \in Seq(Byte) /\ Len(got) = n /\ \A i \in 1..n : got[i] = buffer[head + i - 1]
    BY <1>1, <1>3 DEF Inv, TypeOK
  <1>5. ASSUME NEW i \in 1..n PROVE got[i][1] = stream
    <2>1. buffer[head + i - 1][1] = stream
      BY <1>3 DEF Inv, StreamInv
    <2> QED
      BY <2>1, <1>4, Zenon
  <1> HIDE DEF got
  <1>6. /\ result' \in Seq(Byte) /\ Len(result') = Len(result) + n
        /\ \A i \in 1..Len(result') : result'[i] = IF i <= Len(result) THEN result[i] ELSE got[i - Len(result)]
    <2>1. result \in Seq(Byte)
      BY DEF Inv, TypeOK
    <2> QED
      <3>1. /\ result' \in Seq(Byte) /\ Len(result') = Len(result) + Len(got)
            /\ \A i \in 1..(Len(result) + Len(got)) :
                 result'[i] = IF i <= Len(result) THEN result[i] ELSE got[i - Len(result)]
        BY <1>0, <1>4, <2>1, ConcatProperties, Zenon
      <3> QED
        BY <1>4, <3>1
  <1>7. TypeOK'
    <2>1. Len(result') <= request'
      BY <1>0, <1>1, <1>6 DEF Inv, TypeOK
    <2> QED
      BY <1>0, <1>2, <1>6, <2>1 DEF Inv, TypeOK, Byte
  <1>8. StreamInv'
    <2>1. ASSUME NEW i \in 0..(Size - 1), Buffered(i)' PROVE buffer'[i][1] = stream'
      <3>1. Buffered(i)
        BY <1>0, <1>1, <2>1 DEF Inv, TypeOK, FullInv, Buffered, Empty
      <3> QED
        BY <3>1, <1>0 DEF Inv, StreamInv
    <2>2. ASSUME NEW i \in 1..Len(result') PROVE result'[i][1] = stream'
      <3>0. Len(result) \in Nat
        BY DEF Inv, TypeOK
      <3>1. CASE i <= Len(result)
        BY <1>0, <1>6, <3>0, <3>1 DEF Inv, StreamInv
      <3>2. CASE i > Len(result)
        <4>1. i - Len(result) \in 1..n /\ result'[i] = got[i - Len(result)]
          BY <1>1, <1>6, <3>0, <3>2
        <4> QED
          BY <1>0, <1>5, <4>1, Zenon
      <3> QED
        BY <3>0, <3>1, <3>2
    <2> QED
      BY <1>0, <2>1, <2>2 DEF Inv, StreamInv
  <1>9. FullInv' /\ LockInv' /\ WriterInv' /\ ReaderInv' /\ SleepInv'
    BY <1>0, <1>1 DEF Inv, TypeOK, FullInv, LockInv, WriterInv, ReaderInv, SleepInv, Empty, AtEnd
  <1> QED
    BY <1>7, <1>8, <1>9 DEF Inv

\* Every step of either thread preserves the invariant.
LEMMA StepInv == Inv /\ [Next]_vars => Inv'
  <1> SUFFICES ASSUME Inv, [Next]_vars PROVE Inv'
    OBVIOUS
  <1>1. CASE UNCHANGED vars
    BY <1>1 DEF vars, Inv, TypeOK, FullInv, LockInv, WriterInv, ReaderInv, SleepInv, StreamInv, Buffered, Empty, AtEnd, Byte
  <1>2. CASE Calling /\ UNCHANGED spurious
    BY <1>2, WriteStartInv, WriteEndOfStreamInv, StartLockInv, ReadStartInv DEF Calling
  <1>3. CASE Writing /\ UNCHANGED spurious
    BY <1>3, WriteCopyInv, WriteReturnInv, StartWaitInv, StartWakeInv, StartBeginInv DEF Writing
  <1>4. CASE Reading /\ UNCHANGED spurious
    BY <1>4, ReadWaitInv, ReadWakeInv, ReadCopyInv, ReadReturnInv, ReadReturnShortInv DEF Reading
  <1>5. CASE SpuriousWakeup
    BY <1>5, SpuriousWakeupInv
  <1> QED
    BY <1>1, <1>2, <1>3, <1>4, <1>5 DEF Next

\* The invariant holds throughout, whatever the threads do.
THEOREM Invariance == Spec => []Inv
  BY InitInv, StepInv, PTL DEF Spec

\* The invariant contains what the asserts of byteQueueC.c claim.
LEMMA InvSound == Inv => ByteQueueSound
  <1> SUFFICES ASSUME Inv PROVE ByteQueueSound
    OBVIOUS
  <1> USE ByteQueueAssumption
  <1>1. RingSound
    BY DEF Inv, TypeOK, FullInv, WriterInv, RingSound, Full, Empty, WriteSpan, ReadSpan, Min, Missing
  <1>2. NobodySleepsInVain
    BY DEF Inv, SleepInv, NobodySleepsInVain
  <1> QED
    BY <1>1, <1>2 DEF ByteQueueSound

\* The indices and the full flag of the ring stay consistent, the asserts of both
\* copy loops hold, and no thread sleeps through the event it waits for.
THEOREM Sound == Spec => []ByteQueueSound
  BY Invariance, InvSound, PTL

\* All bytes of a read are of the writer's current stream.
LEMMA InvOneStream == Inv => OneStreamPerRead
  BY DEF Inv, StreamInv, OneStreamPerRead

\* A read never returns bytes of two streams.
THEOREM OneStream == Spec => []OneStreamPerRead
  BY Invariance, InvOneStream, PTL

-----------------------------------------------------------------------------
\* Remainders of numbers at most one turn outside 0..(m - 1).
LEMMA ModOnce ==
  ASSUME NEW m \in Nat \ {0}, NEW a \in Int, -m <= a, a < m + m
  PROVE  a % m = IF a < 0 THEN a + m ELSE IF a < m THEN a ELSE a - m
  OBVIOUS

\* The bytes in the ring, oldest first: the abstract contents.
Contents == [i \in 1..Used |-> buffer[(head + i - 1) % Size]]

\* Used and the place of the i-th byte, without remainders.
UsedPlain == IF isFull THEN Size ELSE IF head <= tail THEN tail - head ELSE tail - head + Size
Slot(i) == IF head + i - 1 < Size THEN head + i - 1 ELSE head + i - 1 - Size

\* The contents of the ring without the remainders: how many bytes, and where.
RingFacts ==
  /\ Used = UsedPlain /\ Used \in 0..Size
  /\ Contents \in Seq(Byte) /\ Len(Contents) = Used
  /\ \A i \in 1..Used : Contents[i] = buffer[Slot(i)] /\ Slot(i) \in 0..(Size - 1)

\* The contents of the ring are a sequence of Used bytes.
LEMMA ContentsFacts == TypeOK => RingFacts
  <1> SUFFICES ASSUME TypeOK PROVE RingFacts
    OBVIOUS
  <1> USE ByteQueueAssumption
  <1>1. Used = UsedPlain /\ UsedPlain \in 0..Size
    <2>1. /\ tail - head \in Int /\ -Size <= tail - head /\ tail - head < Size + Size
          /\ tail - head < Size
      BY DEF TypeOK
    <2>2. (tail - head) % Size = IF tail - head < 0 THEN tail - head + Size ELSE tail - head
      BY <2>1, ModOnce
    <2> QED
      BY <2>2 DEF TypeOK, Used, UsedPlain
  <1>2. ASSUME NEW i \in 1..Used
        PROVE  (head + i - 1) % Size = Slot(i) /\ Slot(i) \in 0..(Size - 1)
    <2>1. head \in Int /\ i \in Int /\ head + i - 1 \in Nat /\ head + i - 1 < Size + Size
      BY <1>1 DEF TypeOK
    <2> QED
      BY <2>1 DEF Slot
  <1>3. ASSUME NEW i \in 1..Used PROVE buffer[(head + i - 1) % Size] = buffer[Slot(i)] /\ buffer[Slot(i)] \in Byte
    BY <1>2 DEF TypeOK
  <1>4. Contents \in Seq(Byte) /\ Len(Contents) = Used
    BY <1>1, <1>3 DEF Contents
  <1>5. ASSUME NEW i \in 1..Used PROVE Contents[i] = buffer[Slot(i)]
    BY <1>3 DEF Contents
  <1> QED
    BY <1>1, <1>2, <1>4, <1>5, Zenon DEF RingFacts

\* The same after a step.
LEMMA ContentsFactsNext == TypeOK' => RingFacts'
  BY ContentsFacts, PTL

\* Steps that leave the ring alone leave its contents alone.
LEMMA SameQueue ==
  ASSUME UNCHANGED queue
  PROVE  Contents' = Contents
  BY DEF queue, Contents, Used

\* What isEmpty tests is that there are no contents.
LEMMA EmptyContents ==
  ASSUME Inv, Empty
  PROVE  Contents = << >>
  <1>1. Used = 0
    BY ContentsFacts, ByteQueueAssumption DEF Inv, Empty, UsedPlain, TypeOK, RingFacts
  <1> QED
    BY <1>1, ContentsFacts DEF Inv, RingFacts

\* byteQueue_create makes an empty stream whose end is not reported.
LEMMA InitStream == Init => Stream!Init
  <1> SUFFICES ASSUME Init PROVE Stream!Init
    OBVIOUS
  <1>1. Empty /\ Inv
    BY InitInv DEF Init, Empty
  <1>2. Contents = << >>
    BY <1>1, EmptyContents
  <1> QED
    BY <1>2 DEF Init, Stream!Init, Contents

\* A turn of the write loop appends bytes, also across the end of the buffer.
LEMMA WriteCopyIsPut ==
  ASSUME Inv, Inv', WriteCopy
  PROVE  Stream!Put
  <1> USE ByteQueueAssumption
  <1> DEFINE n == Min(WriteSpan, Len(data))
             newTail == IF tail + n = Size THEN 0 ELSE tail + n
             bs == [i \in 1..n |-> data[i]]
  <1>0. /\ wpc = "write" /\ data # << >> /\ ~Full
        /\ buffer' = [i \in 0..(Size - 1) |-> IF i \in tail..(tail + n - 1) THEN data[i - tail + 1] ELSE buffer[i]]
        /\ tail' = newTail
        /\ isFull' = (isFull \/ head = newTail)
        /\ UNCHANGED <<head, endOfStream, endOfStreamReported>>
    BY DEF WriteCopy, ends
  <1>1. n \in Nat /\ n > 0 /\ n <= Len(data) /\ tail + n <= Size /\ (head > tail => tail + n <= head)
    BY <1>0 DEF Inv, TypeOK, Min, WriteSpan
  <1> HIDE DEF n
  <1>2. bs \in [1..n -> Byte] /\ bs \in Seq(Byte) /\ Len(bs) = n /\ \A i \in 1..n : bs[i] = data[i]
    <2>1. data \in Seq(Byte)
      BY DEF Inv, TypeOK
    <2>2. \A i \in 1..n : i \in 1..Len(data)
      BY <1>1, <2>1
    <2>3. \A i \in 1..n : data[i] \in Byte
      BY <2>1, <2>2, ElementOfSeq
    <2>4. bs \in [1..n -> Byte]
      BY <2>3
    <2> QED
      BY <1>1, <2>4
  <1> HIDE DEF bs
  <1>3. /\ Used \in 0..Size /\ Contents \in Seq(Byte) /\ Len(Contents) = Used
        /\ Contents' \in Seq(Byte) /\ Len(Contents') = Used'
    BY ContentsFacts, ContentsFactsNext DEF Inv, Byte, RingFacts
  <1>4. Used' = Used + n /\ n \in 1..(Size - Used)
    <2>1. Used = UsedPlain /\ Used' = UsedPlain'
      BY ContentsFacts, ContentsFactsNext DEF Inv, RingFacts
    <2> QED
      <3>1. ~isFull /\ (isFull' <=> head = newTail) /\ head' = head /\ tail' = newTail
        BY <1>0 DEF Inv, TypeOK, FullInv, Full
      <3>2. head \in 0..(Size - 1) /\ tail \in 0..(Size - 1)
        BY DEF Inv, TypeOK
      <3> QED
        BY <1>1, <2>1, <3>1, <3>2 DEF UsedPlain
  <1>5. ASSUME NEW i \in 1..Used PROVE Contents'[i] = Contents[i]
    <2>1. Slot(i)' = Slot(i) /\ Slot(i) \in 0..(Size - 1) /\ Slot(i) \notin tail..(tail + n - 1)
      <3>1. ~isFull /\ head' = head /\ head \in 0..(Size - 1) /\ tail \in 0..(Size - 1)
        BY <1>0 DEF Inv, TypeOK, FullInv, Full
      <3>2. Used = UsedPlain
        BY ContentsFacts DEF Inv, RingFacts
      <3> QED
        BY <1>1, <1>3, <3>1, <3>2 DEF Slot, UsedPlain
    <2>2. Contents'[i] = buffer'[Slot(i)'] /\ Contents[i] = buffer[Slot(i)]
      <3>1. i \in 1..Used'
        BY <1>1, <1>3, <1>4
      <3> QED
        BY <3>1, ContentsFacts, ContentsFactsNext DEF Inv, RingFacts
    <2> QED
      BY <1>0, <2>1, <2>2
  <1>6. ASSUME NEW k \in (Used + 1)..(Used + n) PROVE Contents'[k] = bs[k - Used]
    <2>1. Slot(k)' = tail + (k - Used) - 1
      <3>1. ~isFull /\ head' = head /\ head \in 0..(Size - 1) /\ tail \in 0..(Size - 1)
        BY <1>0 DEF Inv, TypeOK, FullInv, Full
      <3>2. Used = UsedPlain
        BY ContentsFacts DEF Inv, RingFacts
      <3> QED
        BY <1>1, <1>3, <3>1, <3>2 DEF Slot, UsedPlain
    <2>2. Contents'[k] = buffer'[Slot(k)']
      <3>1. k \in 1..Used'
        BY <1>1, <1>3, <1>4
      <3> QED
        BY <3>1, ContentsFactsNext DEF Inv, RingFacts
    <2>3. buffer'[tail + (k - Used) - 1] = data[k - Used] /\ k - Used \in 1..n
      BY <1>0, <1>1, <1>3 DEF Inv, TypeOK
    <2> QED
      BY <1>2, <2>1, <2>2, <2>3
  <1>7. Contents' = Contents \o bs
    <2>1. /\ Contents \o bs \in Seq(Byte) /\ Len(Contents \o bs) = Used + n
          /\ \A i \in 1..(Used + n) : (Contents \o bs)[i] = IF i <= Used THEN Contents[i] ELSE bs[i - Used]
      BY <1>2, <1>3, ConcatProperties, ZenonT(30)
    <2>2. ASSUME NEW i \in 1..(Used + n) PROVE Contents'[i] = (Contents \o bs)[i]
      <3>1. CASE i <= Used
        BY <1>3, <1>5, <2>1, <3>1
      <3>2. CASE i > Used
        <4>1. i \in (Used + 1)..(Used + n) /\ ~(i <= Used)
          BY <1>1, <1>3, <3>2
        <4> QED
          BY <1>6, <2>1, <4>1, Zenon
      <3> QED
        <4>1. i <= Used \/ i > Used
          BY <1>1, <1>3
        <4> QED
          BY <4>1, <3>1, <3>2, Zenon
    <2> QED
      BY <1>3, <1>4, <2>1, <2>2, SeqEqual, Zenon
  <1>8. ~endOfStream
    BY <1>0 DEF Inv, WriterInv
  <1>9. \E m \in 1..(Size - Len(Contents)) : Contents' \in {Contents \o b : b \in [1..m -> Byte]}
    BY <1>2, <1>3, <1>4, <1>7
  <1> QED
    BY <1>0, <1>8, <1>9 DEF Stream!Put, Contents, Byte

\* A turn of the read loop takes the oldest bytes away.
LEMMA ReadCopyIsTake ==
  ASSUME Inv, Inv', ReadCopy
  PROVE  Stream!Take
  <1> USE ByteQueueAssumption
  <1> DEFINE n == Min(ReadSpan, Missing)
  <1>0. /\ rpc = "read" /\ Missing > 0 /\ ~Empty
        /\ isFull' = (isFull /\ head # tail)
        /\ head' = IF head + n = Size THEN 0 ELSE head + n
        /\ UNCHANGED <<buffer, tail, endOfStream, endOfStreamReported>>
    BY DEF ReadCopy, ends
  <1>1. n \in Nat /\ n > 0 /\ head + n <= Size /\ (tail > head => head + n <= tail)
    BY <1>0 DEF Inv, TypeOK, Min, ReadSpan, Missing
  <1> HIDE DEF n
  <1>2. /\ Used \in 0..Size /\ Contents \in Seq(Byte) /\ Len(Contents) = Used
        /\ Contents' \in Seq(Byte) /\ Len(Contents') = Used'
    BY ContentsFacts, ContentsFactsNext DEF Inv, Byte, RingFacts
  <1>3. Used' = Used - n /\ n \in 1..Used
    <2>1. Used = UsedPlain /\ Used' = UsedPlain'
      BY ContentsFacts, ContentsFactsNext DEF Inv, RingFacts
    <2> QED
      <3>1. (isFull => head = tail) /\ (isFull \/ head # tail) /\ ~isFull' /\ tail' = tail
        BY <1>0 DEF Inv, TypeOK, FullInv, Empty
      <3>2. head \in 0..(Size - 1) /\ tail \in 0..(Size - 1)
        BY DEF Inv, TypeOK
      <3> QED
        BY <1>0, <1>1, <2>1, <3>1, <3>2 DEF UsedPlain
  <1>4. ASSUME NEW i \in 1..(Used - n) PROVE Contents'[i] = Contents[n + i]
    <2>1. Slot(i)' = Slot(n + i)
      BY <1>0, <1>1, <1>2, <1>3 DEF Slot, Inv, TypeOK
    <2>2. Contents'[i] = buffer'[Slot(i)'] /\ Contents[n + i] = buffer[Slot(n + i)]
      <3>1. i \in 1..Used' /\ n + i \in 1..Used
        BY <1>1, <1>2, <1>3
      <3> QED
        BY <3>1, ContentsFacts, ContentsFactsNext DEF Inv, RingFacts
    <2> QED
      BY <1>0, <2>1, <2>2
  <1>5. Contents' = SubSeq(Contents, n + 1, Len(Contents))
    <2> DEFINE rest == SubSeq(Contents, n + 1, Len(Contents))
    <2>1. /\ rest \in Seq(Byte) /\ Len(rest) = Used - n
          /\ \A i \in 1..(Used - n) : rest[i] = Contents[n + i]
      BY <1>1, <1>2, <1>3
    <2> HIDE DEF rest
    <2>2. Len(Contents') = Used - n /\ \A i \in 1..(Used - n) : Contents'[i] = rest[i]
      BY <1>2, <1>3, <1>4, <2>1
    <2>3. Contents' = rest
      BY <1>2, <2>1, <2>2, SeqEqual
    <2> QED
      BY <2>3 DEF rest
  <1>6. \E m \in 1..Len(Contents) : Contents' = SubSeq(Contents, m + 1, Len(Contents))
    BY <1>2, <1>3, <1>5
  <1> QED
    BY <1>0, <1>6 DEF Stream!Take, Contents

\* Every step is a step of ByteStream or invisible to it.
LEMMA StepSimulation ==
  ASSUME Inv, Inv', [Next]_vars
  PROVE  Stream!Next \/ UNCHANGED Stream!vars
  <1> USE DEF queue, ends
  <1>1. CASE WriteCopy
    BY <1>1, WriteCopyIsPut DEF Stream!Next
  <1>2. CASE ReadCopy
    BY <1>2, ReadCopyIsTake DEF Stream!Next
  <1>3. CASE WriteEndOfStream
    BY <1>3, SameQueue DEF WriteEndOfStream, Stream!End, Stream!Next, Contents
  <1>4. CASE ReadReturnShort
    BY <1>4, SameQueue, EmptyContents DEF ReadReturnShort, AtEnd, Stream!SeeEnd, Stream!Next, Contents
  <1>5. CASE StartBegin
    <2>1. endOfStream /\ endOfStreamReported /\ Contents = << >>
      BY <1>5, EmptyContents DEF Inv, WriterInv, ReaderInv, StartBegin
    <2> QED
      BY <1>5, <2>1, SameQueue DEF StartBegin, Stream!Begin, Stream!Next, Contents
  <1>6. ASSUME UNCHANGED <<queue, ends>> PROVE UNCHANGED Stream!vars
    BY <1>6, SameQueue DEF Stream!vars, Contents
  <1>7. CASE WriteStart \/ StartLock \/ ReadStart \/ WriteReturn \/ StartWait \/ StartWake
    BY <1>6, <1>7 DEF WriteStart, StartLock, ReadStart, WriteReturn, StartWait, StartWake
  <1>8. CASE ReadWait \/ ReadWake \/ ReadReturn \/ SpuriousWakeup \/ UNCHANGED vars
    BY <1>6, <1>8 DEF ReadWait, ReadWake, ReadReturn, SpuriousWakeup, vars
  <1> QED
    BY <1>1, <1>2, <1>3, <1>4, <1>5, <1>7, <1>8 DEF Next, Calling, Writing, Reading

\* The ring buffer of byteQueueC.c is a bounded FIFO of bytes in which a stream
\* starts only after the previous one has been read to its end.
THEOREM Refinement == Spec => ImplementsByteStream
  <1>1. Inv /\ Inv' /\ [Next]_vars => [Stream!Next]_(Stream!vars)
    BY StepSimulation
  <1> QED
    BY <1>1, InitStream, Invariance, PTL DEF Spec, ImplementsByteStream, Stream!Spec
=============================================================================
