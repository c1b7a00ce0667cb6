--------------------------- MODULE LibraryProofs ----------------------------
(***************************************************************************)
(* Proofs about the other parts of the library that LibraryMC puts into    *)
(* one specification: loggers, vector, memory manager, state machines and  *)
(* sockets, for any number of threads, blocks, lines and days.             *)
(***************************************************************************)
EXTENDS ContainerProofs

-----------------------------------------------------------------------------
(* Logging: the inductive invariant *)

LogSpecs == {"", "_Common", "_Error", "stderr", "none"}
LogStream == [spec : LogSpecs, label : {Current}]
LogEntry == [common : LogStream, error : LogStream]
LogFile == [destination : LogDestination, spec : LogSpecs, label : Nat, line : Nat]
LogLine == [day : Nat, to : SUBSET (LogDestination \X LogSpecs)]
LogMessage == [destination : LogDestination, severe : BOOLEAN, line : Nat]

LogTypes ==
  /\ logToday \in Nat /\ FirstDay <= logToday
  /\ logger \in [driver : {"file", "dual"}, date : Nat, entry : [LogDestination -> LogEntry]]
  /\ logger.date <= logToday
  /\ logPc \in [LogThread -> {"out", "build", "format"}]
  /\ logCall = [t \in LogThread |-> logCall[t]]
  /\ \A t \in LogThread : logPc[t] # "out" => logCall[t] \in LogMessage
  /\ logLines \in Seq(LogLine)
  /\ \A n \in DOMAIN logLines : logLines[n].day <= logToday

\* The files hold lines that were built; one that was renamed, on the day of its label, holds none that is younger.
Filed(files, date) ==
  \A f \in files :
    /\ f \in LogFile /\ f.line \in DOMAIN logLines
    /\ f.label # Current => f.label <= date /\ logLines[f.line].day <= f.label

SameLog(f, g) == f.line = g.line /\ f.destination = g.destination /\ f.spec = g.spec

\* No line is in two files of one log.
OnceIn(files) == \A f, g \in files : SameLog(f, g) => f = g

Holds(f, n, w) == f.line = n /\ f.destination = w[1] /\ f.spec = w[2]

\* A line that is less than a week old is in a file of each log it was written to.
PresentIn(files) ==
  \A n \in DOMAIN logLines :
    logToday - logLines[n].day < LogRetention => \A w \in logLines[n].to : \E f \in files : Holds(f, n, w)

\* A line that is being formatted is in no file, and is one thread's.
LogFormatInv ==
  \A t \in LogThread :
    logPc[t] = "format" =>
      /\ logCall[t].line \in DOMAIN logLines
      /\ \A f \in logFiles : f.line # logCall[t].line
      /\ \A u \in LogThread : logPc[u] = "format" /\ logCall[u].line = logCall[t].line => u = t

LogInv == LogTypes /\ Filed(logFiles, logger.date) /\ OnceIn(logFiles) /\ PresentIn(logFiles) /\ LogFormatInv

-----------------------------------------------------------------------------
(* Logging: rotation *)

\* No file of the log has been renamed today.
NotRotated(files, d, spec) == \A f \in files : f.destination = d /\ f.spec = spec => f.label # logToday

FilesKept(files) == Filed(files, logToday) /\ OnceIn(files) /\ PresentIn(files)

\* What a rotation leaves: files with the lines they had.
RotatedFrom(files, g, spec) ==
  /\ \A f \in g : \E o \in files : f.line = o.line
  /\ \A f \in g : f.spec # spec => f \in files

\* The lines have their types.
LEMMA LinesTyped ==
  ASSUME LogTypes
  PROVE  /\ DOMAIN logLines = 1..Len(logLines) /\ Len(logLines) \in Nat
         /\ \A n \in DOMAIN logLines : logLines[n] \in LogLine /\ logLines[n].day \in Nat
  <1>1. logLines \in Seq(LogLine)
    BY DEF LogTypes
  <1>2. DOMAIN logLines = 1..Len(logLines) /\ Len(logLines) \in Nat /\ \A n \in 1..Len(logLines) : logLines[n] \in LogLine
    BY <1>1
  <1> QED
    BY <1>2 DEF LogLine

\* Today has a day a week ago, which is not the label of a current file.
LEMMA WeekAgo ==
  ASSUME LogTypes
  PROVE  logToday \in Nat /\ logToday # Current /\ logToday - LogRetention \in Nat /\ logToday - LogRetention # Current
  BY LogAssumption DEF LogTypes, FirstDay, Current

\* A file that is renamed keeps its lines.
LEMMA RenameKeeps ==
  ASSUME LogTypes, NEW files, FilesKept(files), NEW d \in LogDestination, NEW spec \in LogSpecs, NotRotated(files, d, spec),
         NEW h, h = Renamed(files, d, spec, logToday)
  PROVE  FilesKept(h) /\ RotatedFrom(files, h, spec)
  <1>1. PICK today \in Nat : today = logToday /\ today # Current
    BY WeekAgo
  <1> DEFINE Cur(o) == o.destination = d /\ o.spec = spec /\ o.label = Current
             New(o) == [o EXCEPT !.label = today]
  <1>2. \A o \in files : o \in LogFile /\ o.line \in DOMAIN logLines /\ (o.label # Current => o.label <= logToday /\ logLines[o.line].day <= o.label)
    BY DEF FilesKept, Filed
  <1>3. \A o \in files : New(o) \in LogFile /\ SameLog(New(o), o) /\ New(o).label = today
    <2>1. ASSUME NEW o \in files PROVE New(o) \in LogFile /\ SameLog(New(o), o) /\ New(o).label = today
      <3>1. o \in LogFile
        BY <1>2
      <3> QED
        BY <3>1 DEF LogFile, SameLog
    <2> QED
      BY <2>1
  <1>4. h = {f \in files : ~(f.destination = d /\ f.spec = spec /\ f.label \in {Current, today})}
            \cup {New(f) : f \in {g \in files : Cur(g)}}
    BY <1>1 DEF Renamed
  <1>5. \A o \in files : ~(o.destination = d /\ o.spec = spec /\ o.label = today)
    BY <1>1 DEF NotRotated
  <1>6. \A f \in h : \E o \in files : (~Cur(o) /\ f = o) \/ (Cur(o) /\ f = New(o))
    BY <1>4
  <1>7. \A o \in files : (Cur(o) => New(o) \in h) /\ (~Cur(o) => o \in h)
    <2>1. ASSUME NEW o \in files, Cur(o) PROVE New(o) \in h
      BY <1>4, <2>1
    <2>2. ASSUME NEW o \in files, ~Cur(o) PROVE o \in h
      BY <1>4, <1>5, <2>2
    <2> QED
      BY <2>1, <2>2
  <1>8. Filed(h, logToday)
    <2>1. ASSUME NEW f \in h
          PROVE  f \in LogFile /\ f.line \in DOMAIN logLines /\ (f.label # Current => f.label <= logToday /\ logLines[f.line].day <= f.label)
      <3>1. PICK o \in files : (~Cur(o) /\ f = o) \/ (Cur(o) /\ f = New(o))
        BY <1>6
      <3>2. CASE f = o
        BY <1>2, <3>2
      <3>3. CASE f = New(o)
        <4>1. f \in LogFile /\ f.line = o.line /\ f.label = today /\ f.line \in DOMAIN logLines
          BY <1>2, <1>3, <3>3 DEF SameLog
        <4>2. logLines[f.line].day <= today /\ today <= today
          BY <1>1, <4>1 DEF LogTypes
        <4> QED
          BY <1>1, <4>1, <4>2
      <3> QED
        BY <3>1, <3>2, <3>3
    <2> QED
      BY <2>1 DEF Filed
  <1> HIDE DEF New
  <1>9. OnceIn(h)
    <2>1. ASSUME NEW f \in h, NEW g \in h, SameLog(f, g) PROVE f = g
      <3>1. PICK o \in files : (~Cur(o) /\ f = o) \/ (Cur(o) /\ f = New(o))
        BY <1>6
      <3>2. PICK p \in files : (~Cur(p) /\ g = p) \/ (Cur(p) /\ g = New(p))
        BY <1>6
      <3>3. SameLog(f, o) /\ SameLog(g, p)
        BY <1>3, <3>1, <3>2 DEF SameLog
      <3>4. SameLog(o, p)
        BY <2>1, <3>3 DEF SameLog
      <3>5. o = p
        BY <3>4 DEF FilesKept, OnceIn
      <3> QED
        BY <3>1, <3>2, <3>5
    <2> QED
      BY <2>1 DEF OnceIn
  <1>10. PresentIn(h)
    <2>1. ASSUME NEW n \in DOMAIN logLines, logToday - logLines[n].day < LogRetention, NEW w \in logLines[n].to
          PROVE  \E f \in h : Holds(f, n, w)
      <3>1. PICK o \in files : Holds(o, n, w)
        BY <2>1 DEF FilesKept, PresentIn
      <3>2. Holds(New(o), n, w)
        BY <1>3, <3>1 DEF Holds, SameLog
      <3> QED
        BY <1>7, <3>1, <3>2
    <2> QED
      BY <2>1 DEF PresentIn
  <1>11. RotatedFrom(files, h, spec)
    <2>1. ASSUME NEW f \in h PROVE (\E o \in files : f.line = o.line) /\ (f.spec # spec => f \in files)
      <3>1. PICK o \in files : (~Cur(o) /\ f = o) \/ (Cur(o) /\ f = New(o))
        BY <1>6
      <3>2. f.line = o.line /\ f.spec = o.spec
        BY <1>3, <3>1 DEF SameLog
      <3> QED
        BY <3>1, <3>2
    <2> QED
      BY <2>1 DEF RotatedFrom
  <1> QED
    BY <1>8, <1>9, <1>10, <1>11 DEF FilesKept

\* The file that is removed holds no line that is less than a week old.
LEMMA RemoveKeeps ==
  ASSUME LogTypes, NEW files, FilesKept(files), NEW d \in LogDestination, NEW spec \in LogSpecs,
         NEW h, h = Removed(files, d, spec, logToday - LogRetention)
  PROVE  FilesKept(h) /\ RotatedFrom(files, h, spec)
  <1>1. PICK old \in Nat : old = logToday - LogRetention /\ old # Current
    BY WeekAgo
  <1>2. h = {f \in files : ~(f.destination = d /\ f.spec = spec /\ f.label = old)}
    BY <1>1 DEF Removed
  <1>3. Filed(h, logToday) /\ OnceIn(h) /\ RotatedFrom(files, h, spec)
    BY <1>2 DEF FilesKept, Filed, OnceIn, RotatedFrom
  <1>4. PresentIn(h)
    <2>1. ASSUME NEW n \in DOMAIN logLines, logToday - logLines[n].day < LogRetention, NEW w \in logLines[n].to
          PROVE  \E f \in h : Holds(f, n, w)
      <3>1. PICK o \in files : Holds(o, n, w)
        BY <2>1 DEF FilesKept, PresentIn
      <3>2. PICK day \in Nat : day = logLines[n].day
        BY LinesTyped
      <3>3. o.label # old
        <4>1. SUFFICES ASSUME o.label = old PROVE FALSE
          OBVIOUS
        <4>2. day <= old
          BY <1>1, <3>1, <3>2, <4>1 DEF FilesKept, Filed, Holds
        <4>3. logToday \in Nat /\ LogRetention \in Nat
          BY LogAssumption DEF LogTypes
        <4> QED
          BY <1>1, <2>1, <3>2, <4>2, <4>3
      <3> QED
        BY <1>2, <3>1, <3>3
    <2> QED
      BY <2>1 DEF PresentIn
  <1> QED
    BY <1>3, <1>4 DEF FilesKept

\* So a rotation keeps the lines.
LEMMA RotateKeeps ==
  ASSUME LogTypes, NEW files, FilesKept(files), NEW d \in LogDestination, NEW spec \in LogSpecs, NotRotated(files, d, spec),
         NEW renamed \in BOOLEAN, NEW g, g = fileLogRotate(files, d, spec, logToday, renamed)
  PROVE  FilesKept(g) /\ RotatedFrom(files, g, spec)
  <1>1. PICK h : h = IF renamed THEN Renamed(files, d, spec, logToday) ELSE files
    OBVIOUS
  <1>2. FilesKept(h) /\ RotatedFrom(files, h, spec)
    <2>1. CASE renamed
      BY <1>1, <2>1, RenameKeeps
    <2>2. CASE ~renamed
      BY <1>1, <2>2 DEF RotatedFrom
    <2> QED
      BY <2>1, <2>2
  <1>3. g = Removed(h, d, spec, logToday - LogRetention)
    BY <1>1 DEF fileLogRotate
  <1>4. FilesKept(g) /\ RotatedFrom(h, g, spec)
    BY <1>2, <1>3, RemoveKeeps
  <1>5. RotatedFrom(files, g, spec)
    <2>1. ASSUME NEW f \in g PROVE (\E o \in files : f.line = o.line) /\ (f.spec # spec => f \in files)
      <3>1. PICK p \in h : f.line = p.line
        BY <1>4 DEF RotatedFrom
      <3>2. PICK o \in files : p.line = o.line
        BY <1>2 DEF RotatedFrom
      <3>3. f.spec # spec => f \in files
        BY <1>2, <1>4 DEF RotatedFrom
      <3> QED
        BY <3>1, <3>2, <3>3
    <2> QED
      BY <2>1 DEF RotatedFrom
  <1> QED
    BY <1>4, <1>5

-----------------------------------------------------------------------------
(* Logging: the steps *)

\* The streams of an entry have the label of a current file.
LEMMA EntriesTyped ==
  /\ StdErr \in LogStream /\ NoStream \in LogStream /\ \A spec \in LogSpecs : Stream(spec) \in LogStream
  /\ logFileEntryCreate \in LogEntry /\ NoEntry \in LogEntry
  <1>1. StdErr \in LogStream /\ NoStream \in LogStream /\ \A spec \in LogSpecs : Stream(spec) \in LogStream
    BY DEF StdErr, NoStream, Stream, LogStream, LogSpecs
  <1>2. "_Common" \in LogSpecs /\ "_Error" \in LogSpecs
    BY DEF LogSpecs
  <1> QED
    BY <1>1, <1>2 DEF logFileEntryCreate, NoEntry, LogEntry

\* The specifier of a common log is not that of an error log.
LEMMA SpecsDiffer == \A driver : CommonSpec(driver) \in LogSpecs /\ CommonSpec(driver) # "_Error"
  BY DEF CommonSpec, LogSpecs

\* Rotated entries are entries.
LEMMA RotatedTyped ==
  ASSUME NEW e \in LogEntry, NEW opened \in BOOLEAN
  PROVE  RotatedEntry(e, opened) \in LogEntry
  <1>1. e.common \in LogStream /\ e.error \in LogStream
    BY DEF LogEntry
  <1>2. \A spec \in LogSpecs : Reopened(spec, opened) \in LogStream
    BY EntriesTyped DEF Reopened
  <1>3. PICK spec \in LogSpecs : spec = CommonSpec(logger.driver)
    BY SpecsDiffer
  <1>4. PICK c : c = IF OnFile(e.common) THEN Reopened(spec, opened) ELSE e.common
    OBVIOUS
  <1>5. PICK r : r = IF logger.driver = "dual" /\ OnFile(e.error) THEN Reopened("_Error", opened) ELSE e.error
    OBVIOUS
  <1>6. c \in LogStream /\ r \in LogStream
    BY <1>1, <1>2, <1>4, <1>5 DEF LogSpecs
  <1>7. RotatedEntry(e, opened) = [common |-> c, error |-> r]
    BY <1>3, <1>4, <1>5 DEF RotatedEntry
  <1> QED
    BY <1>6, <1>7 DEF LogEntry

\* The first call of a day finds no file that was renamed on this day, and keeps the lines of both logs.
LEMMA DayRotates ==
  ASSUME LogInv, NEW d \in LogDestination, NEW e, NEW renamed \in BOOLEAN, logger.date # logToday,
         NEW g, g = RotatedFiles(d, e, renamed)
  PROVE  FilesKept(g) /\ \A f \in g : \E o \in logFiles : f.line = o.line
  <1>1. PICK today, date \in Nat : today = logToday /\ date = logger.date /\ date < today /\ today # Current
    BY WeekAgo DEF LogInv, LogTypes
  <1>2. \A f \in logFiles : f.label \in Nat /\ f.label # today
    BY <1>1 DEF LogInv, Filed, LogFile
  <1>3. FilesKept(logFiles)
    <2>1. ASSUME NEW f \in logFiles, f.label # Current PROVE f.label <= logToday
      <3>1. f.label <= date /\ f.label \in Nat
        BY <1>1, <1>2, <2>1 DEF LogInv, Filed
      <3> QED
        BY <1>1, <3>1
    <2>2. Filed(logFiles, logToday)
      BY <2>1 DEF LogInv, Filed
    <2> QED
      BY <2>2 DEF LogInv, FilesKept
  <1>4. PICK spec \in LogSpecs : spec = CommonSpec(logger.driver) /\ spec # "_Error"
    BY SpecsDiffer
  <1>5. PICK h : h = IF OnFile(e.common) THEN fileLogRotate(logFiles, d, spec, logToday, renamed) ELSE logFiles
    OBVIOUS
  <1>6. NotRotated(logFiles, d, spec)
    BY <1>1, <1>2 DEF NotRotated
  <1>7. LogTypes
    BY DEF LogInv
  <1>8. FilesKept(h) /\ RotatedFrom(logFiles, h, spec)
    <2>1. CASE OnFile(e.common)
      <3>1. h = fileLogRotate(logFiles, d, spec, logToday, renamed)
        BY <1>5, <2>1
      <3> QED
        BY <1>3, <1>6, <1>7, <3>1, RotateKeeps
    <2>2. CASE ~OnFile(e.common)
      BY <1>3, <1>5, <2>2 DEF RotatedFrom
    <2> QED
      BY <2>1, <2>2
  <1>9. g = IF logger.driver = "dual" /\ OnFile(e.error) THEN fileLogRotate(h, d, "_Error", logToday, renamed) ELSE h
    BY <1>4, <1>5 DEF RotatedFiles
  <1>10. NotRotated(h, d, "_Error")
    BY <1>1, <1>2, <1>4, <1>8 DEF RotatedFrom, NotRotated
  <1>11. FilesKept(g) /\ \A f \in g : \E o \in h : f.line = o.line
    <2>1. CASE logger.driver = "dual" /\ OnFile(e.error)
      <3>1. g = fileLogRotate(h, d, "_Error", logToday, renamed) /\ "_Error" \in LogSpecs
        BY <1>9, <2>1 DEF LogSpecs
      <3>2. FilesKept(g) /\ RotatedFrom(h, g, "_Error")
        BY <1>7, <1>8, <1>10, <3>1, RotateKeeps
      <3> QED
        BY <3>2 DEF RotatedFrom
    <2>2. CASE ~(logger.driver = "dual" /\ OnFile(e.error))
      BY <1>8, <1>9, <2>2
    <2> QED
      BY <2>1, <2>2
  <1> QED
    BY <1>8, <1>11 DEF RotatedFrom

\* A call begins.
LEMMA LogTextStep ==
  ASSUME LogInv, NEW t \in LogThread, NEW d \in LogDestination, NEW severe \in BOOLEAN, NEW renamed \in BOOLEAN,
         NEW opened \in BOOLEAN, LogText(t, d, severe, renamed, opened)
  PROVE  LogInv'
  <1>1. logger \in [driver : {"file", "dual"}, date : Nat, entry : [LogDestination -> LogEntry]] /\ logToday \in Nat
    BY DEF LogInv, LogTypes
  <1>2. PICK e : e = IF logger.entry[d] = NoEntry THEN logFileEntryCreate ELSE logger.entry[d]
    OBVIOUS
  <1>3. e \in LogEntry
    BY <1>1, <1>2, EntriesTyped
  <1>4. PICK n : n = IF logger.date # logToday THEN RotatedEntry(e, opened) ELSE e
    OBVIOUS
  <1>5. n \in LogEntry
    BY <1>3, <1>4, RotatedTyped
  <1>6. logger' = [logger EXCEPT !.date = logToday, !.entry[d] = n]
    BY <1>2, <1>4 DEF LogText
  <1>7. logger' \in [driver : {"file", "dual"}, date : Nat, entry : [LogDestination -> LogEntry]] /\ logger'.date = logToday
    BY <1>1, <1>5, <1>6
  <1>8. PICK m : m = [destination |-> d, severe |-> severe, line |-> 0]
    OBVIOUS
  <1>9. m \in LogMessage
    BY <1>8 DEF LogMessage
  <1>10. /\ logPc[t] = "out" /\ logPc' = [logPc EXCEPT ![t] = "build"] /\ logCall' = [logCall EXCEPT ![t] = m]
         /\ UNCHANGED <<logToday, logLines>>
    BY <1>8 DEF LogText, LogAt
  <1>11. /\ logPc' \in [LogThread -> {"out", "build", "format"}] /\ logPc'[t] = "build" /\ logCall'[t] = m
         /\ logCall' = [u \in LogThread |-> logCall'[u]]
         /\ \A u \in LogThread : u # t => logPc'[u] = logPc[u] /\ logCall'[u] = logCall[u]
    BY <1>10 DEF LogInv, LogTypes
  <1>12. LogTypes'
    <2>1. \A u \in LogThread : logPc'[u] # "out" => logCall'[u] \in LogMessage
      BY <1>9, <1>11 DEF LogInv, LogTypes
    <2>2. logger'.date <= logToday'
      BY <1>1, <1>7, <1>10
    <2> QED
      BY <1>7, <1>10, <1>11, <2>1, <2>2 DEF LogInv, LogTypes
  <1>13. FilesKept(logFiles') /\ \A f \in logFiles' : \E o \in logFiles : f.line = o.line
    <2>1. CASE logger.date # logToday
      <3>1. logFiles' = RotatedFiles(d, e, renamed)
        BY <1>2, <2>1 DEF LogText
      <3> QED
        BY <2>1, <3>1, DayRotates
    <2>2. CASE logger.date = logToday
      <3>1. logFiles' = logFiles
        BY <2>2 DEF LogText
      <3> QED
        BY <2>2, <3>1 DEF LogInv, FilesKept
    <2> QED
      BY <2>1, <2>2
  <1>14. Filed(logFiles, logger.date)' /\ OnceIn(logFiles)' /\ PresentIn(logFiles)'
    BY <1>7, <1>10, <1>13 DEF FilesKept, Filed, OnceIn, PresentIn
  <1>15. LogFormatInv'
    <2>1. ASSUME NEW u \in LogThread, logPc'[u] = "format"
          PROVE  /\ logCall'[u].line \in DOMAIN logLines'
                 /\ \A f \in logFiles' : f.line # logCall'[u].line
                 /\ \A v \in LogThread : logPc'[v] = "format" /\ logCall'[v].line = logCall'[u].line => v = u
      <3>1. u # t /\ logPc[u] = "format" /\ logCall'[u] = logCall[u]
        BY <1>11, <2>1
      <3>2. \A f \in logFiles' : f.line # logCall[u].line
        BY <1>13, <3>1 DEF LogInv, LogFormatInv
      <3> QED
        BY <1>10, <1>11, <3>1, <3>2 DEF LogInv, LogFormatInv
    <2> QED
      BY <2>1 DEF LogFormatInv
  <1> QED
    BY <1>12, <1>14, <1>15 DEF LogInv

\* A line is built.
LEMMA BuildStep ==
  ASSUME LogInv, NEW t \in LogThread, fileLogBuildLine(t)
  PROVE  LogInv'
  <1>1. PICK x : x = [day |-> logToday, to |-> {}]
    OBVIOUS
  <1>2. x \in LogLine /\ x.day = logToday /\ x.to = {}
    BY <1>1 DEF LogLine, LogInv, LogTypes
  <1>3. PICK n \in Nat : n = Len(logLines)
    BY LinesTyped DEF LogInv
  <1>4. /\ logPc[t] = "build" /\ logPc' = [logPc EXCEPT ![t] = "format"] /\ logLines' = Append(logLines, x)
        /\ logCall' = [logCall EXCEPT ![t].line = n + 1] /\ UNCHANGED <<logToday, logger, logFiles>>
    BY <1>1, <1>3 DEF fileLogBuildLine, LogAt
  <1>5. logLines \in Seq(LogLine) /\ DOMAIN logLines = 1..n
    BY <1>3, LinesTyped DEF LogInv, LogTypes
  <1>6. /\ logLines' \in Seq(LogLine) /\ DOMAIN logLines' = 1..(n + 1)
        /\ logLines'[n + 1] = x /\ \A i \in 1..n : logLines'[i] = logLines[i]
    <2>1. logLines' \in Seq(LogLine) /\ Len(logLines') = n + 1 /\ logLines'[n + 1] = x /\ \A i \in 1..n : logLines'[i] = logLines[i]
      BY <1>2, <1>3, <1>4, <1>5, AppendProperties
    <2> QED
      BY <2>1
  <1>7. logCall[t] \in LogMessage
    BY <1>4 DEF LogInv, LogTypes
  <1>8. PICK m : m = [logCall[t] EXCEPT !.line = n + 1]
    OBVIOUS
  <1>9. m \in LogMessage /\ m.line = n + 1
    BY <1>7, <1>8 DEF LogMessage
  <1>10. /\ logPc' \in [LogThread -> {"out", "build", "format"}] /\ logPc'[t] = "format" /\ logCall'[t] = m
         /\ logCall' = [u \in LogThread |-> logCall'[u]]
         /\ \A u \in LogThread : u # t => logPc'[u] = logPc[u] /\ logCall'[u] = logCall[u]
    BY <1>4, <1>8 DEF LogInv, LogTypes
  <1>11. \A i \in 1..(n + 1) : i = n + 1 \/ i \in 1..n
    OBVIOUS
  <1>12. \A i \in 1..n : i # n + 1 /\ i \in 1..(n + 1)
    OBVIOUS
  <1>13. LogTypes'
    <2>1. \A u \in LogThread : logPc'[u] # "out" => logCall'[u] \in LogMessage
      BY <1>9, <1>10 DEF LogInv, LogTypes
    <2>2. ASSUME NEW i \in DOMAIN logLines' PROVE logLines'[i].day <= logToday'
      <3>1. logToday \in Nat /\ logToday' = logToday
        BY <1>4 DEF LogInv, LogTypes
      <3>2. CASE i = n + 1
        BY <1>2, <1>6, <3>1, <3>2
      <3>3. CASE i \in 1..n
        BY <1>5, <1>6, <3>1, <3>3 DEF LogInv, LogTypes
      <3> QED
        BY <1>6, <1>11, <3>2, <3>3
    <2> QED
      BY <1>4, <1>6, <1>10, <2>1, <2>2 DEF LogInv, LogTypes
  <1>14. Filed(logFiles, logger.date)'
    BY <1>4, <1>5, <1>6, <1>12 DEF LogInv, Filed
  <1>15. OnceIn(logFiles)'
    BY <1>4 DEF LogInv, OnceIn
  <1>16. PresentIn(logFiles)'
    <2>1. ASSUME NEW i \in DOMAIN logLines', logToday' - logLines'[i].day < LogRetention, NEW w \in logLines'[i].to
          PROVE  \E f \in logFiles' : Holds(f, i, w)
      <3>1. i \in 1..n /\ logLines'[i] = logLines[i]
        BY <1>2, <1>6, <1>11
      <3> QED
        BY <1>4, <1>5, <2>1, <3>1 DEF LogInv, PresentIn
    <2> QED
      BY <2>1 DEF PresentIn
  <1>17. LogFormatInv'
    <2>1. \A u \in LogThread : u # t /\ logPc'[u] = "format" => logPc[u] = "format" /\ logCall'[u].line = logCall[u].line /\ logCall[u].line \in 1..n
      BY <1>5, <1>10 DEF LogInv, LogFormatInv
    <2>2. \A f \in logFiles : f.line \in 1..n
      BY <1>5 DEF LogInv, Filed
    <2>3. ASSUME NEW u \in LogThread, logPc'[u] = "format"
          PROVE  /\ logCall'[u].line \in DOMAIN logLines'
                 /\ \A f \in logFiles' : f.line # logCall'[u].line
                 /\ \A v \in LogThread : logPc'[v] = "format" /\ logCall'[v].line = logCall'[u].line => v = u
      <3>1. CASE u = t
        <4>1. logCall'[u].line = n + 1 /\ n + 1 \in 1..(n + 1)
          BY <1>9, <1>10, <3>1
        <4> QED
          BY <1>4, <1>6, <1>12, <2>1, <2>2, <3>1, <4>1
      <3>2. CASE u # t
        <4>1. logPc[u] = "format" /\ logCall'[u].line = logCall[u].line /\ logCall[u].line \in 1..n
          BY <2>1, <2>3, <3>2
        <4>2. logCall'[t].line = n + 1
          BY <1>9, <1>10
        <4> QED
          BY <1>4, <1>6, <1>12, <2>1, <4>1, <4>2 DEF LogInv, LogFormatInv
      <3> QED
        BY <3>1, <3>2
    <2> QED
      BY <2>3 DEF LogFormatInv
  <1> QED
    BY <1>13, <1>14, <1>15, <1>16, <1>17 DEF LogInv

\* A line is written.
LEMMA WriteStep ==
  ASSUME LogInv, NEW t \in LogThread, fileLogWrite(t)
  PROVE  LogInv'
  <1>1. PICK call, n : call = logCall[t] /\ n = call.line
    OBVIOUS
  <1>2. PICK targets : targets = {x \in Targets(call) : OnFile(x)}
    OBVIOUS
  <1>3. PICK new : new = Written(call, Targets(call))
    OBVIOUS
  <1>4. PICK to : to = {<<call.destination, s.spec>> : s \in targets}
    OBVIOUS
  <1>5. /\ logPc[t] = "format" /\ logPc' = [logPc EXCEPT ![t] = "out"] /\ logFiles' = logFiles \cup new
        /\ logLines' = [logLines EXCEPT ![n].to = to] /\ logCall' = [logCall EXCEPT ![t] = << >>]
        /\ UNCHANGED <<logToday, logger>>
    BY <1>1, <1>2, <1>3, <1>4 DEF fileLogWrite, LogAt
  <1>6. call \in LogMessage /\ call.destination \in LogDestination /\ n \in Nat /\ n \in DOMAIN logLines /\ \A f \in logFiles : f.line # n
    BY <1>1, <1>5 DEF LogInv, LogTypes, LogFormatInv, LogMessage
  <1>7. \A s \in targets : s \in LogStream /\ s.spec \in LogSpecs /\ s.label = Current
    <2>1. logger.entry[call.destination] \in LogEntry
      BY <1>6 DEF LogInv, LogTypes
    <2>2. Targets(call) \subseteq LogStream
      BY <2>1 DEF Targets, LogEntry
    <2> QED
      BY <1>2, <2>2 DEF LogStream
  <1>8. new = {[destination |-> call.destination, spec |-> s.spec, label |-> s.label, line |-> n] : s \in targets}
    BY <1>1, <1>2, <1>3 DEF Written
  <1>9. \A f \in new : f \in LogFile /\ f.line = n /\ f.destination = call.destination /\ f.label = Current
    BY <1>6, <1>7, <1>8 DEF LogFile, Current
  <1>10. ASSUME NEW f \in new, NEW g \in new, f.spec = g.spec PROVE f = g
    BY <1>7, <1>8, <1>10
  <1>11. \A w \in to : \E f \in new : f.destination = w[1] /\ f.spec = w[2]
    <2>1. ASSUME NEW w \in to PROVE \E f \in new : f.destination = w[1] /\ f.spec = w[2]
      <3>1. PICK s \in targets : w = <<call.destination, s.spec>>
        BY <1>4
      <3>2. PICK f : f = [destination |-> call.destination, spec |-> s.spec, label |-> s.label, line |-> n]
        OBVIOUS
      <3>3. f \in new
        BY <1>8, <3>2
      <3> QED
        BY <3>1, <3>2, <3>3
    <2> QED
      BY <2>1
  <1>12. to \subseteq LogDestination \X LogSpecs
    BY <1>4, <1>6, <1>7
  <1>13. /\ logLines' \in Seq(LogLine) /\ DOMAIN logLines' = DOMAIN logLines
         /\ \A i \in DOMAIN logLines : logLines'[i].day = logLines[i].day
         /\ logLines'[n].to = to /\ \A i \in DOMAIN logLines : i # n => logLines'[i].to = logLines[i].to
    <2>1. logLines \in Seq(LogLine) /\ logLines[n] \in LogLine
      BY <1>6, LinesTyped DEF LogInv, LogTypes
    <2>2. PICK v : v = [logLines[n] EXCEPT !.to = to]
      OBVIOUS
    <2>3. v \in LogLine /\ v.day = logLines[n].day /\ v.to = to
      BY <1>12, <2>1, <2>2 DEF LogLine
    <2>4. logLines' = [logLines EXCEPT ![n] = v]
      BY <1>5, <2>2
    <2>5. logLines' \in Seq(LogLine)
      BY <1>6, <2>1, <2>3, <2>4
    <2>6. DOMAIN logLines' = DOMAIN logLines /\ logLines'[n] = v /\ \A i \in DOMAIN logLines : i # n => logLines'[i] = logLines[i]
      BY <1>6, <2>1, <2>4
    <2> QED
      BY <2>3, <2>5, <2>6
  <1>14. /\ logPc' \in [LogThread -> {"out", "build", "format"}] /\ logPc'[t] = "out"
         /\ logCall' = [u \in LogThread |-> logCall'[u]]
         /\ \A u \in LogThread : u # t => logPc'[u] = logPc[u] /\ logCall'[u] = logCall[u]
    BY <1>5 DEF LogInv, LogTypes
  <1>15. LogTypes'
    <2>1. \A u \in LogThread : logPc'[u] # "out" => logCall'[u] \in LogMessage
      BY <1>14 DEF LogInv, LogTypes
    <2> QED
      BY <1>5, <1>13, <1>14, <2>1 DEF LogInv, LogTypes
  <1>16. Filed(logFiles, logger.date)'
    BY <1>5, <1>6, <1>9, <1>13 DEF LogInv, Filed
  <1>17. OnceIn(logFiles)'
    <2>1. ASSUME NEW f \in logFiles', NEW g \in logFiles', SameLog(f, g) PROVE f = g
      <3>1. CASE f \in new /\ g \in new
        BY <1>10, <2>1, <3>1 DEF SameLog
      <3>2. CASE f \in logFiles /\ g \in logFiles
        BY <2>1, <3>2 DEF LogInv, OnceIn
      <3>3. CASE (f \in new /\ g \in logFiles) \/ (f \in logFiles /\ g \in new)
        BY <1>6, <1>9, <2>1, <3>3 DEF SameLog
      <3> QED
        BY <1>5, <3>1, <3>2, <3>3
    <2> QED
      BY <2>1 DEF OnceIn
  <1>18. PresentIn(logFiles)'
    <2>1. ASSUME NEW i \in DOMAIN logLines', logToday' - logLines'[i].day < LogRetention, NEW w \in logLines'[i].to
          PROVE  \E f \in logFiles' : Holds(f, i, w)
      <3>1. CASE i = n
        BY <1>5, <1>9, <1>11, <1>13, <2>1, <3>1 DEF Holds
      <3>2. CASE i # n
        <4>1. i \in DOMAIN logLines /\ logToday - logLines[i].day < LogRetention /\ w \in logLines[i].to
          BY <1>5, <1>13, <2>1, <3>2
        <4> QED
          BY <1>5, <4>1 DEF LogInv, PresentIn
      <3> QED
        BY <3>1, <3>2
    <2> QED
      BY <2>1 DEF PresentIn
  <1>19. LogFormatInv'
    <2>1. ASSUME NEW u \in LogThread, logPc'[u] = "format"
          PROVE  /\ logCall'[u].line \in DOMAIN logLines'
                 /\ \A f \in logFiles' : f.line # logCall'[u].line
                 /\ \A v \in LogThread : logPc'[v] = "format" /\ logCall'[v].line = logCall'[u].line => v = u
      <3>1. u # t /\ logPc[u] = "format" /\ logCall'[u] = logCall[u]
        BY <1>14, <2>1
      <3>2. logCall[u].line # n
        BY <1>1, <1>5, <3>1 DEF LogInv, LogFormatInv
      <3>3. \A f \in logFiles' : f.line # logCall[u].line
        BY <1>5, <1>9, <3>1, <3>2 DEF LogInv, LogFormatInv
      <3> QED
        BY <1>13, <1>14, <3>1, <3>3 DEF LogInv, LogFormatInv
    <2> QED
      BY <2>1 DEF LogFormatInv
  <1> QED
    BY <1>15, <1>16, <1>17, <1>18, <1>19 DEF LogInv

\* A new logger has the date of today.
LEMMA LogCreated ==
  ASSUME NEW driver \in {"file", "dual"}, NEW day \in Nat
  PROVE  /\ log_create(driver, day) \in [driver : {"file", "dual"}, date : Nat, entry : [LogDestination -> LogEntry]]
         /\ log_create(driver, day).date = day
  BY EntriesTyped DEF log_create

\* The logger is destroyed and created anew.
LEMMA RestartStep ==
  ASSUME LogInv, NEW driver \in {"file", "dual"}, LogRestart(driver)
  PROVE  LogInv'
  <1>1. /\ logger' = log_create(driver, logToday) /\ UNCHANGED <<logToday, logMutex, logPc, logCall, logFiles, logLines>>
    BY DEF LogRestart
  <1>2. logToday \in Nat
    BY DEF LogInv, LogTypes
  <1>3. logger' \in [driver : {"file", "dual"}, date : Nat, entry : [LogDestination -> LogEntry]] /\ logger'.date = logToday
    BY <1>1, <1>2, LogCreated
  <1>4. LogTypes'
    BY <1>1, <1>2, <1>3 DEF LogInv, LogTypes
  <1>5. Filed(logFiles, logger.date)'
    <2>1. ASSUME NEW f \in logFiles, f.label # Current PROVE f.label <= logToday
      <3>1. f.label <= logger.date /\ f.label \in Nat /\ logger.date \in Nat /\ logger.date <= logToday
        BY <2>1 DEF LogInv, LogTypes, Filed, LogFile
      <3> QED
        BY <1>2, <3>1
    <2> QED
      BY <1>1, <1>3, <2>1 DEF LogInv, Filed
  <1>6. OnceIn(logFiles)' /\ PresentIn(logFiles)' /\ LogFormatInv'
    BY <1>1 DEF LogInv, OnceIn, PresentIn, LogFormatInv
  <1> QED
    BY <1>4, <1>5, <1>6 DEF LogInv

\* The day ends.
LEMMA MidnightStep ==
  ASSUME LogInv, Midnight
  PROVE  LogInv'
  <1>1. logToday' = logToday + 1 /\ UNCHANGED <<logger, logMutex, logPc, logCall, logFiles, logLines>>
    BY DEF Midnight
  <1>2. logToday \in Nat /\ FirstDay <= logToday /\ FirstDay \in Nat /\ LogRetention \in Nat
    BY LogAssumption DEF LogInv, LogTypes, FirstDay
  <1>3. \A n \in DOMAIN logLines : logLines[n].day \in Nat /\ logLines[n].day <= logToday
    BY LinesTyped DEF LogInv, LogTypes
  <1>4. LogTypes'
    <2>1. logger.date \in Nat /\ logger.date <= logToday
      BY DEF LogInv, LogTypes
    <2>2. logger.date <= logToday + 1 /\ FirstDay <= logToday + 1 /\ logToday + 1 \in Nat
      BY <1>2, <2>1
    <2>3. \A n \in DOMAIN logLines : logLines[n].day <= logToday + 1
      BY <1>2, <1>3
    <2> QED
      BY <1>1, <2>2, <2>3 DEF LogInv, LogTypes, FirstDay
  <1>5. Filed(logFiles, logger.date)' /\ OnceIn(logFiles)' /\ LogFormatInv'
    BY <1>1 DEF LogInv, Filed, OnceIn, LogFormatInv
  <1>6. PresentIn(logFiles)'
    <2>1. ASSUME NEW n \in DOMAIN logLines, (logToday + 1) - logLines[n].day < LogRetention PROVE logToday - logLines[n].day < LogRetention
      BY <1>2, <1>3, <2>1
    <2> QED
      BY <1>1, <2>1 DEF LogInv, PresentIn
  <1> QED
    BY <1>4, <1>5, <1>6 DEF LogInv

\* Every step of the logger keeps its invariant.
LEMMA LogSteps ==
  ASSUME LogInv, [LogNext]_logVars
  PROVE  LogInv'
  <1>1. ASSUME UNCHANGED logVars PROVE LogInv'
    BY <1>1 DEF logVars, LogInv, LogTypes, Filed, OnceIn, PresentIn, LogFormatInv
  <1>2. ASSUME NEW t \in LogThread, NEW d \in LogDestination, LogTextFails(t, d) PROVE LogInv'
    BY <1>1, <1>2 DEF LogTextFails
  <1> QED
    BY <1>1, <1>2, LogTextStep, BuildStep, WriteStep, RestartStep, MidnightStep DEF LogNext

\* At the start there is nothing to keep.
LEMMA LogStart ==
  ASSUME LogInit
  PROVE  LogInv
  <1>1. FirstDay \in Nat
    BY LogAssumption DEF FirstDay
  <1>2. logger \in [driver : {"file", "dual"}, date : Nat, entry : [LogDestination -> LogEntry]] /\ logger.date = FirstDay
    BY <1>1, LogCreated DEF LogInit
  <1>3. logLines = << >> /\ logLines \in Seq(LogLine) /\ DOMAIN logLines = {}
    BY EmptySeq DEF LogInit
  <1>4. LogTypes
    BY <1>1, <1>2, <1>3 DEF LogInit, LogTypes
  <1>5. Filed(logFiles, logger.date) /\ OnceIn(logFiles) /\ PresentIn(logFiles) /\ LogFormatInv
    BY <1>3 DEF LogInit, Filed, OnceIn, PresentIn, LogFormatInv
  <1> QED
    BY <1>4, <1>5 DEF LogInv

\* The invariant says what the run checks.
LEMMA LogInvIsKept ==
  ASSUME LogInv
  PROVE  LogKept
  <1>1. SUFFICES ASSUME NEW n \in DOMAIN logLines, logToday - logLines[n].day < LogRetention, NEW w \in logLines[n].to
                 PROVE  Cardinality(Holding(n, w[1], w[2])) = 1
    BY DEF LogKept
  <1>2. PICK f \in logFiles : Holds(f, n, w)
    BY <1>1 DEF LogInv, PresentIn
  <1>3. Holding(n, w[1], w[2]) = {f}
    BY <1>2 DEF LogInv, OnceIn, SameLog, Holds, Holding
  <1> QED
    BY <1>3, FS_Singleton

\* Of the library's specification only the logger's steps change its state.
LEMMA LogStepsOfLibrary ==
  ASSUME [Next]_libraryVars
  PROVE  [LogNext]_logVars
  BY DEF Next, libraryVars

\* In every behaviour of a logger (logging.c), with any number of threads, destinations, days and lines, no line is in two
\* files of a log, a file that was renamed holds no line younger than its label, and a file that is removed no line that
\* is less than a week old.
THEOREM LogInvariance == Spec => []LogInv
  <1>1. Init => LogInv
    BY LogStart DEF Init
  <1>2. LogInv /\ [Next]_libraryVars => LogInv'
    BY LogStepsOfLibrary, LogSteps
  <1> QED
    BY <1>1, <1>2, PTL DEF Spec

\* fileLogRotate removes what is a week old and nothing else: a line that is less than a week old is in exactly one file
\* of each log it was written to.
THEOREM LinesKept == Spec => []LogKept
  <1>1. LogInv => LogKept
    BY LogInvIsKept
  <1> QED
    BY <1>1, LogInvariance, PTL

-----------------------------------------------------------------------------
(* Vector: the inductive invariant *)

VecTypes ==
  /\ vec \in [capacity : Nat, capacityIncrement : Nat \ {0}, data : Seq(VectorElement), refCount : Nat]
  /\ vecLock \in [owner : VectorThread \cup {Nobody}, depth : Nat]
  /\ vecRefs \in [VectorThread -> Nat]
  /\ vecPc \in [VectorThread -> {"out", "append", "destroy", "freed"}]
  /\ vecIndex \in [VectorThread -> Nat]
  /\ vecDestroyed \in Seq(VectorElement)

\* The lock is a holder's, and the thread that appends has it, with an index that is still the next one.
VecLockInv ==
  /\ vecLock.owner = Nobody <=> vecLock.depth = 0
  /\ vecLock.owner # Nobody => vecRefs[vecLock.owner] > 0
  /\ \A t \in VectorThread :
       vecPc[t] = "append" => vecLock.owner = t /\ vecIndex[t] = Len(vec.data) /\ Len(vec.data) < vec.capacity

\* The references that are held, one by one
RefsOf(refs) == {p \in VectorThread \X Nat : p[2] \in 1..refs[p[1]]}

VecRefInv == IsFiniteSet(RefsOf(vecRefs)) /\ Cardinality(RefsOf(vecRefs)) = vec.refCount

Ending(t) == vecPc[t] \in {"destroy", "freed"}

\* Whoever destroys the vector took the last reference, and does so alone.
VecEndInv ==
  \A t \in VectorThread : Ending(t) => vec.refCount = 0 /\ \A u \in VectorThread : Ending(u) => u = t

\* An element is in the vector once, or destroyed once.
VecDataInv ==
  /\ vec.data = vecAppended /\ Len(vec.data) <= vec.capacity
  /\ IsInjective(vec.data) /\ IsInjective(vecDestroyed)
  /\ VecFreed => Range(vec.data) \subseteq Range(vecDestroyed)
  /\ ~VecFreed => Range(vec.data) \cap Range(vecDestroyed) = {}

VecInv == VecTypes /\ VecLockInv /\ VecRefInv /\ VecEndInv /\ VecDataInv

-----------------------------------------------------------------------------
(* Vector: references and sequences *)

\* A reference that is taken is one that was not there.
LEMMA RefAdded ==
  ASSUME NEW refs \in [VectorThread -> Nat], NEW u \in VectorThread, IsFiniteSet(RefsOf(refs)),
         NEW more, more = [refs EXCEPT ![u] = @ + 1]
  PROVE  IsFiniteSet(RefsOf(more)) /\ Cardinality(RefsOf(more)) = Cardinality(RefsOf(refs)) + 1
  <1>1. PICK p : p = <<u, refs[u] + 1>>
    OBVIOUS
  <1>2. p \notin RefsOf(refs)
    BY <1>1 DEF RefsOf
  <1>3. RefsOf(more) = RefsOf(refs) \cup {p}
    <2>1. \A t \in VectorThread, n \in Nat : n \in 1..more[t] <=> n \in 1..refs[t] \/ (t = u /\ n = refs[u] + 1)
      OBVIOUS
    <2> QED
      BY <1>1, <2>1 DEF RefsOf
  <1>4. IsFiniteSet(RefsOf(refs) \cup {p}) /\ Cardinality(RefsOf(refs) \cup {p}) = Cardinality(RefsOf(refs)) + 1
    BY <1>2, FS_AddElement
  <1> QED
    BY <1>3, <1>4

\* A reference that is given back is one that was there.
LEMMA RefDropped ==
  ASSUME NEW refs \in [VectorThread -> Nat], NEW u \in VectorThread, IsFiniteSet(RefsOf(refs)), refs[u] > 0,
         NEW less, less = [refs EXCEPT ![u] = @ - 1]
  PROVE  IsFiniteSet(RefsOf(less)) /\ Cardinality(RefsOf(less)) = Cardinality(RefsOf(refs)) - 1
  <1>1. PICK p : p = <<u, refs[u]>>
    OBVIOUS
  <1>2. p \in RefsOf(refs)
    BY <1>1 DEF RefsOf
  <1>3. RefsOf(less) = RefsOf(refs) \ {p}
    <2>1. \A t \in VectorThread, n \in Nat : n \in 1..less[t] <=> n \in 1..refs[t] /\ ~(t = u /\ n = refs[u])
      OBVIOUS
    <2> QED
      BY <1>1, <2>1 DEF RefsOf
  <1> QED
    BY <1>2, <1>3, FS_RemoveElement

\* With a count of zero nobody holds the vector, has its lock or is in an append.
LEMMA NobodyHolds ==
  ASSUME VecInv, vec.refCount = 0
  PROVE  (\A t \in VectorThread : vecRefs[t] = 0 /\ ~VecHolds(t) /\ vecPc[t] # "append") /\ vecLock.owner = Nobody
  <1>1. RefsOf(vecRefs) = {}
    BY FS_EmptySet DEF VecInv, VecRefInv
  <1>2. ASSUME NEW t \in VectorThread PROVE vecRefs[t] = 0
    <2>1. SUFFICES ASSUME vecRefs[t] # 0 PROVE FALSE
      OBVIOUS
    <2>2. vecRefs[t] \in Nat
      BY DEF VecInv, VecTypes
    <2>3. <<t, 1>> \in RefsOf(vecRefs)
      BY <2>1, <2>2 DEF RefsOf
    <2> QED
      BY <1>1, <2>3
  <1>3. \A t \in VectorThread : ~VecHolds(t)
    BY <1>2 DEF VecHolds
  <1>4. vecLock.owner = Nobody
    BY <1>2 DEF VecInv, VecTypes, VecLockInv
  <1>5. \A t \in VectorThread : vecPc[t] # "append"
    BY <1>4, VectorAssumption DEF VecInv, VecLockInv, Nobody
  <1> QED
    BY <1>2, <1>3, <1>4, <1>5

\* While somebody holds the vector, or has its lock, nobody destroys it.
LEMMA HeldNotEnding ==
  ASSUME VecInv, NEW t \in VectorThread, VecHolds(t) \/ vecLock.owner = t \/ vecPc[t] = "append"
  PROVE  (\A u \in VectorThread : ~Ending(u)) /\ ~VecFreed
  <1>1. ASSUME NEW u \in VectorThread, Ending(u) PROVE FALSE
    <2>1. vec.refCount = 0
      BY <1>1 DEF VecInv, VecEndInv
    <2> QED
      BY <2>1, NobodyHolds, VectorAssumption DEF Nobody
  <1> QED
    BY <1>1 DEF Ending, VecFreed

\* Append adds its element.
LEMMA SeqAppended ==
  ASSUME NEW S, NEW s \in Seq(S), NEW e \in S, IsInjective(s), e \notin Range(s), NEW r, r = Append(s, e)
  PROVE  r \in Seq(S) /\ Len(r) = Len(s) + 1 /\ IsInjective(r) /\ \A x : x \in Range(r) <=> x \in Range(s) \/ x = e
  <1>1. r \in Seq(S) /\ Len(r) = Len(s) + 1 /\ (\A i \in 1..Len(s) : r[i] = s[i]) /\ r[Len(s) + 1] = e
    OBVIOUS
  <1>2. DOMAIN s = 1..Len(s) /\ DOMAIN r = 1..(Len(s) + 1) /\ Len(s) \in Nat
    BY <1>1
  <1>3. \A i \in DOMAIN r : i \in DOMAIN s \/ i = Len(s) + 1
    BY <1>2
  <1>4. \A i \in DOMAIN s : s[i] # e /\ r[i] = s[i] /\ i \in DOMAIN r
    BY <1>1, <1>2 DEF Range
  <1>5. IsInjective(r)
    BY <1>1, <1>3, <1>4 DEF IsInjective
  <1>6. \A x : x \in Range(r) <=> x \in Range(s) \/ x = e
    <2>1. \A x \in Range(r) : x \in Range(s) \cup {e}
      BY <1>1, <1>3, <1>4 DEF Range
    <2>2. \A x \in Range(s) : x \in Range(r)
      BY <1>4 DEF Range
    <2>3. e \in Range(r)
      BY <1>1, <1>2 DEF Range
    <2> QED
      BY <2>1, <2>2, <2>3
  <1> QED
    BY <1>1, <1>5, <1>6

\* Front drops the last element.
LEMMA SeqFront ==
  ASSUME NEW S, NEW s \in Seq(S), s # << >>, IsInjective(s), NEW r, r = Front(s)
  PROVE  r \in Seq(S) /\ Len(r) = Len(s) - 1 /\ IsInjective(r) /\ Range(r) \subseteq Range(s)
  <1>1. Len(s) \in Nat /\ Len(s) >= 1
    BY EmptySeq
  <1>2. r = SubSeq(s, 1, Len(s) - 1)
    BY DEF Front
  <1>3. r \in Seq(S) /\ Len(r) = Len(s) - 1 /\ \A i \in 1..(Len(s) - 1) : r[i] = s[i]
    <2>1. PICK m \in Nat : m = Len(s) - 1 /\ r = SubSeq(s, 1, m)
      <3>1. Len(s) - 1 \in Nat
        BY <1>1
      <3> QED
        BY <1>2, <3>1
    <2>2. r \in Seq(S) /\ Len(r) = m /\ \A i \in 1..m : r[i] = s[i]
      BY <1>1, <2>1
    <2> QED
      BY <2>1, <2>2
  <1>4. DOMAIN r \subseteq DOMAIN s /\ \A i \in DOMAIN r : r[i] = s[i]
    BY <1>1, <1>3
  <1> QED
    BY <1>3, <1>4 DEF IsInjective, Range

\* Concatenation of sequences without a common element
LEMMA SeqJoined ==
  ASSUME NEW S, NEW s \in Seq(S), NEW q \in Seq(S), IsInjective(s), IsInjective(q), Range(s) \cap Range(q) = {}, NEW r, r = q \o s
  PROVE  r \in Seq(S) /\ IsInjective(r) /\ Range(s) \subseteq Range(r) /\ Range(r) \subseteq Range(s) \cup Range(q)
  <1>1. PICK m \in Nat, n \in Nat : m = Len(q) /\ n = Len(s)
    OBVIOUS
  <1>2. DOMAIN q = 1..m /\ DOMAIN s = 1..n
    BY <1>1
  <1>3. r \in Seq(S) /\ Len(r) = m + n /\ (\A i \in 1..m : r[i] = q[i]) /\ \A i \in (m + 1)..(m + n) : r[i] = s[i - m]
    BY <1>1
  <1>4. DOMAIN r = 1..(m + n)
    BY <1>3
  <1>5. \A i \in DOMAIN r : (i \in DOMAIN q /\ r[i] = q[i]) \/ (i - m \in DOMAIN s /\ i \in Int /\ r[i] = s[i - m])
    BY <1>2, <1>3, <1>4
  <1>6. \A i \in DOMAIN s : i + m \in DOMAIN r /\ r[i + m] = s[i]
    BY <1>2, <1>3, <1>4
  <1>7. IsInjective(r)
    <2>1. ASSUME NEW i \in DOMAIN r, NEW j \in DOMAIN r, r[i] = r[j] PROVE i = j
      <3>1. \A a \in DOMAIN q, b \in DOMAIN s : q[a] # s[b]
        BY DEF Range
      <3>2. CASE i \in DOMAIN q /\ j \in DOMAIN q /\ r[i] = q[i] /\ r[j] = q[j]
        BY <2>1, <3>2 DEF IsInjective
      <3>3. CASE i - m \in DOMAIN s /\ j - m \in DOMAIN s /\ r[i] = s[i - m] /\ r[j] = s[j - m] /\ i \in Int /\ j \in Int
        <4>1. i - m = j - m
          BY <2>1, <3>3 DEF IsInjective
        <4> QED
          BY <3>3, <4>1
      <3> QED
        BY <1>5, <2>1, <3>1, <3>2, <3>3
    <2> QED
      BY <2>1 DEF IsInjective
  <1>8. Range(s) \subseteq Range(r)
    BY <1>6 DEF Range
  <1>9. Range(r) \subseteq Range(s) \cup Range(q)
    BY <1>5 DEF Range
  <1> QED
    BY <1>3, <1>7, <1>8, <1>9

-----------------------------------------------------------------------------
(* Vector: the steps *)

\* A lock that is taken is its owner's.
LEMMA VecLockTaken ==
  ASSUME VecInv, NEW t \in VectorThread, VecLocked(t)
  PROVE  /\ vecLock' \in [owner : VectorThread \cup {Nobody}, depth : Nat]
         /\ vecLock.owner \in {Nobody, t} /\ vecLock'.owner = t /\ t # Nobody /\ vecLock'.depth # 0
  <1>1. vecLock.depth \in Nat
    BY DEF VecInv, VecTypes
  <1>2. vecLock.owner \in {Nobody, t} /\ vecLock' = [owner |-> t, depth |-> vecLock.depth + 1]
    BY DEF VecLocked
  <1>3. t # Nobody
    BY VectorAssumption DEF Nobody
  <1> QED
    BY <1>1, <1>2, <1>3

\* A lock that is left is its owner's or nobody's.
LEMMA VecLockLeft ==
  ASSUME VecInv, NEW t \in VectorThread, vecLock.owner = t, VecUnlocked(t)
  PROVE  /\ vecLock' \in [owner : VectorThread \cup {Nobody}, depth : Nat]
         /\ vecLock'.owner \in {Nobody, t} /\ (vecLock'.owner = Nobody <=> vecLock'.depth = 0)
  <1>1. t # Nobody
    BY VectorAssumption DEF Nobody
  <1>2. PICK n : n = vecLock.depth
    OBVIOUS
  <1>3. n \in Nat /\ n # 0
    BY <1>1, <1>2 DEF VecInv, VecTypes, VecLockInv
  <1>4. vecLock' = [owner |-> IF n = 1 THEN Nobody ELSE t, depth |-> n - 1]
    BY <1>2 DEF VecUnlocked
  <1> QED
    BY <1>1, <1>3, <1>4

\* vectorLock and vectorUnlock
LEMMA VecLockStep ==
  ASSUME VecInv, NEW t \in VectorThread, vectorLock(t) \/ vectorUnlock(t)
  PROVE  VecInv'
  <1>1. UNCHANGED <<vec, vecRefs, vecPc, vecIndex, vecDestroyed, vecAppended>>
    BY DEF vectorLock, vectorUnlock
  <1>2. vecPc[t] = "out" /\ vecLock.owner \in {Nobody, t}
    BY DEF vectorLock, vectorUnlock, VecLocked
  <1>3. vecRefs[t] > 0
    BY VectorAssumption DEF vectorLock, vectorUnlock, VecHolds, VecInv, VecLockInv, Nobody
  <1>4. /\ vecLock' \in [owner : VectorThread \cup {Nobody}, depth : Nat]
        /\ vecLock'.owner \in {Nobody, t} /\ (vecLock'.owner = Nobody <=> vecLock'.depth = 0)
    <2>1. CASE vectorLock(t)
      BY <2>1, VecLockTaken DEF vectorLock
    <2>2. CASE vectorUnlock(t)
      BY <2>2, VecLockLeft DEF vectorUnlock
    <2> QED
      BY <2>1, <2>2
  <1>5. VecTypes'
    BY <1>1, <1>4 DEF VecInv, VecTypes
  <1>6. \A u \in VectorThread : vecPc[u] # "append"
    BY <1>2, VectorAssumption DEF VecInv, VecLockInv, Nobody
  <1>7. VecLockInv'
    BY <1>1, <1>3, <1>4, <1>6 DEF VecLockInv
  <1>8. VecRefInv' /\ VecEndInv' /\ VecDataInv'
    BY <1>1 DEF VecInv, VecRefInv, VecEndInv, Ending, VecDataInv, VecFreed
  <1> QED
    BY <1>5, <1>7, <1>8 DEF VecInv

\* vectorAppend makes room.
LEMMA VecAppendStep ==
  ASSUME VecInv, NEW t \in VectorThread, vectorAppend(t)
  PROVE  VecInv'
  <1>1. /\ vecPc[t] = "out" /\ vecPc' = [vecPc EXCEPT ![t] = "append"] /\ VecHolds(t) /\ VecLocked(t) /\ vec' = Fitting(vec)
        /\ vecIndex' = [vecIndex EXCEPT ![t] = Len(vec.data)] /\ UNCHANGED <<vecRefs, vecDestroyed, vecAppended>>
    BY DEF vectorAppend, VecAt
  <1>2. /\ vecLock' \in [owner : VectorThread \cup {Nobody}, depth : Nat]
        /\ vecLock.owner \in {Nobody, t} /\ vecLock'.owner = t /\ t # Nobody /\ vecLock'.depth # 0
    BY <1>1, VecLockTaken
  <1>3. vec \in [capacity : Nat, capacityIncrement : Nat \ {0}, data : Seq(VectorElement), refCount : Nat]
    BY DEF VecInv, VecTypes
  <1>4. Len(vec.data) \in Nat /\ Len(vec.data) <= vec.capacity
    BY <1>3 DEF VecInv, VecDataInv
  <1>5. /\ vec' \in [capacity : Nat, capacityIncrement : Nat \ {0}, data : Seq(VectorElement), refCount : Nat]
        /\ vec'.data = vec.data /\ vec'.refCount = vec.refCount /\ Len(vec.data) < vec'.capacity
    <2>1. CASE Len(vec.data) = vec.capacity
      <3>1. PICK c : c = vec.capacity + vec.capacityIncrement
        OBVIOUS
      <3>2. c \in Nat /\ Len(vec.data) < c
        BY <1>3, <1>4, <2>1, <3>1
      <3>3. vec' = [vec EXCEPT !.capacity = c]
        BY <1>1, <2>1, <3>1 DEF Fitting, increaseCapacity
      <3> QED
        BY <1>3, <3>2, <3>3
    <2>2. CASE Len(vec.data) # vec.capacity
      <3>1. vec' = vec
        BY <1>1, <2>2 DEF Fitting
      <3>2. Len(vec.data) < vec.capacity
        BY <1>3, <1>4, <2>2
      <3> QED
        BY <1>3, <3>1, <3>2
    <2> QED
      BY <2>1, <2>2
  <1>6. /\ vecPc \in [VectorThread -> {"out", "append", "destroy", "freed"}] /\ vecIndex \in [VectorThread -> Nat]
        /\ vecPc' \in [VectorThread -> {"out", "append", "destroy", "freed"}] /\ vecIndex' \in [VectorThread -> Nat]
        /\ vecPc'[t] = "append" /\ vecIndex'[t] = Len(vec.data)
        /\ \A u \in VectorThread : u # t => vecPc'[u] = vecPc[u] /\ vecIndex'[u] = vecIndex[u]
    BY <1>1, <1>4 DEF VecInv, VecTypes
  <1>7. VecTypes'
    BY <1>1, <1>2, <1>5, <1>6 DEF VecInv, VecTypes
  <1>8. \A u \in VectorThread : vecPc[u] # "append"
    BY <1>1, <1>2, VectorAssumption DEF VecInv, VecLockInv, Nobody
  <1>9. VecLockInv'
    BY <1>1, <1>2, <1>5, <1>6, <1>8 DEF VecLockInv, VecHolds
  <1>10. VecRefInv'
    BY <1>1, <1>5 DEF VecInv, VecRefInv
  <1>11. \A u \in VectorThread : Ending(u)' <=> Ending(u)
    BY <1>1, <1>6 DEF Ending
  <1>12. VecEndInv'
    BY <1>5, <1>11 DEF VecInv, VecEndInv
  <1>13. VecFreed' <=> VecFreed
    BY <1>1, <1>6 DEF VecFreed
  <1>14. Len(vec.data) <= vec'.capacity
    BY <1>4, <1>5
  <1>15. VecDataInv'
    BY <1>1, <1>5, <1>13, <1>14 DEF VecInv, VecDataInv
  <1> QED
    BY <1>7, <1>9, <1>10, <1>12, <1>15 DEF VecInv

\* vectorAppend writes its element at the end, although it goes by an index read before.
LEMMA VecWriteStep ==
  ASSUME VecInv, NEW t \in VectorThread, NEW e \in VectorElement, vectorAppendWrite(t, e)
  PROVE  VecInv'
  <1>1. /\ vecPc[t] = "append" /\ vecPc' = [vecPc EXCEPT ![t] = "out"] /\ VecUnlocked(t)
        /\ vec' = vectorSetElementAt(vec, vecIndex[t], e) /\ vecAppended' = Append(vecAppended, e)
        /\ e \notin Range(vec.data) /\ e \notin Range(vecDestroyed) /\ UNCHANGED <<vecRefs, vecIndex, vecDestroyed>>
    BY DEF vectorAppendWrite, VecAt
  <1>2. vecLock.owner = t /\ vecIndex[t] = Len(vec.data) /\ Len(vec.data) < vec.capacity /\ t # Nobody
    BY <1>1, VectorAssumption DEF VecInv, VecLockInv, Nobody
  <1>3. vecRefs[t] > 0
    BY <1>2 DEF VecInv, VecLockInv
  <1>4. /\ vecLock' \in [owner : VectorThread \cup {Nobody}, depth : Nat]
        /\ vecLock'.owner \in {Nobody, t} /\ (vecLock'.owner = Nobody <=> vecLock'.depth = 0)
    BY <1>1, <1>2, VecLockLeft
  <1>5. vec \in [capacity : Nat, capacityIncrement : Nat \ {0}, data : Seq(VectorElement), refCount : Nat]
    BY DEF VecInv, VecTypes
  <1>6. PICK d, r : d = vec.data /\ r = Append(d, e)
    OBVIOUS
  <1>7. d \in Seq(VectorElement) /\ IsInjective(d) /\ Len(d) \in Nat /\ e \notin Range(d)
    BY <1>1, <1>5, <1>6 DEF VecInv, VecDataInv
  <1>8. r \in Seq(VectorElement) /\ Len(r) = Len(d) + 1 /\ IsInjective(r) /\ \A x : x \in Range(r) <=> x \in Range(d) \/ x = e
    <2>1. r = Append(d, e) /\ d \in Seq(VectorElement) /\ IsInjective(d) /\ e \notin Range(d)
      BY <1>6, <1>7
    <2>2. r \in Seq(VectorElement) /\ Len(r) = Len(d) + 1
      BY <2>1
    <2>3. IsInjective(r)
      BY <2>1, SeqAppended
    <2>4. ASSUME NEW x PROVE x \in Range(r) <=> x \in Range(d) \/ x = e
      BY <2>1, SeqAppended
    <2> QED
      BY <2>2, <2>3, <2>4
  <1>9. vec' = [vec EXCEPT !.data = r]
    <2>1. Fitting(vec) = vec
      BY <1>2, <1>5, <1>6, <1>7 DEF Fitting
    <2> QED
      BY <1>1, <1>2, <1>6, <2>1 DEF vectorSetElementAt
  <1>10. /\ vec' \in [capacity : Nat, capacityIncrement : Nat \ {0}, data : Seq(VectorElement), refCount : Nat]
         /\ vec'.data = r /\ vec'.refCount = vec.refCount /\ vec'.capacity = vec.capacity
    BY <1>5, <1>8, <1>9
  <1>11. Len(r) <= vec.capacity
    BY <1>2, <1>5, <1>6, <1>7, <1>8
  <1>12. /\ vecPc' \in [VectorThread -> {"out", "append", "destroy", "freed"}] /\ vecPc'[t] = "out"
         /\ \A u \in VectorThread : u # t => vecPc'[u] = vecPc[u]
    BY <1>1 DEF VecInv, VecTypes
  <1>13. VecTypes'
    BY <1>1, <1>4, <1>10, <1>12 DEF VecInv, VecTypes
  <1>14. \A u \in VectorThread : vecPc'[u] # "append"
    BY <1>2, <1>12 DEF VecInv, VecLockInv
  <1>15. VecLockInv'
    BY <1>1, <1>3, <1>4, <1>14 DEF VecLockInv
  <1>16. VecRefInv'
    BY <1>1, <1>10 DEF VecInv, VecRefInv
  <1>17. ~VecFreed /\ \A u \in VectorThread : ~Ending(u)
    BY <1>1, HeldNotEnding
  <1>18. ~VecFreed' /\ \A u \in VectorThread : ~Ending(u)'
    BY <1>12, <1>17 DEF Ending, VecFreed
  <1>19. VecEndInv'
    BY <1>18 DEF VecEndInv
  <1>20. VecDataInv'
    <2>1. Range(d) \cap Range(vecDestroyed) = {} /\ d = vecAppended /\ IsInjective(vecDestroyed)
      BY <1>6, <1>17 DEF VecInv, VecDataInv
    <2>2. Range(r) \cap Range(vecDestroyed) = {} /\ r = vecAppended'
      BY <1>1, <1>6, <1>8, <2>1
    <2> QED
      BY <1>1, <1>8, <1>10, <1>11, <1>18, <2>1, <2>2 DEF VecDataInv
  <1> QED
    BY <1>13, <1>15, <1>16, <1>19, <1>20 DEF VecInv

\* vectorRemoveLastElement and vectorRemoveAll, by the owner of the lock
LEMMA VecRemoveStep ==
  ASSUME VecInv, NEW t \in VectorThread, vectorRemoveLastElement(t) \/ vectorRemoveAll(t)
  PROVE  VecInv'
  <1>1. PICK d, r : d = vec.data /\ r = vec'.data
    OBVIOUS
  <1>2. vecPc[t] = "out" /\ vecLock.owner = t /\ d # << >> /\ UNCHANGED <<vecLock, vecRefs, vecPc, vecIndex>>
    BY <1>1 DEF vectorRemoveLastElement, vectorRemoveAll
  <1>3. vec \in [capacity : Nat, capacityIncrement : Nat \ {0}, data : Seq(VectorElement), refCount : Nat]
    BY DEF VecInv, VecTypes
  <1>4. ~VecFreed /\ \A u \in VectorThread : ~Ending(u)
    BY <1>2, HeldNotEnding
  <1>5. /\ d \in Seq(VectorElement) /\ IsInjective(d) /\ d = vecAppended /\ Len(d) \in Nat /\ Len(d) <= vec.capacity
        /\ vecDestroyed \in Seq(VectorElement) /\ IsInjective(vecDestroyed) /\ Range(d) \cap Range(vecDestroyed) = {}
    BY <1>1, <1>3, <1>4 DEF VecInv, VecTypes, VecDataInv
  <1>6. /\ vec' \in [capacity : Nat, capacityIncrement : Nat \ {0}, data : Seq(VectorElement), refCount : Nat]
        /\ vec'.refCount = vec.refCount /\ vec'.capacity = vec.capacity
        /\ r = vecAppended' /\ Len(r) <= vec.capacity /\ IsInjective(r)
        /\ vecDestroyed' \in Seq(VectorElement) /\ IsInjective(vecDestroyed') /\ Range(r) \cap Range(vecDestroyed') = {}
    <2>1. CASE vectorRemoveLastElement(t)
      <3>1. PICK f : f = Front(d)
        OBVIOUS
      <3>2. vec' = [vec EXCEPT !.data = f] /\ vecAppended' = f /\ vecDestroyed' = vecDestroyed
        BY <1>1, <1>5, <2>1, <3>1 DEF vectorRemoveLastElement
      <3>3. f \in Seq(VectorElement) /\ Len(f) = Len(d) - 1 /\ IsInjective(f) /\ Range(f) \subseteq Range(d)
        BY <1>2, <1>5, <3>1, SeqFront
      <3>4. r = f /\ vec' \in [capacity : Nat, capacityIncrement : Nat \ {0}, data : Seq(VectorElement), refCount : Nat]
            /\ vec'.refCount = vec.refCount /\ vec'.capacity = vec.capacity
        BY <1>1, <1>3, <3>2, <3>3
      <3>5. Len(f) <= vec.capacity
        BY <1>3, <1>5, <3>3
      <3> QED
        BY <1>5, <3>2, <3>3, <3>4, <3>5
    <2>2. CASE vectorRemoveAll(t)
      <3>1. PICK f : f = << >> /\ f \in Seq(VectorElement) /\ Len(f) = 0 /\ DOMAIN f = {}
        <4>1. << >> \in Seq(VectorElement) /\ Len(<< >>) = 0 /\ DOMAIN << >> = {}
          BY EmptySeq
        <4> QED
          BY <4>1
      <3>2. vec' = [vec EXCEPT !.data = f] /\ vecAppended' = f /\ vecDestroyed' = vecDestroyed \o d
        BY <1>1, <2>2, <3>1 DEF vectorRemoveAll
      <3>3. IsInjective(f) /\ Range(f) = {}
        BY <3>1 DEF IsInjective, Range
      <3>4. r = f /\ vec' \in [capacity : Nat, capacityIncrement : Nat \ {0}, data : Seq(VectorElement), refCount : Nat]
            /\ vec'.refCount = vec.refCount /\ vec'.capacity = vec.capacity
        BY <1>1, <1>3, <3>1, <3>2
      <3>5. vecDestroyed' \in Seq(VectorElement) /\ IsInjective(vecDestroyed')
        BY <1>5, <3>2, SeqJoined
      <3>6. Len(f) <= vec.capacity
        BY <1>3, <3>1
      <3> QED
        BY <3>2, <3>3, <3>4, <3>5, <3>6
    <2> QED
      BY <2>1, <2>2
  <1>7. VecTypes'
    BY <1>2, <1>6 DEF VecInv, VecTypes
  <1>8. \A u \in VectorThread : vecPc[u] # "append"
    BY <1>2 DEF VecInv, VecLockInv
  <1>9. VecLockInv'
    BY <1>2, <1>8 DEF VecInv, VecLockInv
  <1>10. VecRefInv'
    BY <1>2, <1>6 DEF VecInv, VecRefInv
  <1>11. ~VecFreed' /\ \A u \in VectorThread : ~Ending(u)'
    BY <1>2, <1>4 DEF Ending, VecFreed
  <1>12. VecEndInv'
    BY <1>11 DEF VecEndInv
  <1>13. VecDataInv'
    BY <1>1, <1>6, <1>11 DEF VecDataInv
  <1> QED
    BY <1>7, <1>9, <1>10, <1>12, <1>13 DEF VecInv

\* vectorRefcountIncrease, by a holder
LEMMA VecIncreaseStep ==
  ASSUME VecInv, NEW t \in VectorThread, NEW u \in VectorThread, vectorRefcountIncrease(t, u)
  PROVE  VecInv'
  <1>1. /\ VecHolds(t) /\ vec' = [vec EXCEPT !.refCount = @ + 1] /\ vecRefs' = [vecRefs EXCEPT ![u] = @ + 1]
        /\ UNCHANGED <<vecLock, vecPc, vecIndex, vecDestroyed, vecAppended>>
    BY DEF vectorRefcountIncrease
  <1>2. vec \in [capacity : Nat, capacityIncrement : Nat \ {0}, data : Seq(VectorElement), refCount : Nat] /\ vecRefs \in [VectorThread -> Nat]
    BY DEF VecInv, VecTypes
  <1>3. /\ vec' \in [capacity : Nat, capacityIncrement : Nat \ {0}, data : Seq(VectorElement), refCount : Nat]
        /\ vec'.refCount = vec.refCount + 1 /\ vec'.data = vec.data /\ vec'.capacity = vec.capacity
    BY <1>1, <1>2
  <1>4. vecRefs' \in [VectorThread -> Nat] /\ \A w \in VectorThread : vecRefs[w] > 0 => vecRefs'[w] > 0
    BY <1>1, <1>2
  <1>5. IsFiniteSet(RefsOf(vecRefs')) /\ Cardinality(RefsOf(vecRefs')) = Cardinality(RefsOf(vecRefs)) + 1
    BY <1>1, <1>2, RefAdded DEF VecInv, VecRefInv
  <1>6. ~VecFreed' /\ \A w \in VectorThread : ~Ending(w)'
    <2>1. ~VecFreed /\ \A w \in VectorThread : ~Ending(w)
      BY <1>1, HeldNotEnding
    <2> QED
      BY <1>1, <2>1 DEF Ending, VecFreed
  <1>7. VecTypes'
    BY <1>1, <1>3, <1>4 DEF VecInv, VecTypes
  <1>8. VecLockInv'
    BY <1>1, <1>3, <1>4 DEF VecInv, VecTypes, VecLockInv
  <1>9. VecRefInv'
    BY <1>3, <1>5 DEF VecInv, VecRefInv
  <1>10. VecEndInv'
    BY <1>6 DEF VecEndInv
  <1>11. ~VecFreed
    BY <1>1, <1>6 DEF VecFreed
  <1>12. VecDataInv'
    BY <1>1, <1>3, <1>6, <1>11 DEF VecInv, VecDataInv
  <1> QED
    BY <1>7, <1>8, <1>9, <1>10, <1>12 DEF VecInv

\* vectorRefcountDecrease: the count is zero only when the last reference is gone.
LEMMA VecDecreaseStep ==
  ASSUME VecInv, NEW t \in VectorThread, vectorRefcountDecrease(t)
  PROVE  VecInv'
  <1>1. PICK n, pc : n = vec.refCount /\ pc = IF n = 1 THEN "destroy" ELSE "out"
    OBVIOUS
  <1>2. /\ VecHolds(t) /\ vecLock.owner # t /\ n > 0 /\ vecPc[t] = "out" /\ vecPc' = [vecPc EXCEPT ![t] = pc]
        /\ vec' = [vec EXCEPT !.refCount = n - 1] /\ vecRefs' = [vecRefs EXCEPT ![t] = @ - 1]
        /\ UNCHANGED <<vecLock, vecIndex, vecDestroyed, vecAppended>>
    BY <1>1 DEF vectorRefcountDecrease, VecAt
  <1>3. vec \in [capacity : Nat, capacityIncrement : Nat \ {0}, data : Seq(VectorElement), refCount : Nat] /\ vecRefs \in [VectorThread -> Nat]
    BY DEF VecInv, VecTypes
  <1>4. n \in Nat /\ n - 1 \in Nat /\ (n = 1 <=> n - 1 = 0)
    BY <1>1, <1>2, <1>3
  <1>5. /\ vec' \in [capacity : Nat, capacityIncrement : Nat \ {0}, data : Seq(VectorElement), refCount : Nat]
        /\ vec'.refCount = n - 1 /\ vec'.data = vec.data /\ vec'.capacity = vec.capacity
    BY <1>2, <1>3, <1>4
  <1>6. vecRefs' \in [VectorThread -> Nat] /\ \A w \in VectorThread : w # t => vecRefs'[w] = vecRefs[w]
    BY <1>2, <1>3 DEF VecHolds
  <1>7. IsFiniteSet(RefsOf(vecRefs')) /\ Cardinality(RefsOf(vecRefs')) = Cardinality(RefsOf(vecRefs)) - 1
    BY <1>2, <1>3, RefDropped DEF VecInv, VecRefInv, VecHolds
  <1>8. /\ vecPc' \in [VectorThread -> {"out", "append", "destroy", "freed"}] /\ vecPc'[t] = pc /\ pc \in {"out", "destroy"}
        /\ \A w \in VectorThread : w # t => vecPc'[w] = vecPc[w]
    BY <1>1, <1>2 DEF VecInv, VecTypes
  <1>9. ~VecFreed /\ \A w \in VectorThread : ~Ending(w)
    BY <1>2, HeldNotEnding
  <1>10. VecTypes'
    BY <1>2, <1>5, <1>6, <1>8 DEF VecInv, VecTypes
  <1>11. VecLockInv'
    <2>1. \A w \in VectorThread : vecPc'[w] = "append" => vecPc[w] = "append"
      BY <1>8
    <2>2. vecLock.owner # Nobody => vecRefs'[vecLock.owner] > 0
      BY <1>2, <1>6 DEF VecInv, VecTypes, VecLockInv
    <2> QED
      BY <1>2, <1>5, <2>1, <2>2 DEF VecInv, VecLockInv
  <1>12. VecRefInv'
    BY <1>1, <1>5, <1>7 DEF VecInv, VecRefInv
  <1>13. \A w \in VectorThread : Ending(w)' => w = t /\ n - 1 = 0
    BY <1>1, <1>4, <1>8, <1>9 DEF Ending
  <1>14. VecEndInv'
    BY <1>5, <1>13 DEF VecEndInv
  <1>15. ~VecFreed'
    BY <1>8, <1>9 DEF VecFreed, Ending
  <1>16. VecDataInv'
    BY <1>2, <1>5, <1>9, <1>15 DEF VecInv, VecDataInv
  <1> QED
    BY <1>10, <1>11, <1>12, <1>14, <1>16 DEF VecInv

\* vectorDestroy, by the one thread that took the last reference
LEMMA VecDestroyStep ==
  ASSUME VecInv, NEW t \in VectorThread, vectorDestroy(t)
  PROVE  VecInv'
  <1>1. /\ vecPc[t] = "destroy" /\ vecPc' = [vecPc EXCEPT ![t] = "freed"] /\ vecDestroyed' = vecDestroyed \o vec.data
        /\ UNCHANGED <<vec, vecLock, vecRefs, vecIndex, vecAppended>>
    BY DEF vectorDestroy, VecAt
  <1>2. /\ vecPc' \in [VectorThread -> {"out", "append", "destroy", "freed"}] /\ vecPc'[t] = "freed"
        /\ \A w \in VectorThread : w # t => vecPc'[w] = vecPc[w]
    BY <1>1 DEF VecInv, VecTypes
  <1>3. Ending(t) /\ vec.refCount = 0 /\ \A w \in VectorThread : Ending(w) => w = t
    BY <1>1 DEF VecInv, VecEndInv, Ending
  <1>4. ~VecFreed
    BY <1>1, <1>3 DEF VecFreed, Ending
  <1>5. PICK d : d = vec.data
    OBVIOUS
  <1>6. /\ d \in Seq(VectorElement) /\ IsInjective(d) /\ vecDestroyed \in Seq(VectorElement) /\ IsInjective(vecDestroyed)
        /\ Range(d) \cap Range(vecDestroyed) = {}
    BY <1>4, <1>5 DEF VecInv, VecTypes, VecDataInv
  <1>7. vecDestroyed' \in Seq(VectorElement) /\ IsInjective(vecDestroyed') /\ Range(d) \subseteq Range(vecDestroyed')
    <2>1. vecDestroyed' = vecDestroyed \o d
      BY <1>1, <1>5
    <2> QED
      BY <1>6, <2>1, SeqJoined
  <1>8. VecTypes'
    BY <1>1, <1>2, <1>7 DEF VecInv, VecTypes
  <1>9. VecLockInv'
    BY <1>1, <1>2 DEF VecInv, VecLockInv
  <1>10. VecRefInv'
    BY <1>1 DEF VecInv, VecRefInv
  <1>11. \A w \in VectorThread : Ending(w)' => Ending(w)
    BY <1>2, <1>3 DEF Ending
  <1>12. VecEndInv'
    BY <1>1, <1>3, <1>11 DEF VecEndInv
  <1>13. VecFreed'
    BY <1>2 DEF VecFreed
  <1>14. VecDataInv'
    BY <1>1, <1>5, <1>7, <1>13 DEF VecInv, VecDataInv
  <1> QED
    BY <1>8, <1>9, <1>10, <1>12, <1>14 DEF VecInv

\* Every step of the vector keeps its invariant.
LEMMA VecSteps ==
  ASSUME VecInv, [VectorNext]_vectorVars
  PROVE  VecInv'
  <1>1. ASSUME UNCHANGED vectorVars PROVE VecInv'
    BY <1>1 DEF vectorVars, VecInv, VecTypes, VecLockInv, VecRefInv, VecEndInv, Ending, VecDataInv, VecFreed
  <1> QED
    BY <1>1, VecLockStep, VecAppendStep, VecWriteStep, VecRemoveStep, VecIncreaseStep, VecDecreaseStep, VecDestroyStep DEF VectorNext

\* The thread that creates the vector has its only reference.
LEMMA VecStart ==
  ASSUME VectorInit
  PROVE  VecInv
  <1>1. PICK t \in VectorThread : vecRefs = [u \in VectorThread |-> IF u = t THEN 1 ELSE 0]
    BY VectorAssumption DEF VectorInit
  <1>2. vec = [capacity |-> VectorCapacity, capacityIncrement |-> VectorIncrement, data |-> << >>, refCount |-> 1]
    BY DEF VectorInit, vectorCreate
  <1>3. vec.data = << >> /\ << >> \in Seq(VectorElement) /\ Len(<< >>) = 0 /\ DOMAIN << >> = {}
    BY <1>2, EmptySeq
  <1>4. VecTypes
    <2>1. vec \in [capacity : Nat, capacityIncrement : Nat \ {0}, data : Seq(VectorElement), refCount : Nat]
      BY <1>2, <1>3, VectorAssumption
    <2>2. vecRefs \in [VectorThread -> Nat]
      BY <1>1
    <2> QED
      BY <1>3, <2>1, <2>2 DEF VectorInit, VecTypes
  <1>5. VecRefInv
    <2>1. RefsOf(vecRefs) = {<<t, 1>>}
      <3>1. \A u \in VectorThread, n \in Nat : n \in 1..vecRefs[u] <=> u = t /\ n = 1
        BY <1>1
      <3> QED
        BY <3>1 DEF RefsOf
    <2> QED
      BY <1>2, <2>1, FS_Singleton DEF VecRefInv
  <1>6. VecLockInv /\ VecEndInv
    BY DEF VectorInit, VecLockInv, VecEndInv, Ending
  <1>7. VecDataInv
    <2>1. ~VecFreed
      BY DEF VectorInit, VecFreed
    <2>2. vecAppended = << >> /\ vecDestroyed = << >> /\ vec.capacity \in Nat
      BY <1>2, VectorAssumption DEF VectorInit
    <2> QED
      BY <1>3, <2>1, <2>2 DEF VecDataInv, IsInjective, Range
  <1> QED
    BY <1>4, <1>5, <1>6, <1>7 DEF VecInv

\* The invariant says what the run checks of a vector.
LEMMA VecInvIsShared ==
  ASSUME VecInv
  PROVE  VectorShared
  <1>1. PICK E : E = {t \in VectorThread : vecPc[t] \in {"destroy", "freed"}}
    OBVIOUS
  <1>2. Cardinality(E) <= 1
    <2>1. CASE E = {}
      BY <2>1, FS_EmptySet
    <2>2. CASE E # {}
      <3>1. PICK t \in E : TRUE
        BY <2>2
      <3>2. E = {t}
        BY <1>1, <3>1 DEF VecInv, VecEndInv, Ending
      <3>3. Cardinality({t}) = 1
        BY FS_Singleton
      <3> QED
        BY <3>2, <3>3
    <2> QED
      BY <2>1, <2>2
  <1>3. (\E t \in VectorThread : vecPc[t] \in {"destroy", "freed"}) => vec.refCount = 0
    BY DEF VecInv, VecEndInv, Ending
  <1>4. (\E t \in VectorThread : vecPc[t] \in {"destroy", "freed"}) =>
           (\A u \in VectorThread : vecRefs[u] = 0 /\ vecPc[u] # "append") /\ vecLock.owner = Nobody
    BY <1>3, NobodyHolds
  <1> QED
    BY <1>1, <1>2, <1>4 DEF VecInv, VecLockInv, VecDataInv, VectorShared

-----------------------------------------------------------------------------
(* Memory manager: the inductive invariant *)

MemHeader == [isFree : BOOLEAN, data : MemBlocks \cup {-1}]

MemTypes ==
  /\ memManager \in [firstFree : MemBlocks \cup {-1}, header : [MemBlocks -> MemHeader]]
  /\ memMutex \in [owner : MemThread \cup {Unowned}, depth : Nat]
  /\ memPc \in [MemThread -> {"out", "pop", "take", "give", "push", "aborted"}]
  /\ memBlock \in [MemThread -> MemBlocks \cup {-1}]
  /\ memOwner \in [MemBlocks -> MemThread \cup {Unowned}]
  /\ memFull \in BOOLEAN

\* A thread that works on the list has the mutex; until the manager was full, nobody else has it.
MemMutexInv ==
  /\ memMutex.owner = Unowned <=> memMutex.depth = 0
  /\ \A t \in MemThread : memPc[t] \in {"pop", "push"} => memMutex.owner = t
  /\ ~memFull => memMutex.depth <= 1 /\ (memMutex.owner # Unowned => memPc[memMutex.owner] \in {"pop", "push"})

\* A block between list and user is in the hands of one call.
MemHandsInv ==
  /\ \A t \in MemThread : memBlock[t] # -1 <=> memPc[t] \in {"take", "give", "push"}
  /\ \A t, u \in MemThread : memBlock[t] = memBlock[u] /\ memBlock[t] # -1 => t = u
  /\ \A t \in MemThread : memBlock[t] # -1 => memOwner[memBlock[t]] = Unowned

MemUseInv ==
  \A i \in MemBlocks :
    IF memOwner[i] = Unowned THEN memManager.header[i].isFree
    ELSE ~memManager.header[i].isFree /\ memManager.header[i].data = i

\* The list through the headers consists of the blocks of s.
MemChain(s, manager) ==
  /\ s \in Seq(MemBlocks)
  /\ \A j, k \in 1..Len(s) : s[j] = s[k] => j = k
  /\ manager.firstFree = IF Len(s) = 0 THEN -1 ELSE s[1]
  /\ \A k \in 1..Len(s) : manager.header[s[k]].data = IF k = Len(s) THEN -1 ELSE s[k + 1]

InChain(i, s) == \E k \in 1..Len(s) : s[k] = i

MemIdle(i) == memOwner[i] = Unowned /\ \A t \in MemThread : memBlock[t] # i

\* The free list has the blocks that nobody has.
MemListInv == \E s : MemChain(s, memManager) /\ \A i \in MemBlocks : InChain(i, s) <=> MemIdle(i)

MemInv == MemTypes /\ MemMutexInv /\ MemHandsInv /\ MemUseInv /\ MemListInv

-----------------------------------------------------------------------------
(* Memory manager: the free list *)

\* -1 is no block.
LEMMA NoBlock == -1 \notin MemBlocks /\ MemBlocks \subseteq Int
  BY MemAssumption DEF MemBlocks

\* The list has no more blocks than there are.
LEMMA ChainBound ==
  ASSUME NEW s, NEW manager, MemChain(s, manager)
  PROVE  Len(s) \in Nat /\ Len(s) <= MemCapacity
  <1>1. s \in Seq(MemBlocks) /\ Len(s) \in Nat /\ \A j, k \in 1..Len(s) : s[j] = s[k] => j = k
    BY DEF MemChain
  <1>2. s \in [1..Len(s) -> MemBlocks]
    BY <1>1
  <1>3. s \in Injection(1..Len(s), MemBlocks)
    BY <1>1, <1>2 DEF Injection, IsInjective
  <1>4. MemCapacity \in Nat /\ MemCapacity > 0 /\ MemCapacity - 1 \in Int
    BY MemAssumption
  <1>5. IsFiniteSet(MemBlocks) /\ Cardinality(MemBlocks) = MemCapacity
    <2>1. IsFiniteSet(0..(MemCapacity - 1)) /\ Cardinality(0..(MemCapacity - 1)) = IF 0 > MemCapacity - 1 THEN 0 ELSE (MemCapacity - 1) - 0 + 1
      BY <1>4, FS_Interval, SMTT(30)
    <2> QED
      BY <1>4, <2>1 DEF MemBlocks
  <1>6. Cardinality(1..Len(s)) <= MemCapacity
    BY <1>3, <1>5, FS_Injection
  <1>7. Cardinality(1..Len(s)) = Len(s)
    <2>1. PICK n \in Nat : n = Len(s)
      BY <1>1
    <2>2. Cardinality(1..n) = IF 1 > n THEN 0 ELSE n - 1 + 1
      BY FS_Interval, SMTT(30)
    <2> QED
      BY <2>1, <2>2
  <1> QED
    BY <1>1, <1>6, <1>7

\* What the recursive definition of FreeAt says of a function.
FollowsList(f) ==
  f = [n \in 0..MemCapacity |->
         IF n = 0 THEN memManager.firstFree ELSE IF f[n - 1] = -1 THEN -1 ELSE memManager.header[f[n - 1]].data]

\* FreeAt is that function, if there is one.
LEMMA FreeAtFollows == (\E f : FollowsList(f)) => FollowsList(FreeAt)
  BY DEF FreeAt, FollowsList

ChainAt(s) == [k \in 0..MemCapacity |-> IF k < Len(s) THEN s[k + 1] ELSE -1]

\* The function that reads the blocks off the sequence follows the list.
LEMMA ListFollowed ==
  ASSUME NEW s, MemChain(s, memManager)
  PROVE  FollowsList(ChainAt(s))
  <1> DEFINE f == ChainAt(s)
  <1>1. Len(s) \in Nat /\ Len(s) <= MemCapacity /\ MemCapacity \in Nat /\ s \in Seq(MemBlocks)
    BY ChainBound, MemAssumption DEF MemChain
  <1>2. \A k \in 1..Len(s) : s[k] \in MemBlocks /\ s[k] # -1
    BY <1>1, NoBlock
  <1>3. ASSUME NEW k \in 0..MemCapacity
        PROVE  f[k] = IF k = 0 THEN memManager.firstFree ELSE IF f[k - 1] = -1 THEN -1 ELSE memManager.header[f[k - 1]].data
    <2>1. CASE k = 0
      BY <1>1, <2>1 DEF MemChain, ChainAt
    <2>2. CASE k # 0
      <3>1. k - 1 \in 0..MemCapacity
        BY <1>1, <2>2
      <3>2. CASE k - 1 < Len(s)
        <4>1. f[k - 1] = s[k] /\ k \in 1..Len(s) /\ s[k] # -1
          BY <1>1, <1>2, <2>2, <3>1, <3>2 DEF ChainAt
        <4>2. memManager.header[s[k]].data = IF k = Len(s) THEN -1 ELSE s[k + 1]
          BY <4>1 DEF MemChain
        <4>3. f[k] = IF k = Len(s) THEN -1 ELSE s[k + 1]
          BY <1>1, <3>2, <4>1 DEF ChainAt
        <4> QED
          BY <2>2, <4>1, <4>2, <4>3
      <3>3. CASE ~(k - 1 < Len(s))
        BY <1>1, <2>2, <3>1, <3>3 DEF ChainAt
      <3> QED
        BY <3>2, <3>3
    <2> QED
      BY <2>1, <2>2
  <1> QED
    BY <1>3 DEF FollowsList, ChainAt

\* FreeAt[n] is the block n places after the first of the list, or -1 past its end.
LEMMA FreeAtIs ==
  ASSUME NEW s, MemChain(s, memManager)
  PROVE  DOMAIN FreeAt = 0..MemCapacity /\ \A n \in 0..MemCapacity : FreeAt[n] = IF n < Len(s) THEN s[n + 1] ELSE -1
  <1>1. MemCapacity \in Nat
    BY MemAssumption
  <1>2. PICK f : f = ChainAt(s)
    OBVIOUS
  <1>3. FollowsList(f)
    BY <1>2, ListFollowed
  <1>4. \A k \in 0..MemCapacity : f[k] = IF k = 0 THEN memManager.firstFree ELSE IF f[k - 1] = -1 THEN -1 ELSE memManager.header[f[k - 1]].data
    BY <1>3 DEF FollowsList
  <1>5. FollowsList(FreeAt)
    BY <1>3, FreeAtFollows
  <1>6. \A k \in 0..MemCapacity : FreeAt[k] = f[k]
    <2> DEFINE T == {k \in 0..MemCapacity : FreeAt[k] # f[k]}
    <2> SUFFICES ASSUME T # {}
                 PROVE  FALSE
      OBVIOUS
    <2>1. T \subseteq Nat
      BY <1>1
    <2>2. \E k \in T : \A j \in T : ~(j < k)
      <3> HIDE DEF T
      <3> QED
        BY <2>1, LeastOf, Zenon
    <2>3. PICK k \in T : \A j \in T : ~(j < k)
      BY <2>2
    <2>4. k \in 0..MemCapacity /\ FreeAt[k] # f[k]
      BY <2>3
    <2>5. k # 0 => FreeAt[k - 1] = f[k - 1] /\ k - 1 \in 0..MemCapacity
      <3>1. SUFFICES ASSUME k # 0 PROVE FreeAt[k - 1] = f[k - 1] /\ k - 1 \in 0..MemCapacity
        OBVIOUS
      <3>2. k - 1 \in 0..MemCapacity /\ k - 1 < k
        BY <1>1, <2>4, <3>1
      <3> QED
        BY <2>3, <3>2
    <2>6. FreeAt[k] = IF k = 0 THEN memManager.firstFree ELSE IF FreeAt[k - 1] = -1 THEN -1 ELSE memManager.header[FreeAt[k - 1]].data
      BY <1>5, <2>4 DEF FollowsList
    <2>7. f[k] = IF k = 0 THEN memManager.firstFree ELSE IF f[k - 1] = -1 THEN -1 ELSE memManager.header[f[k - 1]].data
      BY <1>4, <2>4
    <2> QED
      BY <2>4, <2>5, <2>6, <2>7
  <1>7. DOMAIN FreeAt = 0..MemCapacity
    BY <1>5 DEF FollowsList
  <1> QED
    BY <1>2, <1>6, <1>7 DEF ChainAt

\* So the recursive walk finds the blocks of the list.
LEMMA FreeListIs ==
  ASSUME NEW s, MemChain(s, memManager)
  PROVE  \A i : i \in MemFreeList <=> InChain(i, s)
  <1>1. Len(s) \in Nat /\ Len(s) <= MemCapacity /\ MemCapacity \in Nat /\ s \in Seq(MemBlocks)
    BY ChainBound, MemAssumption DEF MemChain
  <1>2. \A k \in 1..Len(s) : s[k] \in MemBlocks /\ s[k] # -1
    BY <1>1, NoBlock
  <1>3. DOMAIN FreeAt = 0..MemCapacity
    BY FreeAtIs
  <1>4. \A k \in 0..MemCapacity : FreeAt[k] = IF k < Len(s) THEN s[k + 1] ELSE -1
    BY FreeAtIs
  <1>5. ASSUME NEW i \in MemFreeList PROVE InChain(i, s)
    <2>1. PICK k \in 0..MemCapacity : i = FreeAt[k] /\ i # -1
      BY <1>3, <1>5 DEF MemFreeList, Range
    <2>2. i = s[k + 1] /\ k + 1 \in 1..Len(s)
      BY <1>1, <1>4, <2>1
    <2> QED
      BY <2>2 DEF InChain
  <1>6. ASSUME NEW i, InChain(i, s) PROVE i \in MemFreeList
    <2>1. PICK k \in 1..Len(s) : s[k] = i
      BY <1>6 DEF InChain
    <2>2. k - 1 \in 0..MemCapacity /\ k - 1 < Len(s) /\ (k - 1) + 1 = k
      BY <1>1, <2>1
    <2>3. FreeAt[k - 1] = i /\ i # -1
      BY <1>2, <1>4, <2>1, <2>2
    <2> QED
      BY <1>3, <2>2, <2>3 DEF MemFreeList, Range
  <1> QED
    BY <1>5, <1>6

-----------------------------------------------------------------------------
(* Memory manager: the steps *)

\* A thread is not the owner of a free mutex.
LEMMA MemOwners == \A t \in MemThread : t # Unowned
  BY MemAssumption DEF Unowned

\* The mutex is taken by a thread that does not have it, unless the manager was full.
LEMMA MemLockTaken ==
  ASSUME MemInv, NEW t \in MemThread, memPc[t] \notin {"pop", "push"}, MemLock(t)
  PROVE  /\ memMutex' \in [owner : MemThread \cup {Unowned}, depth : Nat]
         /\ memMutex'.owner = t /\ memMutex'.depth # 0 /\ (~memFull => memMutex'.depth <= 1)
         /\ \A u \in MemThread : memPc[u] \notin {"pop", "push"}
  <1>1. PICK o, n : o = memMutex.owner /\ n = memMutex.depth
    OBVIOUS
  <1>2. n \in Nat /\ o \in {Unowned, t} /\ memMutex' = [owner |-> t, depth |-> n + 1]
    BY <1>1 DEF MemInv, MemTypes, MemLock
  <1>3. ~memFull => n = 0
    BY <1>1, <1>2 DEF MemInv, MemMutexInv
  <1>4. \A u \in MemThread : memPc[u] \notin {"pop", "push"}
    BY <1>1, <1>2, MemOwners DEF MemInv, MemMutexInv
  <1>5. n + 1 \in Nat /\ n + 1 # 0 /\ (n = 0 => n + 1 <= 1)
    BY <1>2
  <1> QED
    BY <1>2, <1>3, <1>4, <1>5

\* The mutex is left, for good unless the manager was full.
LEMMA MemLockLeft ==
  ASSUME MemInv, NEW t \in MemThread, memPc[t] \in {"pop", "push"}, MemUnlock(t)
  PROVE  /\ memMutex' \in [owner : MemThread \cup {Unowned}, depth : Nat]
         /\ memMutex'.owner \in {Unowned, t} /\ (memMutex'.owner = Unowned <=> memMutex'.depth = 0)
         /\ (~memFull => memMutex'.owner = Unowned /\ memMutex'.depth = 0)
         /\ \A u \in MemThread : u # t => memPc[u] \notin {"pop", "push"}
  <1>1. PICK n : n = memMutex.depth
    OBVIOUS
  <1>2. memMutex' = [owner |-> IF n = 1 THEN Unowned ELSE t, depth |-> n - 1]
    BY <1>1 DEF MemUnlock
  <1>3. n \in Nat /\ n # 0 /\ (~memFull => n <= 1) /\ memMutex.owner = t
    BY <1>1, MemOwners DEF MemInv, MemTypes, MemMutexInv
  <1>4. n - 1 \in Nat /\ (n = 1 <=> n - 1 = 0) /\ (~memFull => n = 1)
    BY <1>3
  <1>5. \A u \in MemThread : u # t => memPc[u] \notin {"pop", "push"}
    BY <1>3 DEF MemInv, MemMutexInv
  <1> QED
    BY <1>2, <1>4, <1>5, MemOwners

\* The list is what it was when the headers of its blocks are.
LEMMA ChainKept ==
  ASSUME NEW s, NEW manager, MemChain(s, manager), NEW other, other.firstFree = manager.firstFree,
         \A k \in 1..Len(s) : other.header[s[k]] = manager.header[s[k]]
  PROVE  MemChain(s, other)
  BY DEF MemChain

\* memManager_allocate and FreeLock take the mutex.
LEMMA MemLockStep ==
  ASSUME MemInv, NEW t \in MemThread, memManager_allocate(t) \/ FreeLock(t)
  PROVE  MemInv'
  <1>1. PICK pc : (memManager_allocate(t) /\ pc = "pop") \/ (FreeLock(t) /\ pc = "push")
    OBVIOUS
  <1>2. /\ memPc' = [memPc EXCEPT ![t] = pc] /\ MemLock(t) /\ UNCHANGED <<memManager, memBlock, memOwner, memFull>>
        /\ (memPc[t] = "out" /\ pc = "pop") \/ (memPc[t] = "give" /\ pc = "push")
    BY <1>1 DEF memManager_allocate, FreeLock, MemAt
  <1>3. /\ memMutex' \in [owner : MemThread \cup {Unowned}, depth : Nat]
        /\ memMutex'.owner = t /\ memMutex'.depth # 0 /\ (~memFull => memMutex'.depth <= 1)
        /\ \A u \in MemThread : memPc[u] \notin {"pop", "push"}
    BY <1>2, MemLockTaken
  <1>4. /\ memPc' \in [MemThread -> {"out", "pop", "take", "give", "push", "aborted"}] /\ memPc'[t] = pc
        /\ \A u \in MemThread : u # t => memPc'[u] = memPc[u]
    BY <1>2 DEF MemInv, MemTypes
  <1>5. MemTypes'
    BY <1>2, <1>3, <1>4 DEF MemInv, MemTypes
  <1>6. MemMutexInv'
    BY <1>2, <1>3, <1>4, MemOwners DEF MemMutexInv
  <1>7. MemHandsInv'
    <2>1. \A u \in MemThread : memPc'[u] \in {"take", "give", "push"} <=> memPc[u] \in {"take", "give", "push"}
      BY <1>2, <1>4
    <2> QED
      BY <1>2, <2>1 DEF MemInv, MemHandsInv
  <1>8. MemUseInv' /\ MemListInv'
    BY <1>2 DEF MemInv, MemUseInv, MemListInv, MemIdle
  <1> QED
    BY <1>5, <1>6, <1>7, <1>8 DEF MemInv

\* AllocateFull keeps the mutex.
LEMMA MemFullStep ==
  ASSUME MemInv, NEW t \in MemThread, AllocateFull(t)
  PROVE  MemInv'
  <1>1. PICK pc : pc = IF \E i \in MemBlocks : memManager.header[i].isFree THEN "aborted" ELSE "out"
    OBVIOUS
  <1>2. /\ memPc[t] = "pop" /\ memPc' = [memPc EXCEPT ![t] = pc] /\ pc \in {"aborted", "out"} /\ memFull' = TRUE
        /\ UNCHANGED <<memManager, memMutex, memBlock, memOwner>>
    BY <1>1 DEF AllocateFull, MemAt
  <1>3. /\ memPc' \in [MemThread -> {"out", "pop", "take", "give", "push", "aborted"}] /\ memPc'[t] = pc
        /\ \A u \in MemThread : u # t => memPc'[u] = memPc[u]
    BY <1>2 DEF MemInv, MemTypes
  <1>4. MemTypes'
    BY <1>2, <1>3 DEF MemInv, MemTypes
  <1>5. MemMutexInv'
    BY <1>2, <1>3 DEF MemInv, MemMutexInv
  <1>6. MemHandsInv'
    <2>1. \A u \in MemThread : memPc'[u] \in {"take", "give", "push"} <=> memPc[u] \in {"take", "give", "push"}
      BY <1>2, <1>3
    <2> QED
      BY <1>2, <2>1 DEF MemInv, MemHandsInv
  <1>7. MemUseInv' /\ MemListInv'
    BY <1>2 DEF MemInv, MemUseInv, MemListInv, MemIdle
  <1> QED
    BY <1>4, <1>5, <1>6, <1>7 DEF MemInv

\* AllocatePop takes the first block of the list into its hands.
LEMMA MemPopStep ==
  ASSUME MemInv, NEW t \in MemThread, AllocatePop(t)
  PROVE  MemInv'
  <1>1. PICK m, i : m = memManager /\ i = m.firstFree
    OBVIOUS
  <1>2. /\ memPc[t] = "pop" /\ memPc' = [memPc EXCEPT ![t] = "take"] /\ i # -1 /\ memBlock' = [memBlock EXCEPT ![t] = i]
        /\ memManager' = [m EXCEPT !.firstFree = m.header[i].data] /\ MemUnlock(t) /\ UNCHANGED <<memOwner, memFull>>
    BY <1>1 DEF AllocatePop, MemAt
  <1>3. /\ memMutex' \in [owner : MemThread \cup {Unowned}, depth : Nat]
        /\ memMutex'.owner \in {Unowned, t} /\ (memMutex'.owner = Unowned <=> memMutex'.depth = 0)
        /\ (~memFull => memMutex'.owner = Unowned /\ memMutex'.depth = 0)
        /\ \A u \in MemThread : u # t => memPc[u] \notin {"pop", "push"}
    BY <1>2, MemLockLeft
  <1>4. /\ memPc' \in [MemThread -> {"out", "pop", "take", "give", "push", "aborted"}] /\ memPc'[t] = "take"
        /\ \A u \in MemThread : u # t => memPc'[u] = memPc[u]
    BY <1>2 DEF MemInv, MemTypes
  <1>5. m \in [firstFree : MemBlocks \cup {-1}, header : [MemBlocks -> MemHeader]] /\ i \in MemBlocks
    BY <1>1, <1>2 DEF MemInv, MemTypes
  <1>6. m.header[i] \in MemHeader /\ m.header[i].data \in MemBlocks \cup {-1}
    BY <1>5 DEF MemHeader
  <1>7. /\ memManager' \in [firstFree : MemBlocks \cup {-1}, header : [MemBlocks -> MemHeader]]
        /\ memManager'.header = m.header /\ memManager'.firstFree = m.header[i].data
    BY <1>2, <1>5, <1>6
  <1>8. /\ memBlock' \in [MemThread -> MemBlocks \cup {-1}] /\ memBlock'[t] = i
        /\ \A u \in MemThread : u # t => memBlock'[u] = memBlock[u]
    BY <1>2, <1>5 DEF MemInv, MemTypes
  <1>9. PICK s : MemChain(s, m) /\ \A j \in MemBlocks : InChain(j, s) <=> MemIdle(j)
    BY <1>1 DEF MemInv, MemListInv
  <1>10. s \in Seq(MemBlocks) /\ Len(s) \in Nat /\ Len(s) # 0 /\ s[1] = i /\ 1 \in 1..Len(s)
    BY <1>1, <1>2, <1>9 DEF MemChain
  <1>11. InChain(i, s)
    BY <1>10 DEF InChain
  <1>12. memOwner[i] = Unowned /\ \A u \in MemThread : memBlock[u] # i
    BY <1>5, <1>9, <1>11 DEF MemIdle
  <1>13. PICK r : r = Tail(s)
    OBVIOUS
  <1>14. r \in Seq(MemBlocks) /\ Len(r) = Len(s) - 1 /\ \A k \in 1..(Len(s) - 1) : r[k] = s[k + 1]
    BY <1>10, <1>13
  <1>15. MemChain(r, memManager')
    <2>1. PICK n \in Nat : n = Len(r) /\ Len(s) = n + 1
      BY <1>10, <1>14
    <2>2. \A k \in 1..n : r[k] = s[k + 1] /\ k + 1 \in 1..Len(s)
      BY <1>14, <2>1
    <2>3. \A j, k \in 1..n : r[j] = r[k] => j = k
      <3>1. ASSUME NEW j \in 1..n, NEW k \in 1..n, r[j] = r[k] PROVE j = k
        <4>1. j + 1 = k + 1
          BY <1>9, <2>2, <3>1 DEF MemChain
        <4> QED
          BY <4>1
      <3> QED
        BY <3>1
    <2>4. m.header[i].data = IF n = 0 THEN -1 ELSE s[2]
      <3>1. m.header[s[1]].data = IF 1 = Len(s) THEN -1 ELSE s[1 + 1]
        BY <1>9, <1>10 DEF MemChain
      <3> QED
        BY <1>10, <2>1, <3>1
    <2>5. n # 0 => r[1] = s[2]
      BY <2>2
    <2>6. \A k \in 1..n : m.header[r[k]].data = IF k = n THEN -1 ELSE r[k + 1]
      <3>1. ASSUME NEW k \in 1..n PROVE m.header[r[k]].data = IF k = n THEN -1 ELSE r[k + 1]
        <4>1. m.header[s[k + 1]].data = IF k + 1 = Len(s) THEN -1 ELSE s[(k + 1) + 1]
          BY <1>9, <2>2 DEF MemChain
        <4>2. k # n => k + 1 \in 1..n
          OBVIOUS
        <4>3. k # n => r[k + 1] = s[(k + 1) + 1]
          BY <2>2, <4>2
        <4>4. k + 1 = Len(s) <=> k = n
          BY <2>1
        <4> QED
          BY <2>2, <4>1, <4>3, <4>4
      <3> QED
        BY <3>1
    <2> QED
      BY <1>7, <1>14, <2>1, <2>3, <2>4, <2>5, <2>6 DEF MemChain
  <1>16. \A j \in MemBlocks : InChain(j, r) <=> InChain(j, s) /\ j # i
    <2>1. ASSUME NEW j \in MemBlocks, InChain(j, r) PROVE InChain(j, s) /\ j # i
      <3>1. PICK k \in 1..Len(r) : r[k] = j
        BY <2>1 DEF InChain
      <3>2. k + 1 \in 1..Len(s) /\ k + 1 # 1 /\ s[k + 1] = j
        BY <1>10, <1>14, <3>1
      <3>3. j # i
        BY <1>9, <1>10, <3>2 DEF MemChain
      <3> QED
        BY <3>2, <3>3 DEF InChain
    <2>2. ASSUME NEW j \in MemBlocks, InChain(j, s), j # i PROVE InChain(j, r)
      <3>1. PICK k \in 1..Len(s) : s[k] = j
        BY <2>2 DEF InChain
      <3>2. k # 1
        BY <1>10, <2>2, <3>1
      <3>3. k - 1 \in 1..Len(r) /\ k - 1 \in 1..(Len(s) - 1) /\ (k - 1) + 1 = k
        BY <1>10, <1>14, <3>1, <3>2
      <3>4. r[k - 1] = j
        BY <1>14, <3>1, <3>3
      <3> QED
        BY <3>3, <3>4 DEF InChain
    <2> QED
      BY <2>1, <2>2
  <1>17. \A j \in MemBlocks : MemIdle(j)' <=> MemIdle(j) /\ j # i
    <2>1. \A j \in MemBlocks : memBlock[t] # j
      BY <1>2, NoBlock DEF MemInv, MemHandsInv
    <2> QED
      BY <1>2, <1>8, <2>1 DEF MemIdle
  <1>18. MemListInv'
    <2>1. \A j \in MemBlocks : InChain(j, r) <=> MemIdle(j)'
      BY <1>9, <1>16, <1>17
    <2> QED
      BY <1>15, <2>1 DEF MemListInv
  <1>19. MemTypes'
    BY <1>2, <1>3, <1>4, <1>7, <1>8 DEF MemInv, MemTypes
  <1>20. MemMutexInv'
    BY <1>2, <1>3, <1>4 DEF MemInv, MemMutexInv
  <1>21. MemHandsInv'
    BY <1>2, <1>4, <1>5, <1>8, <1>12, NoBlock DEF MemInv, MemHandsInv
  <1>22. MemUseInv'
    BY <1>1, <1>2, <1>7 DEF MemInv, MemUseInv
  <1> QED
    BY <1>18, <1>19, <1>20, <1>21, <1>22 DEF MemInv

\* AllocateTake writes the header of the block in its hands, without the mutex.
LEMMA MemTakeStep ==
  ASSUME MemInv, NEW t \in MemThread, AllocateTake(t)
  PROVE  MemInv'
  <1>1. PICK m, i : m = memManager /\ i = memBlock[t]
    OBVIOUS
  <1>2. PICK h : h = [isFree |-> FALSE, data |-> i]
    OBVIOUS
  <1>3. /\ memPc[t] = "take" /\ memPc' = [memPc EXCEPT ![t] = "out"] /\ memManager' = [m EXCEPT !.header[i] = h]
        /\ memOwner' = [memOwner EXCEPT ![i] = t] /\ memBlock' = [memBlock EXCEPT ![t] = -1] /\ UNCHANGED <<memMutex, memFull>>
    BY <1>1, <1>2 DEF AllocateTake, MemAt
  <1>4. i # -1 /\ i \in MemBlocks /\ memOwner[i] = Unowned /\ \A u \in MemThread : u # t => memBlock[u] # i
    BY <1>1, <1>3 DEF MemInv, MemTypes, MemHandsInv
  <1>5. /\ memPc' \in [MemThread -> {"out", "pop", "take", "give", "push", "aborted"}] /\ memPc'[t] = "out"
        /\ \A u \in MemThread : u # t => memPc'[u] = memPc[u]
    BY <1>3 DEF MemInv, MemTypes
  <1>6. m \in [firstFree : MemBlocks \cup {-1}, header : [MemBlocks -> MemHeader]]
    BY <1>1 DEF MemInv, MemTypes
  <1>7. h \in MemHeader /\ ~h.isFree /\ h.data = i
    BY <1>2, <1>4 DEF MemHeader
  <1>8. /\ memManager' \in [firstFree : MemBlocks \cup {-1}, header : [MemBlocks -> MemHeader]]
        /\ memManager'.firstFree = m.firstFree /\ memManager'.header[i] = h
        /\ \A j \in MemBlocks : j # i => memManager'.header[j] = m.header[j]
    BY <1>3, <1>4, <1>6, <1>7
  <1>9. /\ memBlock' \in [MemThread -> MemBlocks \cup {-1}] /\ memBlock'[t] = -1
        /\ \A u \in MemThread : u # t => memBlock'[u] = memBlock[u]
    BY <1>3 DEF MemInv, MemTypes
  <1>10. /\ memOwner' \in [MemBlocks -> MemThread \cup {Unowned}] /\ memOwner'[i] = t
         /\ \A j \in MemBlocks : j # i => memOwner'[j] = memOwner[j]
    BY <1>3, <1>4 DEF MemInv, MemTypes
  <1>11. PICK s : MemChain(s, m) /\ \A j \in MemBlocks : InChain(j, s) <=> MemIdle(j)
    BY <1>1 DEF MemInv, MemListInv
  <1>12. \A k \in 1..Len(s) : s[k] \in MemBlocks /\ s[k] # i
    <2>1. ~InChain(i, s)
      BY <1>1, <1>4, <1>11 DEF MemIdle
    <2>2. s \in Seq(MemBlocks)
      BY <1>11 DEF MemChain
    <2> QED
      BY <2>1, <2>2 DEF InChain
  <1>13. MemChain(s, memManager')
    BY <1>8, <1>11, <1>12, ChainKept
  <1>14. \A j \in MemBlocks : MemIdle(j)' <=> MemIdle(j)
    <2>1. ~MemIdle(i) /\ ~MemIdle(i)'
      BY <1>1, <1>10, MemOwners DEF MemIdle
    <2>2. ASSUME NEW j \in MemBlocks, j # i PROVE MemIdle(j)' <=> MemIdle(j)
      BY <1>1, <1>9, <1>10, <2>2, NoBlock DEF MemIdle
    <2> QED
      BY <2>1, <2>2
  <1>15. MemListInv'
    BY <1>11, <1>13, <1>14 DEF MemListInv
  <1>16. MemTypes'
    BY <1>3, <1>5, <1>8, <1>9, <1>10 DEF MemInv, MemTypes
  <1>17. MemMutexInv'
    BY <1>3, <1>5 DEF MemInv, MemMutexInv
  <1>18. MemHandsInv'
    <2>1. \A u \in MemThread : u # t /\ memBlock[u] # -1 => memBlock[u] \in MemBlocks /\ memBlock[u] # i
      BY <1>4 DEF MemInv, MemTypes
    <2> QED
      BY <1>3, <1>5, <1>9, <1>10, <2>1 DEF MemInv, MemHandsInv
  <1>19. MemUseInv'
    BY <1>1, <1>7, <1>8, <1>10, MemOwners DEF MemInv, MemUseInv
  <1> QED
    BY <1>15, <1>16, <1>17, <1>18, <1>19 DEF MemInv

\* memManager_free takes a block in use into its hands.
LEMMA MemFreeStep ==
  ASSUME MemInv, NEW t \in MemThread, NEW i \in MemBlocks, memManager_free(t, i)
  PROVE  MemInv'
  <1>1. PICK m : m = memManager
    OBVIOUS
  <1>2. /\ memPc[t] = "out" /\ memPc' = [memPc EXCEPT ![t] = "give"] /\ memOwner[i] # Unowned
        /\ memOwner' = [memOwner EXCEPT ![i] = Unowned] /\ memBlock' = [memBlock EXCEPT ![t] = m.header[i].data]
        /\ memManager' = [m EXCEPT !.header[i].isFree = TRUE] /\ UNCHANGED <<memMutex, memFull>>
    BY <1>1 DEF memManager_free, MemAt
  <1>3. m \in [firstFree : MemBlocks \cup {-1}, header : [MemBlocks -> MemHeader]] /\ m.header[i] \in MemHeader /\ m.header[i].data = i
    BY <1>1, <1>2 DEF MemInv, MemTypes, MemUseInv
  <1>4. PICK h : h = [m.header[i] EXCEPT !.isFree = TRUE]
    OBVIOUS
  <1>5. h \in MemHeader /\ h.isFree
    BY <1>3, <1>4 DEF MemHeader
  <1>6. memManager' = [m EXCEPT !.header[i] = h]
    BY <1>2, <1>4
  <1>7. /\ memManager' \in [firstFree : MemBlocks \cup {-1}, header : [MemBlocks -> MemHeader]]
        /\ memManager'.firstFree = m.firstFree /\ memManager'.header[i] = h
        /\ \A j \in MemBlocks : j # i => memManager'.header[j] = m.header[j]
    BY <1>3, <1>5, <1>6
  <1>8. /\ memPc' \in [MemThread -> {"out", "pop", "take", "give", "push", "aborted"}] /\ memPc'[t] = "give"
        /\ \A u \in MemThread : u # t => memPc'[u] = memPc[u]
    BY <1>2 DEF MemInv, MemTypes
  <1>9. /\ memBlock' \in [MemThread -> MemBlocks \cup {-1}] /\ memBlock'[t] = i
        /\ \A u \in MemThread : u # t => memBlock'[u] = memBlock[u]
    BY <1>2, <1>3 DEF MemInv, MemTypes
  <1>10. /\ memOwner' \in [MemBlocks -> MemThread \cup {Unowned}] /\ memOwner'[i] = Unowned
         /\ \A j \in MemBlocks : j # i => memOwner'[j] = memOwner[j]
    BY <1>2 DEF MemInv, MemTypes
  <1>11. memBlock[t] = -1 /\ \A u \in MemThread : memBlock[u] # i
    BY <1>2, NoBlock DEF MemInv, MemHandsInv
  <1>12. PICK s : MemChain(s, m) /\ \A j \in MemBlocks : InChain(j, s) <=> MemIdle(j)
    BY <1>1 DEF MemInv, MemListInv
  <1>13. \A k \in 1..Len(s) : s[k] \in MemBlocks /\ s[k] # i
    <2>1. ~InChain(i, s)
      BY <1>2, <1>12 DEF MemIdle
    <2>2. s \in Seq(MemBlocks)
      BY <1>12 DEF MemChain
    <2> QED
      BY <2>1, <2>2 DEF InChain
  <1>14. MemChain(s, memManager')
    BY <1>7, <1>12, <1>13, ChainKept
  <1>15. \A j \in MemBlocks : MemIdle(j)' <=> MemIdle(j)
    <2>1. ~MemIdle(i) /\ ~MemIdle(i)'
      BY <1>2, <1>9 DEF MemIdle
    <2>2. ASSUME NEW j \in MemBlocks, j # i PROVE MemIdle(j)' <=> MemIdle(j)
      BY <1>9, <1>10, <1>11, <2>2, NoBlock DEF MemIdle
    <2> QED
      BY <2>1, <2>2
  <1>16. MemListInv'
    BY <1>12, <1>14, <1>15 DEF MemListInv
  <1>17. MemTypes'
    BY <1>2, <1>7, <1>8, <1>9, <1>10 DEF MemInv, MemTypes
  <1>18. MemMutexInv'
    BY <1>2, <1>8 DEF MemInv, MemMutexInv
  <1>19. MemHandsInv'
    <2>1. \A u \in MemThread : memBlock[u] # -1 => memBlock[u] \in MemBlocks
      BY DEF MemInv, MemTypes
    <2>2. i # -1
      BY NoBlock
    <2> QED
      BY <1>2, <1>8, <1>9, <1>10, <1>11, <2>1, <2>2 DEF MemInv, MemHandsInv
  <1>20. MemUseInv'
    BY <1>1, <1>5, <1>7, <1>10 DEF MemInv, MemUseInv
  <1> QED
    BY <1>16, <1>17, <1>18, <1>19, <1>20 DEF MemInv

\* FreePush puts the block in its hands before the first of the list.
LEMMA MemPushStep ==
  ASSUME MemInv, NEW t \in MemThread, FreePush(t)
  PROVE  MemInv'
  <1>1. PICK m, i, f : m = memManager /\ i = memBlock[t] /\ f = m.firstFree
    OBVIOUS
  <1>2. /\ memPc[t] = "push" /\ memPc' = [memPc EXCEPT ![t] = "out"]
        /\ memManager' = [firstFree |-> i, header |-> [m.header EXCEPT ![i].data = f]]
        /\ MemUnlock(t) /\ memBlock' = [memBlock EXCEPT ![t] = -1] /\ UNCHANGED <<memOwner, memFull>>
    BY <1>1 DEF FreePush, MemAt
  <1>3. /\ memMutex' \in [owner : MemThread \cup {Unowned}, depth : Nat]
        /\ memMutex'.owner \in {Unowned, t} /\ (memMutex'.owner = Unowned <=> memMutex'.depth = 0)
        /\ (~memFull => memMutex'.owner = Unowned /\ memMutex'.depth = 0)
        /\ \A u \in MemThread : u # t => memPc[u] \notin {"pop", "push"}
    BY <1>2, MemLockLeft
  <1>4. /\ memPc' \in [MemThread -> {"out", "pop", "take", "give", "push", "aborted"}] /\ memPc'[t] = "out"
        /\ \A u \in MemThread : u # t => memPc'[u] = memPc[u]
    BY <1>2 DEF MemInv, MemTypes
  <1>5. i # -1 /\ i \in MemBlocks /\ memOwner[i] = Unowned /\ \A u \in MemThread : u # t => memBlock[u] # i
    BY <1>1, <1>2 DEF MemInv, MemTypes, MemHandsInv
  <1>6. m \in [firstFree : MemBlocks \cup {-1}, header : [MemBlocks -> MemHeader]] /\ m.header[i] \in MemHeader /\ f \in MemBlocks \cup {-1}
    BY <1>1, <1>5 DEF MemInv, MemTypes
  <1>7. PICK h : h = [m.header[i] EXCEPT !.data = f]
    OBVIOUS
  <1>8. h \in MemHeader /\ h.isFree = m.header[i].isFree /\ h.data = f
    BY <1>6, <1>7 DEF MemHeader
  <1>9. memManager' = [firstFree |-> i, header |-> [m.header EXCEPT ![i] = h]]
    BY <1>2, <1>7
  <1>10. /\ memManager' \in [firstFree : MemBlocks \cup {-1}, header : [MemBlocks -> MemHeader]]
         /\ memManager'.firstFree = i /\ memManager'.header[i] = h
         /\ \A j \in MemBlocks : j # i => memManager'.header[j] = m.header[j]
    BY <1>5, <1>6, <1>8, <1>9
  <1>11. /\ memBlock' \in [MemThread -> MemBlocks \cup {-1}] /\ memBlock'[t] = -1
         /\ \A u \in MemThread : u # t => memBlock'[u] = memBlock[u]
    BY <1>2 DEF MemInv, MemTypes
  <1>12. PICK s : MemChain(s, m) /\ \A j \in MemBlocks : InChain(j, s) <=> MemIdle(j)
    BY <1>1 DEF MemInv, MemListInv
  <1>13. s \in Seq(MemBlocks) /\ Len(s) \in Nat /\ \A k \in 1..Len(s) : s[k] \in MemBlocks /\ s[k] # i
    <2>1. ~InChain(i, s)
      BY <1>1, <1>5, <1>12 DEF MemIdle
    <2>2. s \in Seq(MemBlocks)
      BY <1>12 DEF MemChain
    <2> QED
      BY <2>1, <2>2 DEF InChain
  <1>14. PICK r : r = <<i>> \o s
    OBVIOUS
  <1>15. PICK n \in Nat : n = Len(s)
    BY <1>13
  <1>16. r \in Seq(MemBlocks) /\ Len(r) = n + 1 /\ r[1] = i /\ \A k \in 1..n : r[k + 1] = s[k]
    <2>1. <<i>> \in Seq(MemBlocks) /\ Len(<<i>>) = 1
      BY <1>5
    <2>2. r \in Seq(MemBlocks) /\ Len(r) = 1 + n /\ (\A k \in 1..(1 + n) : r[k] = IF k <= 1 THEN <<i>>[k] ELSE s[k - 1])
      BY <1>13, <1>14, <1>15, <2>1
    <2>3. r[1] = <<i>>[1]
      BY <2>2
    <2>4. \A k \in 1..n : k + 1 \in 1..(1 + n) /\ ~(k + 1 <= 1) /\ (k + 1) - 1 = k
      OBVIOUS
    <2> QED
      BY <2>2, <2>3, <2>4
  <1>17. \A k \in 1..(n + 1) : k = 1 \/ (k - 1 \in 1..n /\ r[k] = s[k - 1])
    <2>1. ASSUME NEW k \in 1..(n + 1), k # 1 PROVE k - 1 \in 1..n /\ r[k] = s[k - 1]
      <3>1. k - 1 \in 1..n /\ (k - 1) + 1 = k
        BY <2>1
      <3> QED
        BY <1>16, <3>1
    <2> QED
      BY <2>1
  <1>18. MemChain(r, memManager')
    <2>1. \A j, k \in 1..(n + 1) : r[j] = r[k] => j = k
      <3>1. ASSUME NEW j \in 1..(n + 1), NEW k \in 1..(n + 1), r[j] = r[k], j # 1, k # 1 PROVE j = k
        <4>1. j - 1 \in 1..n /\ k - 1 \in 1..n /\ s[j - 1] = s[k - 1]
          BY <1>17, <3>1
        <4>2. j - 1 = k - 1
          BY <1>12, <1>15, <4>1 DEF MemChain
        <4> QED
          BY <4>2
      <3>2. \A k \in 1..(n + 1) : k # 1 => r[k] # i
        BY <1>13, <1>15, <1>17
      <3> QED
        BY <1>16, <3>1, <3>2
    <2>2. f = IF n = 0 THEN -1 ELSE s[1]
      BY <1>1, <1>12, <1>15 DEF MemChain
    <2>3. \A k \in 1..(n + 1) : memManager'.header[r[k]].data = IF k = n + 1 THEN -1 ELSE r[k + 1]
      <3>1. CASE n = 0
        BY <1>8, <1>10, <1>16, <2>2, <3>1
      <3>2. CASE n # 0
        <4>1. memManager'.header[r[1]].data = r[1 + 1] /\ 1 # n + 1
          <5>1. 1 \in 1..n
            BY <3>2
          <5> QED
            BY <1>8, <1>10, <1>16, <2>2, <5>1
        <4>2. ASSUME NEW k \in 1..(n + 1), k # 1 PROVE memManager'.header[r[k]].data = IF k = n + 1 THEN -1 ELSE r[k + 1]
          <5>1. k - 1 \in 1..n /\ r[k] = s[k - 1]
            BY <1>17, <4>2
          <5>2. m.header[s[k - 1]].data = IF k - 1 = n THEN -1 ELSE s[(k - 1) + 1]
            BY <1>12, <1>15, <5>1 DEF MemChain
          <5>3. memManager'.header[r[k]] = m.header[s[k - 1]]
            BY <1>10, <1>13, <1>15, <5>1
          <5>4. k # n + 1 => k \in 1..n /\ r[k + 1] = s[(k - 1) + 1]
            <6>1. SUFFICES ASSUME k # n + 1 PROVE k \in 1..n /\ r[k + 1] = s[(k - 1) + 1]
              OBVIOUS
            <6>2. k \in 1..n /\ (k - 1) + 1 = k
              BY <6>1
            <6> QED
              BY <1>16, <6>2
          <5>5. k - 1 = n <=> k = n + 1
            OBVIOUS
          <5> QED
            BY <5>2, <5>3, <5>4, <5>5
        <4> QED
          BY <4>1, <4>2
      <3> QED
        BY <3>1, <3>2
    <2>4. Len(r) # 0
      BY <1>16
    <2> QED
      BY <1>10, <1>16, <2>1, <2>3, <2>4 DEF MemChain
  <1>19. \A j \in MemBlocks : InChain(j, r) <=> InChain(j, s) \/ j = i
    <2>1. ASSUME NEW j \in MemBlocks, InChain(j, r) PROVE InChain(j, s) \/ j = i
      BY <1>15, <1>16, <1>17, <2>1 DEF InChain
    <2>2. ASSUME NEW j \in MemBlocks, InChain(j, s) PROVE InChain(j, r)
      <3>1. PICK k \in 1..n : s[k] = j
        BY <1>15, <2>2 DEF InChain
      <3>2. k + 1 \in 1..Len(r) /\ r[k + 1] = j
        BY <1>16, <3>1
      <3> QED
        BY <3>2 DEF InChain
    <2>3. InChain(i, r)
      <3>1. 1 \in 1..Len(r)
        BY <1>16
      <3> QED
        BY <1>16, <3>1 DEF InChain
    <2> QED
      BY <2>1, <2>2, <2>3
  <1>20. \A j \in MemBlocks : MemIdle(j)' <=> MemIdle(j) \/ j = i
    <2>1. MemIdle(i)'
      BY <1>2, <1>5, <1>11 DEF MemIdle
    <2>2. ASSUME NEW j \in MemBlocks, j # i PROVE MemIdle(j)' <=> MemIdle(j)
      BY <1>1, <1>2, <1>11, <2>2, NoBlock DEF MemIdle
    <2> QED
      BY <2>1, <2>2
  <1>21. MemListInv'
    <2>1. \A j \in MemBlocks : InChain(j, r) <=> MemIdle(j)'
      BY <1>12, <1>19, <1>20
    <2> QED
      BY <1>18, <2>1 DEF MemListInv
  <1>22. MemTypes'
    BY <1>2, <1>3, <1>4, <1>10, <1>11 DEF MemInv, MemTypes
  <1>23. MemMutexInv'
    BY <1>2, <1>3, <1>4 DEF MemInv, MemMutexInv
  <1>24. MemHandsInv'
    BY <1>2, <1>4, <1>11 DEF MemInv, MemHandsInv
  <1>25. MemUseInv'
    <2>1. \A j \in MemBlocks : memManager'.header[j].isFree = m.header[j].isFree
      BY <1>8, <1>10
    <2>2. \A j \in MemBlocks : memOwner[j] # Unowned => memManager'.header[j] = m.header[j]
      BY <1>5, <1>10
    <2>3. ASSUME NEW j \in MemBlocks
          PROVE  IF memOwner[j] = Unowned THEN memManager'.header[j].isFree
                 ELSE ~memManager'.header[j].isFree /\ memManager'.header[j].data = j
      <3>1. CASE memOwner[j] = Unowned
        BY <1>1, <2>1, <3>1 DEF MemInv, MemUseInv
      <3>2. CASE memOwner[j] # Unowned
        BY <1>1, <2>2, <3>2 DEF MemInv, MemUseInv
      <3> QED
        BY <3>1, <3>2
    <2> QED
      BY <1>2, <2>3 DEF MemUseInv
  <1> QED
    BY <1>21, <1>22, <1>23, <1>24, <1>25 DEF MemInv

\* Every step of the memory manager keeps its invariant.
LEMMA MemSteps ==
  ASSUME MemInv, [MemNext]_memVars
  PROVE  MemInv'
  <1>1. ASSUME UNCHANGED memVars PROVE MemInv'
    BY <1>1 DEF memVars, MemInv, MemTypes, MemMutexInv, MemHandsInv, MemUseInv, MemListInv, MemIdle
  <1> QED
    BY <1>1, MemLockStep, MemFullStep, MemPopStep, MemTakeStep, MemFreeStep, MemPushStep DEF MemNext

\* At the start every block is in the list.
LEMMA MemStart ==
  ASSUME MemInit
  PROVE  MemInv
  <1>1. PICK c \in Nat : c = MemCapacity /\ c > 0 /\ MemBlocks = 0..(c - 1)
    BY MemAssumption DEF MemBlocks
  <1>2. memManager = [firstFree |-> 0, header |-> [i \in MemBlocks |-> [isFree |-> TRUE, data |-> IF i = c - 1 THEN -1 ELSE i + 1]]]
    BY <1>1 DEF MemInit
  <1>3. \A i \in MemBlocks : memManager.header[i].isFree /\ memManager.header[i].data = IF i = c - 1 THEN -1 ELSE i + 1
    BY <1>2
  <1>4. memManager.firstFree = 0
    BY <1>2
  <1>5. MemTypes
    <2>1. \A i \in MemBlocks : (IF i = c - 1 THEN -1 ELSE i + 1) \in MemBlocks \cup {-1}
      BY <1>1
    <2>2. \A i \in MemBlocks : [isFree |-> TRUE, data |-> IF i = c - 1 THEN -1 ELSE i + 1] \in MemHeader
      BY <2>1 DEF MemHeader
    <2>3. 0 \in MemBlocks
      BY <1>1
    <2>4. memManager \in [firstFree : MemBlocks \cup {-1}, header : [MemBlocks -> MemHeader]]
      BY <1>2, <2>2, <2>3
    <2> QED
      BY <2>4 DEF MemInit, MemTypes
  <1>6. MemMutexInv
    BY DEF MemInit, MemMutexInv
  <1>7. MemHandsInv
    BY DEF MemInit, MemHandsInv
  <1>8. MemUseInv
    BY <1>3 DEF MemInit, MemUseInv
  <1>9. MemListInv
    <2>1. PICK s : s = [k \in 1..c |-> k - 1]
      OBVIOUS
    <2>2. s \in Seq(MemBlocks) /\ Len(s) = c /\ \A k \in 1..c : s[k] = k - 1
      <3>1. \A k \in 1..c : k - 1 \in MemBlocks
        BY <1>1
      <3>2. s \in [1..c -> MemBlocks]
        BY <2>1, <3>1
      <3>3. s \in Seq(MemBlocks)
        BY <3>2 DEF Seq
      <3>4. DOMAIN s = 1..c /\ DOMAIN s = 1..Len(s) /\ Len(s) \in Nat
        BY <3>2, <3>3
      <3>5. Len(s) = c
        BY <1>1, <3>4
      <3> QED
        BY <2>1, <3>3, <3>5
    <2>3. \A j, k \in 1..c : s[j] = s[k] => j = k
      BY <2>2
    <2>4. \A k \in 1..c : memManager.header[s[k]].data = IF k = c THEN -1 ELSE s[k + 1]
      <3>1. ASSUME NEW k \in 1..c PROVE memManager.header[s[k]].data = IF k = c THEN -1 ELSE s[k + 1]
        <4>1. s[k] = k - 1 /\ k - 1 \in MemBlocks
          BY <1>1, <2>2
        <4>2. memManager.header[k - 1].data = IF k - 1 = c - 1 THEN -1 ELSE (k - 1) + 1
          BY <1>3, <4>1
        <4>3. k # c => k + 1 \in 1..c
          OBVIOUS
        <4>4. k # c => s[k + 1] = (k - 1) + 1
          BY <2>2, <4>3
        <4> QED
          BY <4>1, <4>2, <4>4
      <3> QED
        BY <3>1
    <2>5. s[1] = 0
      BY <1>1, <2>2
    <2>6. MemChain(s, memManager)
      BY <1>1, <1>4, <2>2, <2>3, <2>4, <2>5 DEF MemChain
    <2>7. \A i \in MemBlocks : InChain(i, s)
      <3>1. ASSUME NEW i \in MemBlocks PROVE InChain(i, s)
        <4>1. i + 1 \in 1..c /\ (i + 1) - 1 = i
          BY <1>1
        <4> QED
          BY <2>2, <4>1 DEF InChain
      <3> QED
        BY <3>1
    <2>8. \A i \in MemBlocks : MemIdle(i)
      BY NoBlock DEF MemInit, MemIdle
    <2> QED
      BY <2>6, <2>7, <2>8 DEF MemListInv
  <1> QED
    BY <1>5, <1>6, <1>7, <1>8, <1>9 DEF MemInv

\* The invariant says what the run checks of the blocks.
LEMMA MemInvIsDisjoint ==
  ASSUME MemInv
  PROVE  MemBlocksDisjoint
  <1>1. PICK s : MemChain(s, memManager) /\ \A i \in MemBlocks : InChain(i, s) <=> MemIdle(i)
    BY DEF MemInv, MemListInv
  <1>2. \A i : i \in MemFreeList <=> InChain(i, s)
    BY <1>1, FreeListIs
  <1>3. \A i : InChain(i, s) => i \in MemBlocks
    <2>1. s \in Seq(MemBlocks)
      BY <1>1 DEF MemChain
    <2> QED
      BY <2>1 DEF InChain
  <1>4. \A i : i \in MemFreeList <=> i \in MemBlocks /\ MemIdle(i)
    BY <1>1, <1>2, <1>3
  <1>5. \A i : i \in InUse <=> i \in MemBlocks /\ memOwner[i] # Unowned
    BY DEF InUse
  <1>6. \A i : i \in InTransit <=> i \in MemBlocks /\ \E t \in MemThread : memBlock[t] = i
    BY DEF InTransit
  <1>7. \A t \in MemThread : memBlock[t] \in MemBlocks => memOwner[memBlock[t]] = Unowned
    BY NoBlock DEF MemInv, MemHandsInv
  <1>8. MemFreeList \cap InUse = {} /\ MemFreeList \cap InTransit = {} /\ MemFreeList \cup InUse \cup InTransit = MemBlocks
    BY <1>4, <1>5, <1>6 DEF MemIdle
  <1>9. InUse \cap InTransit = {}
    BY <1>5, <1>6, <1>7
  <1>10. \A t, u \in MemThread : memBlock[t] = memBlock[u] /\ t # u => memBlock[t] = -1
    BY DEF MemInv, MemHandsInv
  <1>11. /\ \A i \in InUse : ~memManager.header[i].isFree /\ memManager.header[i].data = i
         /\ \A i \in MemBlocks \ InUse : memManager.header[i].isFree
    BY <1>5 DEF MemInv, MemUseInv
  <1>12. memMutex.owner # Unowned /\ memPc[memMutex.owner] \notin {"pop", "push"} => memFull
    BY DEF MemInv, MemMutexInv
  <1> QED
    BY <1>8, <1>9, <1>10, <1>11, <1>12 DEF MemBlocksDisjoint

-----------------------------------------------------------------------------
(* What threads share *)

SharedInv == VecInv /\ MemInv

\* Of the library's specification only the vector's steps change the vector, and the manager's the blocks.
LEMMA SharedStepsOfLibrary ==
  ASSUME [Next]_libraryVars
  PROVE  [VectorNext]_vectorVars /\ [MemNext]_memVars
  BY DEF Next, libraryVars

\* In every behaviour of a vector (vector.c) and of a memory manager (memory.c), with any number of threads, elements and
\* blocks: the references that threads hold are those that are counted, a thread that appends has the lock and the next
\* index; and the free list consists of the blocks that nobody uses or has in hand.
THEOREM SharedInvariance == Spec => []SharedInv
  <1>1. Init => SharedInv
    BY VecStart, MemStart DEF Init, SharedInv
  <1>2. SharedInv /\ [Next]_libraryVars => SharedInv'
    BY SharedStepsOfLibrary, VecSteps, MemSteps DEF SharedInv
  <1> QED
    BY <1>1, <1>2, PTL DEF Spec

\* A shared vector loses no append, is freed once and by the last holder, and destroys every element once; no block of a
\* memory manager is handed out twice and none is lost, although headers are written outside the mutex.
THEOREM SharedStaysSound == Spec => []SharedSound
  <1>1. SharedInv => SharedSound
    BY VecInvIsShared, MemInvIsDisjoint DEF SharedInv, SharedSound
  <1> QED
    BY <1>1, SharedInvariance, PTL

-----------------------------------------------------------------------------
(* Sockets: the data of a connection *)

EndShape(x) ==
  x = [state |-> x.state, data |-> x.data, reader |-> x.reader, input |-> x.input, buffer |-> x.buffer, sent |-> x.sent, got |-> x.got,
       blind |-> x.blind, broken |-> x.broken, freed |-> x.freed]

\* The thread of an end reads after the data was set, and no handler was called before.
GoodEnd(x) == EndShape(x) /\ (x.reader = "reading" => x.data) /\ ~x.blind

GoodServer(server) ==
  /\ server = [does |-> server.does, conn |-> server.conn]
  /\ server.does \in {"handler", "run"} => server.conn \in SockConn

SockDataInv ==
  /\ sockEnd = [e \in SockEnds |-> sockEnd[e]] /\ \A e \in SockEnds : GoodEnd(sockEnd[e])
  /\ sockPending \in Seq(SockConn) /\ GoodServer(sockServer)
  /\ sockServer.does = "run" => sockEnd[Serving(sockServer.conn)].data

\* Both ends of a connection are ends.
LEMMA EndsAre == \A k \in SockConn : Client(k) \in SockEnds /\ Serving(k) \in SockEnds
  BY DEF Client, Serving, SockEnds

\* A step that gives one end a good value, and takes no data away.
LEMMA EndChanged ==
  ASSUME SockDataInv, NEW c \in SockEnds, NEW x, GoodEnd(x), sockEnd[c].data => x.data, sockEnd' = [sockEnd EXCEPT ![c] = x],
         sockPending' \in Seq(SockConn), GoodServer(sockServer'),
         sockServer'.does = "run" => sockServer' = sockServer \/ (c = Serving(sockServer'.conn) /\ x.data)
  PROVE  SockDataInv'
  <1>1. sockEnd' = [e \in SockEnds |-> sockEnd'[e]] /\ sockEnd'[c] = x /\ \A e \in SockEnds : e # c => sockEnd'[e] = sockEnd[e]
    BY DEF SockDataInv
  <1>2. \A e \in SockEnds : GoodEnd(sockEnd'[e]) /\ (sockEnd[e].data => sockEnd'[e].data)
    BY <1>1 DEF SockDataInv
  <1>3. sockServer'.does = "run" => sockEnd'[Serving(sockServer'.conn)].data
    <2>1. sockServer'.does = "run" => Serving(sockServer'.conn) \in SockEnds
      BY EndsAre DEF GoodServer
    <2> QED
      BY <1>1, <1>2, <2>1 DEF SockDataInv
  <1> QED
    BY <1>1, <1>2, <1>3 DEF SockDataInv

\* The steps of a client
LEMMA ClientSteps ==
  ASSUME SockDataInv, NEW k \in SockConn,
         sock_connect(k) \/ ConnectFails(k) \/ ConnectWithoutThread(k) \/ sock_disconnect(k) \/ ClientEnds(k)
  PROVE  SockDataInv'
  <1>1. PICK c \in SockEnds : c = Client(k)
    BY EndsAre
  <1>2. PICK y : y = sockEnd[c] /\ GoodEnd(y)
    BY DEF SockDataInv
  <1>3. sockPending' \in Seq(SockConn) /\ sockServer' = sockServer
    <2>1. sockPending' = sockPending \/ sockPending' = Append(sockPending, k)
      BY DEF sock_connect, ConnectFails, ConnectWithoutThread, sock_disconnect, ClientEnds
    <2>2. sockPending \in Seq(SockConn) /\ Append(sockPending, k) \in Seq(SockConn)
      BY DEF SockDataInv
    <2>3. sockServer' = sockServer
      BY DEF sock_connect, ConnectFails, ConnectWithoutThread, sock_disconnect, ClientEnds
    <2> QED
      BY <2>1, <2>2, <2>3
  <1>4. \E x : GoodEnd(x) /\ (y.data => x.data) /\ sockEnd' = [sockEnd EXCEPT ![c] = x]
    <2>1. CASE sock_connect(k)
      <3>1. PICK x : x = [y EXCEPT !.state = "open", !.data = TRUE, !.reader = "reading"]
        OBVIOUS
      <3>2. GoodEnd(x) /\ x.data
        BY <1>2, <3>1 DEF GoodEnd, EndShape
      <3>3. sockEnd' = [sockEnd EXCEPT ![c] = x]
        BY <1>1, <1>2, <2>1, <3>1 DEF sock_connect, SockDataInv
      <3> QED
        BY <3>2, <3>3
    <2>2. CASE ConnectFails(k)
      <3>1. PICK x : x = [y EXCEPT !.state = "failed"]
        OBVIOUS
      <3>2. GoodEnd(x) /\ x.data = y.data
        BY <1>2, <3>1 DEF GoodEnd, EndShape
      <3>3. sockEnd' = [sockEnd EXCEPT ![c] = x]
        BY <1>1, <1>2, <2>2, <3>1 DEF ConnectFails, SockDataInv
      <3> QED
        BY <3>2, <3>3
    <2>3. CASE ConnectWithoutThread(k)
      <3>1. PICK x : x = [y EXCEPT !.state = "closed"]
        OBVIOUS
      <3>2. GoodEnd(x) /\ x.data = y.data
        BY <1>2, <3>1 DEF GoodEnd, EndShape
      <3>3. sockEnd' = [sockEnd EXCEPT ![c] = x]
        BY <1>1, <1>2, <2>3, <3>1 DEF ConnectWithoutThread, SockDataInv
      <3> QED
        BY <3>2, <3>3
    <2>4. CASE sock_disconnect(k)
      <3>1. PICK x : x = [y EXCEPT !.state = "closed", !.freed = @ \/ y.reader = "reading"]
        OBVIOUS
      <3>2. GoodEnd(x) /\ x.data = y.data
        BY <1>2, <3>1 DEF GoodEnd, EndShape
      <3>3. sockEnd' = [sockEnd EXCEPT ![c] = x]
        BY <1>1, <1>2, <2>4, <3>1 DEF sock_disconnect, SockDataInv
      <3> QED
        BY <3>2, <3>3
    <2>5. CASE ClientEnds(k)
      <3>1. PICK x : x = [y EXCEPT !.state = "closed", !.reader = IF @ = "reading" THEN "killed" ELSE @]
        OBVIOUS
      <3>2. GoodEnd(x) /\ x.data = y.data
        BY <1>2, <3>1 DEF GoodEnd, EndShape
      <3>3. sockEnd' = [sockEnd EXCEPT ![c] = x]
        BY <1>1, <1>2, <2>5, <3>1 DEF ClientEnds, SockDataInv
      <3> QED
        BY <3>2, <3>3
    <2> QED
      BY <2>1, <2>2, <2>3, <2>4, <2>5
  <1>5. PICK x : GoodEnd(x) /\ (y.data => x.data) /\ sockEnd' = [sockEnd EXCEPT ![c] = x]
    BY <1>4
  <1>6. GoodServer(sockServer')
    BY <1>3 DEF SockDataInv
  <1> QED
    BY <1>2, <1>3, <1>5, <1>6, EndChanged

\* The steps of the server's thread
LEMMA ServerSteps ==
  ASSUME SockDataInv, ServerAccept \/ sock_setUserData \/ ServerRunThread
  PROVE  SockDataInv'
  <1>1. PICK k : k = IF ServerAccept THEN Head(sockPending) ELSE sockServer.conn
    OBVIOUS
  <1>2. k \in SockConn /\ sockPending' \in Seq(SockConn)
    <2>1. PICK q \in Seq(SockConn) : q = sockPending
      BY DEF SockDataInv
    <2>2. CASE ServerAccept
      <3>1. q # << >> /\ k = Head(q) /\ sockPending' = Tail(q)
        BY <1>1, <2>1, <2>2 DEF ServerAccept
      <3> QED
        BY <3>1
    <2>3. CASE ~ServerAccept /\ (sock_setUserData \/ ServerRunThread)
      BY <1>1, <2>1, <2>3 DEF SockDataInv, GoodServer, sock_setUserData, ServerRunThread
    <2> QED
      BY <2>2, <2>3
  <1>3. PICK c \in SockEnds : c = Serving(k)
    BY <1>2, EndsAre
  <1>4. PICK y : y = sockEnd[c] /\ GoodEnd(y)
    BY DEF SockDataInv
  <1>5. CASE ServerAccept
    <2>1. PICK x : x = [y EXCEPT !.state = "open"]
      OBVIOUS
    <2>2. GoodEnd(x) /\ x.data = y.data
      BY <1>4, <2>1 DEF GoodEnd, EndShape
    <2>3. sockEnd' = [sockEnd EXCEPT ![c] = x]
      BY <1>1, <1>3, <1>4, <1>5, <2>1 DEF ServerAccept, SockDataInv
    <2>4. sockServer' = [does |-> "handler", conn |-> k]
      BY <1>1, <1>5 DEF ServerAccept
    <2>5. GoodServer(sockServer') /\ sockServer'.does # "run"
      BY <1>2, <2>4 DEF GoodServer
    <2> QED
      BY <1>2, <1>4, <2>2, <2>3, <2>5, EndChanged
  <1>6. CASE ~ServerAccept /\ sock_setUserData
    <2>1. PICK x : x = [y EXCEPT !.data = TRUE]
      OBVIOUS
    <2>2. GoodEnd(x) /\ x.data
      BY <1>4, <2>1 DEF GoodEnd, EndShape
    <2>3. sockEnd' = [sockEnd EXCEPT ![c] = x]
      BY <1>1, <1>3, <1>4, <1>6, <2>1 DEF sock_setUserData, SockDataInv
    <2>4. sockServer' = [does |-> "run", conn |-> k]
      BY <1>1, <1>6 DEF sock_setUserData, SockDataInv, GoodServer
    <2>5. GoodServer(sockServer') /\ c = Serving(sockServer'.conn)
      BY <1>2, <1>3, <2>4 DEF GoodServer
    <2> QED
      BY <1>2, <1>4, <2>2, <2>3, <2>5, EndChanged
  <1>7. CASE ~ServerAccept /\ ServerRunThread
    <2>1. PICK x : x = [y EXCEPT !.reader = "reading"]
      OBVIOUS
    <2>2. y.data
      BY <1>1, <1>3, <1>4, <1>7 DEF ServerRunThread, SockDataInv
    <2>3. GoodEnd(x) /\ x.data
      BY <1>4, <2>1, <2>2 DEF GoodEnd, EndShape
    <2>4. sockEnd' = [sockEnd EXCEPT ![c] = x]
      BY <1>1, <1>3, <1>4, <1>7, <2>1 DEF ServerRunThread, SockDataInv
    <2>5. sockServer' = [does |-> "accept", conn |-> k]
      BY <1>1, <1>7 DEF ServerRunThread, SockDataInv, GoodServer
    <2>6. GoodServer(sockServer') /\ sockServer'.does # "run"
      BY <2>5 DEF GoodServer
    <2> QED
      BY <1>2, <1>4, <2>3, <2>4, <2>6, EndChanged
  <1> QED
    BY <1>5, <1>6, <1>7

\* The end of the server's process
LEMMA ServerEndStep ==
  ASSUME SockDataInv, ServerEnds
  PROVE  SockDataInv'
  <1>1. PICK s : s = sockServer /\ sockServer' = [s EXCEPT !.does = "ended"] /\ s = [does |-> s.does, conn |-> s.conn]
    BY DEF ServerEnds, SockDataInv, GoodServer
  <1>2. sockServer' = [does |-> "ended", conn |-> s.conn]
    BY <1>1
  <1>3. GoodServer(sockServer') /\ sockServer'.does # "run"
    BY <1>2 DEF GoodServer
  <1>4. ASSUME NEW e \in SockEnds PROVE GoodEnd(sockEnd'[e])
    <2>1. PICK y : y = sockEnd[e] /\ GoodEnd(y)
      BY DEF SockDataInv
    <2>2. PICK x : x = [y EXCEPT !.state = "closed", !.reader = IF @ = "reading" THEN "killed" ELSE @]
      OBVIOUS
    <2>3. GoodEnd(x)
      BY <2>1, <2>2 DEF GoodEnd, EndShape
    <2>4. sockEnd'[e] \in {x, y}
      BY <2>1, <2>2 DEF ServerEnds
    <2> QED
      BY <2>1, <2>3, <2>4
  <1>5. sockEnd' = [e \in SockEnds |-> sockEnd'[e]]
    BY DEF ServerEnds
  <1>6. sockPending' \in Seq(SockConn)
    BY EmptySeq DEF ServerEnds
  <1> QED
    BY <1>3, <1>4, <1>5, <1>6 DEF SockDataInv

\* A write
LEMMA SendStep ==
  ASSUME SockDataInv, NEW e \in SockEnds, NEW comment \in BOOLEAN, NEW whole \in BOOLEAN, sock_send_binary(e, comment, whole)
  PROVE  SockDataInv'
  <1>1. PICK c \in SockEnds : c = Peer(e)
    <2>1. e[1] \in SockConn
      BY DEF SockEnds
    <2> QED
      BY <2>1, EndsAre DEF Peer
  <1>2. PICK y : y = sockEnd[c] /\ GoodEnd(y)
    BY DEF SockDataInv
  <1>3. PICK piece : piece = [comment |-> comment, number |-> Len(y.sent) + 1, newline |-> whole]
    OBVIOUS
  <1>4. PICK x : x = [y EXCEPT !.sent = Append(@, piece), !.input = Append(@, piece)]
    OBVIOUS
  <1>5. GoodEnd(x) /\ x.data = y.data
    BY <1>2, <1>4 DEF GoodEnd, EndShape
  <1>6. sockEnd' = [sockEnd EXCEPT ![c] = x] /\ UNCHANGED <<sockServer, sockPending>>
    BY <1>1, <1>2, <1>3, <1>4 DEF sock_send_binary, SockDataInv
  <1>7. GoodServer(sockServer') /\ sockPending' \in Seq(SockConn)
    BY <1>6 DEF SockDataInv
  <1> QED
    BY <1>2, <1>5, <1>6, <1>7, EndChanged

\* What the reading thread does to its end
LEMMA ReadSteps ==
  ASSUME SockDataInv, NEW e \in SockEnds, ReadComment(e) \/ ReadMessage(e) \/ ReadPartial(e) \/ ReadEndOfFile(e) \/ ReadFails(e)
  PROVE  SockDataInv'
  <1>1. PICK y : y = sockEnd[e] /\ GoodEnd(y)
    BY DEF SockDataInv
  <1>2. y.reader = "reading" /\ y.data /\ ~y.blind
    BY <1>1 DEF ReadComment, ReadMessage, ReadPartial, ReadEndOfFile, ReadFails, Reading, GoodEnd
  <1>3. \E x : GoodEnd(x) /\ x.data /\ SetEnd(e, x)
    <2>1. PICK z : z = Fetched(y)
      OBVIOUS
    <2>2. GoodEnd(z) /\ z.data /\ ~z.blind
      <3>1. PICK b, i : z = [y EXCEPT !.buffer = b, !.input = i]
        BY <2>1 DEF Fetched
      <3> QED
        BY <1>1, <1>2, <3>1 DEF GoodEnd, EndShape
    <2>3. ASSUME NEW w, GoodEnd(w), w.data PROVE GoodEnd(Handled(w)) /\ Handled(w).data
      <3>1. PICK h : h = Handled(w)
        OBVIOUS
      <3>2. GoodEnd(h) /\ h.data
        BY <2>3, <3>1 DEF GoodEnd, EndShape, Handled
      <3> QED
        BY <3>1, <3>2
    <2>4. ASSUME NEW w, GoodEnd(w), w.data PROVE GoodEnd(Disconnected(w)) /\ Disconnected(w).data
      <3>1. PICK d : d = Disconnected(w)
        OBVIOUS
      <3>2. GoodEnd(d) /\ d.data
        BY <2>4, <3>1 DEF GoodEnd, EndShape, Disconnected
      <3> QED
        BY <3>1, <3>2
    <2>5. PICK b : b = [y EXCEPT !.broken = TRUE]
      OBVIOUS
    <2>6. GoodEnd(b) /\ b.data
      BY <1>1, <1>2, <2>5 DEF GoodEnd, EndShape
    <2>7. PICK x : /\ SetEnd(e, x)
                   /\ x \in {z, Handled(z), Disconnected(Handled(z)), Disconnected(Handled(y)), Disconnected(y), Disconnected(b)}
      <3>1. CASE ReadComment(e) \/ ReadMessage(e) \/ ReadPartial(e)
        BY <1>1, <2>1, <3>1 DEF ReadComment, ReadMessage, ReadPartial
      <3>2. CASE ReadEndOfFile(e)
        BY <1>1, <3>2 DEF ReadEndOfFile
      <3>3. CASE ReadFails(e)
        BY <1>1, <2>5, <3>3 DEF ReadFails
      <3> QED
        BY <3>1, <3>2, <3>3
    <2>8. GoodEnd(x) /\ x.data
      BY <1>1, <1>2, <2>2, <2>3, <2>4, <2>6, <2>7
    <2> QED
      BY <2>7, <2>8
  <1>4. PICK x : GoodEnd(x) /\ x.data /\ SetEnd(e, x)
    BY <1>3
  <1>5. sockEnd' = [sockEnd EXCEPT ![e] = x] /\ UNCHANGED <<sockServer, sockPending>>
    BY <1>4 DEF SetEnd
  <1>6. GoodServer(sockServer') /\ sockPending' \in Seq(SockConn)
    BY <1>5 DEF SockDataInv
  <1> QED
    BY <1>4, <1>5, <1>6, EndChanged

\* Every step of sock.c keeps the invariant.
LEMMA SockSteps ==
  ASSUME SockDataInv, [SockNext]_sockVars
  PROVE  SockDataInv'
  <1>1. ASSUME UNCHANGED sockVars PROVE SockDataInv'
    BY <1>1 DEF sockVars, SockDataInv
  <1> QED
    BY <1>1, ClientSteps, ServerSteps, ServerEndStep, SendStep, ReadSteps DEF SockNext

\* At the start there is no connection.
LEMMA SockStart ==
  ASSUME SockInit
  PROVE  SockDataInv
  <1>1. GoodEnd(NewEnd)
    BY DEF GoodEnd, EndShape, NewEnd
  <1>2. sockPending \in Seq(SockConn)
    BY EmptySeq DEF SockInit
  <1>3. GoodServer(sockServer) /\ sockServer.does # "run"
    BY DEF SockInit, GoodServer
  <1> QED
    BY <1>1, <1>2, <1>3 DEF SockInit, SockDataInv

\* The comment in server_thread_func (sock.c) tells of the crash when a connection was read before the application had set
\* its data: with any number of connections, whatever fails or ends, no handler is called before that.
THEOREM HandlersHaveData == Spec => []DataBeforeInput
  <1>1. Init => SockDataInv
    BY SockStart DEF Init
  <1>2. SockDataInv /\ [Next]_libraryVars => SockDataInv'
    <2>1. ASSUME [Next]_libraryVars PROVE [SockNext]_sockVars
      BY <2>1 DEF Next, libraryVars
    <2> QED
      BY <2>1, SockSteps
  <1>3. SockDataInv => DataBeforeInput
    BY DEF SockDataInv, GoodEnd, DataBeforeInput
  <1> QED
    BY <1>1, <1>2, <1>3, PTL DEF Spec

-----------------------------------------------------------------------------
(* The state machines: the counters that guard destruction, and the immediate exit *)

DefShape(d) ==
  /\ d = [machineCount |-> d.machineCount, classes |-> d.classes, states |-> d.states, destroyed |-> d.destroyed]
  /\ d.classes \subseteq StateClasses /\ d.states \subseteq MachineStates /\ IsFiniteSet(d.states)
  /\ d.destroyed \in BOOLEAN

\* Only a machine that exists is in a function.
GoodMachine(x) ==
  /\ x = [live |-> x.live, currentState |-> x.currentState, nextState |-> x.nextState,
          immediateExit |-> x.immediateExit, nuanceSemantics |-> x.nuanceSemantics, own |-> x.own, in |-> x.in]
  /\ x.live \in BOOLEAN /\ (x.in # "none" => x.live)

Alive == {m \in StateMachines : smMachine[m].live}

StatesOf(c) == {s \in smDef.states : smState[s] = c}

SmInv ==
  /\ DefShape(smDef) /\ smClass \in [StateClasses -> Int]
  /\ smState \in [MachineStates -> StateClasses \cup {noClass}]
  /\ smMachine = [m \in StateMachines |-> smMachine[m]] /\ \A m \in StateMachines : GoodMachine(smMachine[m])
  /\ IsFiniteSet(Alive) /\ smDef.machineCount = Cardinality(Alive)
  /\ \A c \in smDef.classes : smClass[c] = Cardinality(StatesOf(c))
  /\ \A s \in smDef.states : smState[s] \in smDef.classes \cup {noClass}
  /\ smDef.destroyed => smDef.states = {} /\ smDef.classes = {} /\ smDef.machineCount = 0
  /\ \A m \in StateMachines : smMachine[m].live =>
       {smMachine[m].currentState, smMachine[m].nextState} \subseteq smDef.states \cup {noState}

\* The invariant holds of a new definition.
LEMMA SmInitInv == stateMachine_defCreate => SmInv
  <1> SUFFICES ASSUME stateMachine_defCreate PROVE SmInv
    OBVIOUS
  <1>1. Alive = {}
    BY DEF stateMachine_defCreate, NoMachine, Alive
  <1>2. IsFiniteSet({}) /\ Cardinality({}) = 0
    BY FS_EmptySet
  <1>3. DefShape(smDef) /\ smDef.states = {} /\ smDef.classes = {} /\ smDef.machineCount = 0
    BY <1>2 DEF stateMachine_defCreate, DefShape
  <1>4. smMachine = [m \in StateMachines |-> smMachine[m]] /\ \A m \in StateMachines : GoodMachine(smMachine[m]) /\ ~smMachine[m].live
    BY DEF stateMachine_defCreate, NoMachine, GoodMachine
  <1>5. smClass \in [StateClasses -> Int] /\ smState \in [MachineStates -> StateClasses \cup {noClass}]
    BY DEF stateMachine_defCreate
  <1> QED
    BY <1>1, <1>2, <1>3, <1>4, <1>5 DEF SmInv

\* The states of a class are finite in number.
LEMMA StatesOfFinite ==
  ASSUME SmInv, NEW c
  PROVE  IsFiniteSet(StatesOf(c)) /\ Cardinality(StatesOf(c)) \in Nat
  <1>1. StatesOf(c) \in SUBSET smDef.states /\ IsFiniteSet(smDef.states)
    BY DEF SmInv, DefShape, StatesOf
  <1>2. IsFiniteSet(StatesOf(c))
    BY <1>1, FS_Subset
  <1> QED
    BY <1>2, FS_CardinalityType

\* A step of a machine: its fields change, it comes or goes and is counted.
LEMMA MachineStep ==
  ASSUME SmInv, NEW m \in StateMachines, NEW x, GoodMachine(x), smMachine' = [smMachine EXCEPT ![m] = x],
         smClass' = smClass, smState' = smState,
         NEW n, smDef' = [smDef EXCEPT !.machineCount = n],
         n = (IF x.live THEN IF smMachine[m].live THEN smDef.machineCount ELSE smDef.machineCount + 1
              ELSE IF smMachine[m].live THEN smDef.machineCount - 1 ELSE smDef.machineCount),
         smDef.destroyed /\ x.live => smMachine[m].live,
         x.live => {x.currentState, x.nextState} \subseteq smDef.states \cup {noState}
  PROVE  SmInv'
  <1>1. /\ smMachine'[m] = x /\ \A k \in StateMachines : k # m => smMachine'[k] = smMachine[k]
        /\ smMachine' = [k \in StateMachines |-> smMachine'[k]]
    BY DEF SmInv
  <1>2. /\ DefShape(smDef') /\ smDef'.classes = smDef.classes /\ smDef'.states = smDef.states
        /\ smDef'.destroyed = smDef.destroyed /\ smDef'.machineCount = n
    BY DEF SmInv, DefShape
  <1>3. smMachine[m].live \in BOOLEAN /\ x.live \in BOOLEAN
    BY DEF SmInv, GoodMachine
  <1>4. PICK old : old = Alive
    OBVIOUS
  <1>5. IsFiniteSet(old) /\ smDef.machineCount = Cardinality(old) /\ (m \in old <=> smMachine[m].live)
    BY <1>4 DEF SmInv, Alive
  <1>6. Alive' = IF x.live THEN old \cup {m} ELSE old \ {m}
    BY <1>1, <1>3, <1>4 DEF Alive
  <1>7. IsFiniteSet(old \cup {m}) /\ Cardinality(old \cup {m}) = IF m \in old THEN Cardinality(old) ELSE Cardinality(old) + 1
    BY <1>5, FS_AddElement
  <1>8. IsFiniteSet(old \ {m}) /\ Cardinality(old \ {m}) = IF m \in old THEN Cardinality(old) - 1 ELSE Cardinality(old)
    BY <1>5, FS_RemoveElement
  <1>9. IsFiniteSet(Alive') /\ n = Cardinality(Alive')
    BY <1>5, <1>6, <1>7, <1>8
  <1>10. smDef.destroyed => n = 0
    <2>1. smDef.destroyed => smDef.machineCount = 0
      BY DEF SmInv
    <2>2. Cardinality(old) = 0 => old = {}
      BY <1>5, FS_EmptySet
    <2> QED
      BY <2>1, <2>2, <1>5
  <1>11. \A c : StatesOf(c)' = StatesOf(c)
    BY <1>2 DEF StatesOf
  <1>12. \A c \in smDef'.classes : smClass'[c] = Cardinality(StatesOf(c)')
    BY <1>2, <1>11 DEF SmInv
  <1>13. \A k \in StateMachines : GoodMachine(smMachine'[k])
    BY <1>1 DEF SmInv
  <1>14. \A k \in StateMachines : smMachine'[k].live =>
           {smMachine'[k].currentState, smMachine'[k].nextState} \subseteq smDef'.states \cup {noState}
    BY <1>1, <1>2 DEF SmInv
  <1>15. /\ smClass' \in [StateClasses -> Int] /\ smState' \in [MachineStates -> StateClasses \cup {noClass}]
         /\ \A s \in smDef'.states : smState'[s] \in smDef'.classes \cup {noClass}
         /\ smDef'.destroyed => smDef'.states = {} /\ smDef'.classes = {}
    BY <1>2 DEF SmInv
  <1> QED
    BY <1>1, <1>2, <1>9, <1>10, <1>12, <1>13, <1>14, <1>15 DEF SmInv

\* A class comes, or goes when it has no states.
LEMMA ClassSteps ==
  ASSUME SmInv, NEW c \in StateClasses, stateMachine_createClass(c) \/ stateMachine_destroyClass(c)
  PROVE  SmInv'
  <1>1. /\ DefShape(smDef') /\ smDef'.states = smDef.states /\ smDef'.destroyed = smDef.destroyed
        /\ smDef'.machineCount = smDef.machineCount /\ ~smDef.destroyed
        /\ smState' = smState /\ smMachine' = smMachine
    BY DEF SmInv, DefShape, stateMachine_createClass, stateMachine_destroyClass
  <1>2. Alive' = Alive /\ \A d : StatesOf(d)' = StatesOf(d)
    BY <1>1 DEF Alive, StatesOf
  <1>3. smClass' \in [StateClasses -> Int]
    BY DEF SmInv, stateMachine_createClass, stateMachine_destroyClass
  <1>4. c # noClass
    BY SmAssumption
  <1>5. CASE stateMachine_createClass(c)
    <2>1. /\ smDef'.classes = smDef.classes \cup {c} /\ c \notin smDef.classes
          /\ smClass' = [smClass EXCEPT ![c] = 0]
      BY <1>5 DEF SmInv, DefShape, stateMachine_createClass
    <2>2. StatesOf(c) = {}
      BY <2>1, <1>4 DEF SmInv, StatesOf
    <2>3. Cardinality(StatesOf(c)) = 0
      BY <2>2, FS_EmptySet
    <2>4. \A d \in smDef'.classes : smClass'[d] = Cardinality(StatesOf(d)')
      BY <2>1, <2>3, <1>2 DEF SmInv, DefShape
    <2>5. \A s \in smDef'.states : smState'[s] \in smDef'.classes \cup {noClass}
      BY <1>1, <2>1 DEF SmInv
    <2> QED
      BY <1>1, <1>2, <1>3, <2>4, <2>5 DEF SmInv
  <1>6. CASE stateMachine_destroyClass(c)
    <2>1. smDef'.classes = smDef.classes \ {c} /\ c \in smDef.classes /\ smClass' = smClass /\ smClass[c] = 0
      BY <1>6 DEF SmInv, DefShape, stateMachine_destroyClass
    <2>2. Cardinality(StatesOf(c)) = 0
      BY <2>1 DEF SmInv
    <2>3. StatesOf(c) = {}
      BY <2>2, StatesOfFinite, FS_EmptySet
    <2>4. \A d \in smDef'.classes : smClass'[d] = Cardinality(StatesOf(d)')
      BY <2>1, <1>2 DEF SmInv
    <2>5. \A s \in smDef'.states : smState'[s] \in smDef'.classes \cup {noClass}
      BY <1>1, <2>1, <2>3 DEF SmInv, StatesOf
    <2> QED
      BY <1>1, <1>2, <1>3, <2>4, <2>5 DEF SmInv
  <1> QED
    BY <1>5, <1>6

\* A state comes, and the count of its class goes up.
LEMMA StateComes ==
  ASSUME SmInv, NEW s \in MachineStates, NEW c \in StateClasses \cup {noClass}, stateMachine_createState(s, c)
  PROVE  SmInv'
  <1>1. IsFiniteSet(smDef.states \cup {s})
    BY FS_AddElement DEF SmInv, DefShape
  <1>2. /\ DefShape(smDef') /\ smDef'.states = smDef.states \cup {s} /\ smDef'.destroyed = smDef.destroyed
        /\ smDef'.machineCount = smDef.machineCount /\ ~smDef.destroyed /\ s \notin smDef.states
        /\ smDef'.classes = smDef.classes /\ c \in smDef.classes \cup {noClass}
        /\ smMachine' = smMachine
    BY <1>1 DEF SmInv, DefShape, stateMachine_createState
  <1>3. /\ smState' \in [MachineStates -> StateClasses \cup {noClass}] /\ smState'[s] = c
        /\ \A t \in MachineStates : t # s => smState'[t] = smState[t]
    BY DEF SmInv, stateMachine_createState
  <1>4. /\ smClass' \in [StateClasses -> Int]
        /\ \A d \in StateClasses : smClass'[d] = IF d = c THEN smClass[d] + 1 ELSE smClass[d]
    BY SmAssumption DEF SmInv, stateMachine_createState
  <1>5. Alive' = Alive
    BY <1>2 DEF Alive
  <1>6. \A d : StatesOf(d)' = IF d = c THEN StatesOf(d) \cup {s} ELSE StatesOf(d)
    BY <1>2, <1>3 DEF StatesOf, SmInv, DefShape
  <1>7. ASSUME NEW d \in smDef.classes PROVE smClass'[d] = Cardinality(StatesOf(d)')
    <2>1. IsFiniteSet(StatesOf(d)) /\ s \notin StatesOf(d)
      BY <1>2, StatesOfFinite DEF StatesOf
    <2>2. Cardinality(StatesOf(d) \cup {s}) = Cardinality(StatesOf(d)) + 1
      BY <2>1, FS_AddElement
    <2>3. smClass[d] = Cardinality(StatesOf(d)) /\ d \in StateClasses
      BY DEF SmInv, DefShape
    <2> QED
      BY <1>4, <1>6, <2>2, <2>3
  <1>8. \A t \in smDef'.states : smState'[t] \in smDef'.classes \cup {noClass}
    BY <1>2, <1>3 DEF SmInv, DefShape
  <1>9. \A m \in StateMachines : smMachine'[m].live =>
          {smMachine'[m].currentState, smMachine'[m].nextState} \subseteq smDef'.states \cup {noState}
    BY <1>2 DEF SmInv
  <1> QED
    BY <1>2, <1>3, <1>4, <1>5, <1>7, <1>8, <1>9 DEF SmInv

\* A state that no machine refers to goes, and the count of its class goes down.
LEMMA StateGoes ==
  ASSUME SmInv, NEW s \in MachineStates, stateMachine_destroyState(s)
  PROVE  SmInv'
  <1>1. IsFiniteSet(smDef.states \ {s})
    BY FS_RemoveElement DEF SmInv, DefShape
  <1>2. /\ DefShape(smDef') /\ smDef'.states = smDef.states \ {s} /\ smDef'.destroyed = smDef.destroyed
        /\ smDef'.machineCount = smDef.machineCount /\ ~smDef.destroyed /\ s \in smDef.states
        /\ smDef'.classes = smDef.classes /\ smMachine' = smMachine
    BY <1>1 DEF SmInv, DefShape, stateMachine_destroyState
  <1>3. /\ smState' \in [MachineStates -> StateClasses \cup {noClass}]
        /\ \A t \in MachineStates : t # s => smState'[t] = smState[t]
    BY DEF SmInv, stateMachine_destroyState
  <1>4. /\ smClass' \in [StateClasses -> Int]
        /\ \A d \in StateClasses : smClass'[d] = IF d = smState[s] THEN smClass[d] - 1 ELSE smClass[d]
    BY SmAssumption DEF SmInv, stateMachine_destroyState
  <1>5. Alive' = Alive
    BY <1>2 DEF Alive
  <1>6. \A d : StatesOf(d)' = StatesOf(d) \ {s}
    BY <1>2, <1>3 DEF StatesOf, SmInv, DefShape
  <1>7. ASSUME NEW d \in smDef.classes PROVE smClass'[d] = Cardinality(StatesOf(d)')
    <2>1. IsFiniteSet(StatesOf(d)) /\ (s \in StatesOf(d) <=> d = smState[s]) /\ Cardinality(StatesOf(d)) \in Nat
      BY <1>2, StatesOfFinite DEF StatesOf
    <2>2. Cardinality(StatesOf(d) \ {s}) = IF s \in StatesOf(d) THEN Cardinality(StatesOf(d)) - 1 ELSE Cardinality(StatesOf(d))
      BY <2>1, FS_RemoveElement
    <2>3. smClass[d] = Cardinality(StatesOf(d)) /\ d \in StateClasses
      BY DEF SmInv, DefShape
    <2> QED
      BY <1>4, <1>6, <2>1, <2>2, <2>3
  <1>8. \A t \in smDef'.states : smState'[t] \in smDef'.classes \cup {noClass}
    BY <1>2, <1>3 DEF SmInv, DefShape
  <1>9. \A m \in StateMachines : smMachine'[m].live =>
          {smMachine'[m].currentState, smMachine'[m].nextState} \subseteq smDef'.states \cup {noState}
    BY <1>2 DEF SmInv, stateMachine_destroyState
  <1> QED
    BY <1>2, <1>3, <1>4, <1>5, <1>7, <1>8, <1>9 DEF SmInv

\* The definition goes: the counts are right, so no class is kept.
LEMMA DefGoes ==
  ASSUME SmInv, stateMachine_defDestroy
  PROVE  SmInv'
  <1>1. PICK left : left = [c \in StateClasses |-> smClass[c] - Cardinality({s \in smDef.states : smState[s] = c})]
    OBVIOUS
  <1>2. PICK kept : kept = {c \in smDef.classes : left[c] # 0}
    OBVIOUS
  <1>3. /\ smDef' = [smDef EXCEPT !.states = {}, !.classes = kept, !.destroyed = kept = {}]
        /\ smClass' = left /\ smState' = [s \in MachineStates |-> noClass] /\ smMachine' = smMachine
        /\ smDef.machineCount = 0
    BY <1>1, <1>2 DEF stateMachine_defDestroy
  <1>4. \A c \in StateClasses : Cardinality(StatesOf(c)) \in Nat
    BY StatesOfFinite
  <1>5. left \in [StateClasses -> Int] /\ \A c \in StateClasses : left[c] = smClass[c] - Cardinality(StatesOf(c))
    BY <1>1, <1>4 DEF StatesOf, SmInv
  <1>6. kept = {}
    BY <1>2, <1>4, <1>5 DEF SmInv, DefShape
  <1>7. IsFiniteSet({})
    BY FS_EmptySet
  <1>8. DefShape(smDef') /\ smDef'.states = {} /\ smDef'.classes = {} /\ smDef'.machineCount = 0
    BY <1>3, <1>6, <1>7 DEF SmInv, DefShape
  <1>9. Alive' = Alive /\ Alive = {}
    <2>1. Cardinality(Alive) = 0 /\ IsFiniteSet(Alive)
      BY <1>3 DEF SmInv
    <2> QED
      BY <1>3, <2>1, FS_EmptySet DEF Alive
  <1>10. \A m \in StateMachines : ~smMachine'[m].live
    BY <1>9 DEF Alive
  <1>11. smClass' \in [StateClasses -> Int] /\ smState' \in [MachineStates -> StateClasses \cup {noClass}]
    BY <1>3, <1>5
  <1>12. smMachine' = [m \in StateMachines |-> smMachine'[m]] /\ \A m \in StateMachines : GoodMachine(smMachine'[m])
    BY <1>3 DEF SmInv
  <1>13. IsFiniteSet(Alive') /\ smDef'.machineCount = Cardinality(Alive')
    BY <1>3, <1>8, <1>9 DEF SmInv
  <1> QED
    BY <1>8, <1>10, <1>11, <1>12, <1>13 DEF SmInv

\* What a run leaves: a machine that is in no function, or none.
LEMMA RunEnded ==
  ASSUME SmInv, NEW m \in StateMachines, smMachine[m].live, NEW y, GoodMachine(y), y.live,
         {y.currentState, y.nextState} \subseteq smDef.states \cup {noState},
         RunEnds(m, y), smClass' = smClass, smState' = smState
  PROVE  SmInv' /\ smMachine'[m].in = "none" /\ \A k \in StateMachines : k # m => smMachine'[k] = smMachine[k]
  <1>1. PICK x : x = IF y.own THEN NoMachine ELSE [y EXCEPT !.in = "none"]
    OBVIOUS
  <1>2. smMachine' = [smMachine EXCEPT ![m] = x]
    BY <1>1 DEF RunEnds
  <1>3. /\ GoodMachine(x) /\ x.in = "none" /\ (x.live <=> ~y.own)
        /\ x.live => x.currentState = y.currentState /\ x.nextState = y.nextState
    BY <1>1 DEF GoodMachine, NoMachine
  <1>4. PICK n : n = IF y.own THEN smDef.machineCount - 1 ELSE smDef.machineCount
    OBVIOUS
  <1>5. smDef' = [smDef EXCEPT !.machineCount = n]
    BY <1>4 DEF RunEnds, SmInv, DefShape
  <1>6. SmInv'
    <2>1. n = (IF x.live THEN IF smMachine[m].live THEN smDef.machineCount ELSE smDef.machineCount + 1
               ELSE IF smMachine[m].live THEN smDef.machineCount - 1 ELSE smDef.machineCount)
      BY <1>3, <1>4
    <2>2. x.live => {x.currentState, x.nextState} \subseteq smDef.states \cup {noState}
      BY <1>3
    <2> QED
      BY <1>2, <1>3, <1>5, <2>1, <2>2, MachineStep
  <1> QED
    BY <1>2, <1>3, <1>6 DEF SmInv

\* A machine whose function returns: it ends at once when that was asked for.
LEMMA ReturnSteps ==
  ASSUME SmInv, NEW m \in StateMachines, FunctionReturns(m) \/ ClassExitReturns(m)
  PROVE  /\ SmInv' /\ (smMachine[m].immediateExit => smMachine'[m].in = "none")
         /\ \A k \in StateMachines : k # m => smMachine'[k] = smMachine[k]
  <1>1. PICK y : y = smMachine[m] /\ GoodMachine(y)
    BY DEF SmInv
  <1>2. y.in # "none" /\ y.live /\ smClass' = smClass /\ smState' = smState
    BY <1>1 DEF FunctionReturns, ClassExitReturns, Running, GoodMachine
  <1>3. {y.currentState, y.nextState} \subseteq smDef.states \cup {noState}
    BY <1>1, <1>2 DEF SmInv
  <1>4. CASE FunctionReturns(m) /\ y.immediateExit
    <2>1. RunEnds(m, y)
      BY <1>1, <1>4 DEF FunctionReturns
    <2> QED
      BY <1>1, <1>2, <1>3, <2>1, RunEnded
  <1>5. CASE FunctionReturns(m) /\ ~y.immediateExit
    <2>1. PICK x : x = [y EXCEPT !.in = After[y.in]]
      OBVIOUS
    <2>2. smMachine' = [smMachine EXCEPT ![m] = x] /\ smDef' = smDef
      BY <1>1, <1>5, <2>1 DEF FunctionReturns, SmInv
    <2>3. GoodMachine(x) /\ x.live /\ x.currentState = y.currentState /\ x.nextState = y.nextState
      BY <1>1, <1>2, <2>1 DEF GoodMachine
    <2>4. smDef' = [smDef EXCEPT !.machineCount = smDef.machineCount]
      BY <2>2 DEF SmInv, DefShape
    <2>5. SmInv'
      <3>1. {x.currentState, x.nextState} \subseteq smDef.states \cup {noState} /\ smMachine[m].live
        BY <1>1, <1>2, <1>3, <2>3
      <3> QED
        BY <1>2, <2>2, <2>3, <2>4, <3>1, MachineStep
    <2> QED
      BY <1>1, <1>5, <2>2, <2>5 DEF SmInv
  <1>6. CASE ClassExitReturns(m)
    <2>1. PICK z : z = [y EXCEPT !.currentState = y.nextState, !.nextState = noState]
      OBVIOUS
    <2>2. /\ GoodMachine(z) /\ z.live /\ z.immediateExit = y.immediateExit
          /\ {z.currentState, z.nextState} \subseteq smDef.states \cup {noState}
      BY <1>1, <1>2, <1>3, <2>1 DEF GoodMachine
    <2>3. \/ RunEnds(m, z)
          \/ /\ ~z.immediateExit /\ smDef' = smDef
             /\ smMachine' = [smMachine EXCEPT ![m] = [z EXCEPT !.in = "classEntry"]]
      BY <1>1, <1>6, <2>1 DEF ClassExitReturns
    <2>4. CASE RunEnds(m, z)
      BY <1>1, <1>2, <2>2, <2>4, RunEnded
    <2>5. CASE /\ ~z.immediateExit /\ smDef' = smDef
               /\ smMachine' = [smMachine EXCEPT ![m] = [z EXCEPT !.in = "classEntry"]]
      <3>1. PICK x : x = [z EXCEPT !.in = "classEntry"]
        OBVIOUS
      <3>2. GoodMachine(x) /\ x.live /\ x.currentState = z.currentState /\ x.nextState = z.nextState
        BY <2>2, <3>1 DEF GoodMachine
      <3>3. smMachine' = [smMachine EXCEPT ![m] = x]
        BY <2>5, <3>1
      <3>4. smDef' = [smDef EXCEPT !.machineCount = smDef.machineCount]
        BY <2>5 DEF SmInv, DefShape
      <3>5. SmInv'
        <4>1. {x.currentState, x.nextState} \subseteq smDef.states \cup {noState} /\ smMachine[m].live
          BY <1>1, <1>2, <2>2, <3>2
        <4> QED
          BY <1>2, <3>2, <3>3, <3>4, <4>1, MachineStep
      <3> QED
        BY <1>1, <2>2, <2>5, <3>3, <3>5 DEF SmInv
    <2> QED
      BY <2>3, <2>4, <2>5
  <1> QED
    BY <1>1, <1>4, <1>5, <1>6

\* The calls on a machine keep the invariant and move no running machine to another function.
LEMMA CallSteps ==
  ASSUME SmInv, NEW m \in StateMachines, NEW s, NEW nuance,
         \/ stateMachine_create(m, nuance) \/ stateMachine_createAndRun(m, s, nuance) \/ stateMachine_destroy(m)
         \/ stateMachine_run(m, s) \/ stateMachine_setNextState(m, s) \/ stateMachine_setImmediateExit(m)
  PROVE  SmInv' /\ \A k \in StateMachines : smMachine[k].in # "none" => smMachine'[k].in = smMachine[k].in
  <1>1. PICK y : y = smMachine[m] /\ GoodMachine(y)
    BY DEF SmInv
  <1>2. y.live => {y.currentState, y.nextState} \subseteq smDef.states \cup {noState}
    BY <1>1 DEF SmInv
  <1>3. /\ smClass' = smClass /\ smState' = smState
    BY DEF stateMachine_create, stateMachine_createAndRun, stateMachine_destroy, stateMachine_run,
           stateMachine_setNextState, stateMachine_setImmediateExit
  <1> DEFINE Called(x, n) ==
        /\ GoodMachine(x) /\ smMachine' = [smMachine EXCEPT ![m] = x] /\ smDef' = [smDef EXCEPT !.machineCount = n]
        /\ n = (IF x.live THEN IF y.live THEN smDef.machineCount ELSE smDef.machineCount + 1
                ELSE IF y.live THEN smDef.machineCount - 1 ELSE smDef.machineCount)
        /\ smDef.destroyed /\ x.live => y.live
        /\ x.live => {x.currentState, x.nextState} \subseteq smDef.states \cup {noState}
        /\ y.in # "none" => x.in = y.in
  <1>4. \E x, n : Called(x, n)
    <2>1. CASE stateMachine_create(m, nuance)
      <3>1. PICK x : x = [NoMachine EXCEPT !.live = TRUE, !.nuanceSemantics = nuance]
        OBVIOUS
      <3>2. GoodMachine(x) /\ x.live /\ x.currentState = noState /\ x.nextState = noState
        BY <3>1 DEF GoodMachine, NoMachine
      <3>3. /\ smMachine' = [smMachine EXCEPT ![m] = x] /\ ~y.live /\ ~smDef.destroyed
            /\ smDef' = [smDef EXCEPT !.machineCount = smDef.machineCount + 1]
        BY <1>1, <2>1, <3>1 DEF stateMachine_create, SmInv, DefShape
      <3>4. y.in = "none"
        BY <1>1, <3>3 DEF GoodMachine
      <3> QED
        BY <3>2, <3>3, <3>4
    <2>2. CASE stateMachine_createAndRun(m, s, nuance)
      <3>1. PICK x : x = [NoMachine EXCEPT !.live = TRUE, !.nuanceSemantics = nuance, !.own = TRUE,
                                           !.currentState = s, !.in = "classEntry"]
        OBVIOUS
      <3>2. GoodMachine(x) /\ x.live /\ x.currentState = s /\ x.nextState = noState
        BY <3>1 DEF GoodMachine, NoMachine
      <3>3. /\ smMachine' = [smMachine EXCEPT ![m] = x] /\ ~y.live /\ ~smDef.destroyed /\ s \in smDef.states
            /\ smDef' = [smDef EXCEPT !.machineCount = smDef.machineCount + 1]
        BY <1>1, <2>2, <3>1 DEF stateMachine_createAndRun, SmInv, DefShape
      <3>4. y.in = "none"
        BY <1>1, <3>3 DEF GoodMachine
      <3> QED
        BY <3>2, <3>3, <3>4
    <2>3. CASE stateMachine_destroy(m)
      <3>1. PICK x : x = NoMachine
        OBVIOUS
      <3>2. GoodMachine(x) /\ ~x.live
        BY <3>1 DEF GoodMachine, NoMachine
      <3>3. /\ smMachine' = [smMachine EXCEPT ![m] = x] /\ y.live /\ y.in = "none"
            /\ smDef' = [smDef EXCEPT !.machineCount = smDef.machineCount - 1]
        BY <1>1, <2>3, <3>1 DEF stateMachine_destroy, Running, SmInv, DefShape
      <3> QED
        BY <3>2, <3>3
    <2>4. CASE stateMachine_run(m, s)
      <3>1. PICK x : x = [y EXCEPT !.currentState = s, !.nextState = noState, !.immediateExit = FALSE, !.in = "classEntry"]
        OBVIOUS
      <3>2. y.live /\ y.in = "none" /\ s \in smDef.states /\ smDef' = smDef
        BY <1>1, <2>4 DEF stateMachine_run, Running
      <3>3. GoodMachine(x) /\ x.live /\ x.currentState = s /\ x.nextState = noState
        BY <1>1, <3>1, <3>2 DEF GoodMachine
      <3>4. smMachine' = [smMachine EXCEPT ![m] = x]
        BY <1>1, <2>4, <3>1 DEF stateMachine_run, SmInv
      <3>5. smDef' = [smDef EXCEPT !.machineCount = smDef.machineCount]
        BY <3>2 DEF SmInv, DefShape
      <3> QED
        BY <3>2, <3>3, <3>4, <3>5
    <2>5. CASE stateMachine_setNextState(m, s)
      <3>1. PICK x : x = [y EXCEPT !.nextState = s]
        OBVIOUS
      <3>2. y.live /\ s \in smDef.states /\ smDef' = smDef
        BY <1>1, <2>5 DEF stateMachine_setNextState, Running, GoodMachine
      <3>3. GoodMachine(x) /\ x.live /\ x.currentState = y.currentState /\ x.nextState = s /\ x.in = y.in
        BY <1>1, <3>1, <3>2 DEF GoodMachine
      <3>4. smMachine' = [smMachine EXCEPT ![m] = x]
        BY <1>1, <2>5, <3>1 DEF stateMachine_setNextState, SmInv
      <3>5. smDef' = [smDef EXCEPT !.machineCount = smDef.machineCount]
        BY <3>2 DEF SmInv, DefShape
      <3> QED
        BY <1>2, <3>2, <3>3, <3>4, <3>5
    <2>6. CASE stateMachine_setImmediateExit(m)
      <3>1. PICK x : x = [y EXCEPT !.immediateExit = TRUE]
        OBVIOUS
      <3>2. y.live /\ smDef' = smDef
        BY <1>1, <2>6 DEF stateMachine_setImmediateExit
      <3>3. GoodMachine(x) /\ x.live /\ x.currentState = y.currentState /\ x.nextState = y.nextState /\ x.in = y.in
        BY <1>1, <3>1, <3>2 DEF GoodMachine
      <3>4. smMachine' = [smMachine EXCEPT ![m] = x]
        BY <1>1, <2>6, <3>1 DEF stateMachine_setImmediateExit, SmInv
      <3>5. smDef' = [smDef EXCEPT !.machineCount = smDef.machineCount]
        BY <3>2 DEF SmInv, DefShape
      <3> QED
        BY <1>2, <3>2, <3>3, <3>4, <3>5
    <2> QED
      BY <2>1, <2>2, <2>3, <2>4, <2>5, <2>6
  <1>5. PICK x, n : Called(x, n)
    BY <1>4
  <1>6. SmInv'
    BY <1>1, <1>3, <1>5, MachineStep
  <1>7. smMachine'[m].in = x.in /\ \A k \in StateMachines : k # m => smMachine'[k] = smMachine[k]
    BY <1>5 DEF SmInv
  <1> QED
    BY <1>1, <1>5, <1>6, <1>7

ExitStep ==
  \A m \in StateMachines :
    Running(m) /\ smMachine[m].immediateExit => smMachine'[m].in \in {smMachine[m].in, "none"}

\* Every step keeps the invariant, and lets a machine that is to exit call nothing more.
LEMMA SmStep == SmInv /\ [SmNext]_smVars => SmInv' /\ ExitStep
  <1> SUFFICES ASSUME SmInv, [SmNext]_smVars PROVE SmInv' /\ ExitStep
    OBVIOUS
  <1>1. CASE \E c \in StateClasses : stateMachine_createClass(c) \/ stateMachine_destroyClass(c)
    <2>1. smMachine' = smMachine
      BY <1>1 DEF stateMachine_createClass, stateMachine_destroyClass
    <2> QED
      BY <1>1, <2>1, ClassSteps DEF ExitStep
  <1>2. CASE \E s \in MachineStates : \E c \in StateClasses \cup {noClass} : stateMachine_createState(s, c)
    <2>1. smMachine' = smMachine
      BY <1>2 DEF stateMachine_createState
    <2> QED
      BY <1>2, <2>1, StateComes DEF ExitStep
  <1>3. CASE \E s \in MachineStates : stateMachine_destroyState(s)
    <2>1. smMachine' = smMachine
      BY <1>3 DEF stateMachine_destroyState
    <2> QED
      BY <1>3, <2>1, StateGoes DEF ExitStep
  <1>4. CASE stateMachine_defDestroy
    <2>1. smMachine' = smMachine
      BY <1>4 DEF stateMachine_defDestroy
    <2> QED
      BY <1>4, <2>1, DefGoes DEF ExitStep
  <1>5. ASSUME NEW m \in StateMachines, NEW s, NEW nuance,
               \/ stateMachine_create(m, nuance) \/ stateMachine_createAndRun(m, s, nuance) \/ stateMachine_destroy(m)
               \/ stateMachine_run(m, s) \/ stateMachine_setNextState(m, s) \/ stateMachine_setImmediateExit(m)
        PROVE SmInv' /\ ExitStep
    BY <1>5, CallSteps DEF ExitStep, Running
  <1>6. CASE \E m \in StateMachines : FunctionReturns(m) \/ ClassExitReturns(m)
    <2>1. PICK m \in StateMachines : FunctionReturns(m) \/ ClassExitReturns(m)
      BY <1>6
    <2> QED
      BY <2>1, ReturnSteps DEF ExitStep
  <1>7. CASE UNCHANGED smVars
    <2>1. smDef' = smDef /\ smClass' = smClass /\ smState' = smState /\ smMachine' = smMachine
      BY <1>7 DEF smVars
    <2>2. Alive' = Alive /\ \A c : StatesOf(c)' = StatesOf(c)
      BY <2>1 DEF Alive, StatesOf
    <2> QED
      BY <2>1, <2>2 DEF SmInv, ExitStep
  <1>8. CASE SmNext
    BY <1>1, <1>2, <1>3, <1>4, <1>5, <1>6, <1>8 DEF SmNext
  <1> QED
    BY <1>7, <1>8

\* A library step is a step of the state machines, or leaves them alone.
LEMMA SmSteps == [Next]_libraryVars => [SmNext]_smVars
  BY DEF Next, libraryVars, smVars

\* stateMachine.c keeps the counters that guard destruction, leaves no live machine with a freed state and
\* obeys an immediate exit, after any sequence of calls and whichever thread asks for the exit.
THEOREM StateMachinesStaySound == Spec => StateMachineSound
  <1>1. Init => SmInv
    BY SmInitInv DEF Init
  <1>2. SmInv /\ [Next]_libraryVars => SmInv' /\ [ExitStep]_smVars
    BY SmStep, SmSteps
  <1>3. SmInv => SmCountsGuard
    BY DEF SmInv, SmCountsGuard, StatesOf, Alive
  <1>4. Spec => []SmInv
    BY <1>1, <1>2, PTL DEF Spec
  <1>5. Spec => [][ExitStep]_smVars
    BY <1>2, <1>4, PTL DEF Spec
  <1>6. Spec => ExitIsImmediate
    BY <1>5 DEF ExitIsImmediate, ExitStep
  <1> QED
    BY <1>3, <1>4, <1>6, PTL DEF StateMachineSound

-----------------------------------------------------------------------------
(* Sockets: the lines that pieces make up *)

\* What the parts of a sequence with one more element are
AppendParts(S, s, x, b) == b \in Seq(S) /\ b # << >> /\ Len(b) = Len(s) + 1 /\ Front(b) = s /\ Last(b) = x

\* They are so.
LEMMA PartsOfAppend ==
  ASSUME NEW S, NEW s \in Seq(S), NEW x \in S, NEW b, b = Append(s, x)
  PROVE  AppendParts(S, s, x, b)
  <1>1. b \in Seq(S) /\ b # << >> /\ Len(b) = Len(s) + 1 /\ b[Len(s) + 1] = x /\ \A i \in 1..Len(s) : b[i] = s[i]
    BY AppendProperties
  <1>2. PICK n \in Nat : n = Len(s)
    OBVIOUS
  <1>3. PICK f : f = SubSeq(b, 1, n)
    OBVIOUS
  <1>4. f \in Seq(S) /\ Len(f) = n /\ \A i \in 1..n : f[i] = b[i]
    BY <1>1, <1>2, <1>3
  <1>5. f = s
    BY <1>1, <1>2, <1>4, SeqEqual
  <1>6. Len(b) - 1 = n
    BY <1>1, <1>2
  <1> QED
    BY <1>1, <1>3, <1>5, <1>6 DEF Front, Last, AppendParts

\* The element appended to the second part or to the whole
JoinAppend(a, s, x) == Append(a \o s, x) = a \o Append(s, x)

\* It is the same.
LEMMA AppendAfter ==
  ASSUME NEW S, NEW a \in Seq(S), NEW s \in Seq(S), NEW x \in S
  PROVE  JoinAppend(a, s, x)
  <1>1. <<x>> \in Seq(S) /\ a \o s \in Seq(S)
    OBVIOUS
  <1>2. Append(a \o s, x) = (a \o s) \o <<x>> /\ Append(s, x) = s \o <<x>>
    BY <1>1, AppendIsConcat
  <1> QED
    BY <1>1, <1>2, ConcatAssociative DEF JoinAppend

\* A set of lines to which a piece may be added
LinesOf(S, p) == <<p>> \in S /\ \A x \in S : Append(x, p) \in S

\* What the lines with one more piece are
PieceParts(S, lines, p, r) ==
  /\ r \in Seq(S) /\ r # << >>
  /\ lines = << >> \/ Ended(Last(lines)) => r = Append(lines, <<p>>) /\ Last(r) = <<p>>
  /\ lines # << >> /\ ~Ended(Last(lines)) => r = Append(Front(lines), Append(Last(lines), p)) /\ Last(r) = Append(Last(lines), p)

\* One more piece, in a line of its own or at the end of the last
LEMMA WithPieceType ==
  ASSUME NEW S, NEW lines \in Seq(S), NEW p, LinesOf(S, p), NEW r, r = WithPiece(lines, p)
  PROVE  PieceParts(S, lines, p, r)
  <1>1. PICK w \in S : w = <<p>>
    BY DEF LinesOf
  <1>2. CASE lines = << >> \/ Ended(Last(lines))
    <2>1. r = Append(lines, w)
      BY <1>1, <1>2 DEF WithPiece
    <2>2. AppendParts(S, lines, w, r)
      BY <2>1, PartsOfAppend
    <2> QED
      BY <1>1, <1>2, <2>1, <2>2 DEF AppendParts, PieceParts
  <1>3. CASE ~(lines = << >> \/ Ended(Last(lines)))
    <2>1. PICK f \in Seq(S), x \in S : lines = Append(f, x)
      BY <1>3, SequenceEmptyOrAppend
    <2>2. AppendParts(S, f, x, lines)
      BY <2>1, PartsOfAppend
    <2>3. Front(lines) = f /\ Last(lines) = x
      BY <2>2 DEF AppendParts
    <2>4. PICK v \in S : v = Append(x, p)
      BY DEF LinesOf
    <2>5. r = f \o <<v>>
      BY <1>3, <2>3, <2>4 DEF WithPiece
    <2>6. r = Append(f, v)
      BY <2>5, AppendIsConcat
    <2>7. AppendParts(S, f, v, r)
      BY <2>6, PartsOfAppend
    <2> QED
      BY <1>3, <2>3, <2>4, <2>6, <2>7 DEF AppendParts, PieceParts
  <1> QED
    BY <1>2, <1>3

\* The piece added to the second part or to the whole
JoinPiece(a, b, p) == WithPiece(a \o b, p) = a \o WithPiece(b, p)

\* Lines before the last have no part in it.
LEMMA WithPieceAfter ==
  ASSUME NEW S, NEW a \in Seq(S), NEW b \in Seq(S), NEW p, LinesOf(S, p),
         b # << >> \/ a = << >> \/ Ended(Last(a))
  PROVE  JoinPiece(a, b, p)
  <1>1. PICK w \in S : w = <<p>>
    BY DEF LinesOf
  <1>2. JoinAppend(a, b, w)
    BY AppendAfter
  <1>3. CASE b = << >>
    <2>1. a \o b = a
      BY <1>3, ConcatEmptySeq
    <2>2. WithPiece(b, p) = Append(b, w)
      BY <1>1, <1>3 DEF WithPiece
    <2>3. WithPiece(a, p) = Append(a, w)
      BY <1>1, <1>3 DEF WithPiece
    <2> QED
      BY <1>2, <2>1, <2>2, <2>3 DEF JoinAppend, JoinPiece
  <1>4. CASE b # << >>
    <2>1. PICK s \in Seq(S), x \in S : b = Append(s, x)
      BY <1>4, SequenceEmptyOrAppend
    <2>2. PICK c \in Seq(S) : c = a \o s
      BY ConcatProperties
    <2>3. JoinAppend(a, s, x)
      BY AppendAfter
    <2>4. PICK d : d = a \o b /\ d = Append(c, x)
      BY <2>1, <2>2, <2>3 DEF JoinAppend
    <2>5. AppendParts(S, s, x, b) /\ AppendParts(S, c, x, d)
      BY <2>1, <2>4, PartsOfAppend
    <2>6. Last(b) = x /\ Last(d) = x /\ Front(b) = s /\ Front(d) = c /\ d # << >> /\ d \in Seq(S)
      BY <2>5 DEF AppendParts
    <2>7. CASE Ended(x)
      <3>1. WithPiece(d, p) = Append(d, w) /\ WithPiece(b, p) = Append(b, w)
        BY <1>1, <2>6, <2>7 DEF WithPiece
      <3> QED
        BY <1>2, <2>4, <3>1 DEF JoinAppend, JoinPiece
    <2>8. CASE ~Ended(x)
      <3>1. PICK v \in S : v = Append(x, p)
        BY DEF LinesOf
      <3>2. PieceParts(S, b, p, WithPiece(b, p)) /\ PieceParts(S, d, p, WithPiece(d, p))
        BY <2>6, WithPieceType
      <3>3. WithPiece(b, p) = Append(s, v) /\ WithPiece(d, p) = Append(c, v)
        BY <1>4, <2>6, <2>8, <3>1, <3>2 DEF PieceParts
      <3>4. JoinAppend(a, s, v)
        BY AppendAfter
      <3> QED
        BY <2>2, <2>4, <3>3, <3>4 DEF JoinAppend, JoinPiece
    <2> QED
      BY <2>7, <2>8
  <1> QED
    BY <1>3, <1>4

\* What the definition of Lines says of a function
LinesSo(f, s) == f = [n \in 0..Len(s) |-> IF n = 0 THEN << >> ELSE WithPiece(f[n - 1], s[n])]

\* The definition uses such a function if there is one.
LEMMA LinesUse == ASSUME NEW s, \E f : LinesSo(f, s) PROVE \E f : LinesSo(f, s) /\ Lines(s) = f[Len(s)]
  <1> DEFINE G == CHOOSE f : LinesSo(f, s)
  <1>1. LinesSo(G, s)
    OBVIOUS
  <1>2. Lines(s) = G[Len(s)]
    BY DEF Lines, LinesSo
  <1> QED
    BY <1>1, <1>2

\* The lines of the first n pieces, for every n
LinesBy(f, s, S) ==
  /\ f \in [0..Len(s) -> Seq(S)] /\ f[0] = << >> /\ \A i \in 1..Len(s) : f[i] = WithPiece(f[i - 1], s[i])
  /\ Lines(s) = f[Len(s)]

\* Such a function adds piece after piece.
LEMMA LinesAdd ==
  ASSUME NEW S, NEW P, NEW s \in Seq(P), \A p \in P : LinesOf(S, p)
  PROVE  \E f : LinesBy(f, s, S)
  <1>1. PICK n \in Nat : n = Len(s)
    OBVIOUS
  <1>2. PICK Q : Q = Seq(S)
    OBVIOUS
  <1>3. << >> \in Q
    BY <1>2
  <1>4. \A i \in 1..n : \A x \in Q : WithPiece(x, s[i]) \in Q
    <2> SUFFICES ASSUME NEW i \in 1..n, NEW x \in Q PROVE WithPiece(x, s[i]) \in Q
      OBVIOUS
    <2>1. PICK p \in P : p = s[i]
      BY <1>1
    <2>2. x \in Seq(S)
      BY <1>2
    <2>3. PieceParts(S, x, p, WithPiece(x, p))
      BY <2>2, WithPieceType
    <2> QED
      BY <1>2, <2>1, <2>3 DEF PieceParts
  <1>5. PICK g \in [1..n -> [Q -> Q]] : \A i \in 1..n : \A x \in Q : g[i][x] = WithPiece(x, s[i])
    <2>1. [i \in 1..n |-> [x \in Q |-> WithPiece(x, s[i])]] \in [1..n -> [Q -> Q]]
      BY <1>4
    <2> QED
      BY <2>1
  <1>6. PICK f : Unfolds(f, n, Q, << >>, g)
    BY <1>3, Recursion
  <1>7. f \in [0..n -> Q] /\ f[0] = << >> /\ \A i \in 1..n : f[i] = WithPiece(f[i - 1], s[i])
    <2>1. f \in [0..n -> Q] /\ f[0] = << >> /\ \A i \in 1..n : f[i] = g[i][f[i - 1]]
      BY <1>6 DEF Unfolds
    <2>2. \A i \in 1..n : f[i - 1] \in Q
      <3>1. \A i \in 1..n : i - 1 \in 0..n
        OBVIOUS
      <3> QED
        BY <2>1, <3>1
    <2> QED
      BY <1>5, <2>1, <2>2
  <1>8. LinesSo(f, s)
    <2>1. \A i \in 0..n : f[i] = IF i = 0 THEN << >> ELSE WithPiece(f[i - 1], s[i])
      <3>1. \A i \in 0..n : i = 0 \/ i \in 1..n
        OBVIOUS
      <3> QED
        BY <1>7, <3>1
    <2>2. f = [i \in 0..n |-> IF i = 0 THEN << >> ELSE WithPiece(f[i - 1], s[i])]
      BY <1>7, <2>1
    <2> QED
      BY <1>1, <2>2 DEF LinesSo
  <1>9. PICK h : LinesSo(h, s) /\ Lines(s) = h[Len(s)]
    BY <1>8, LinesUse
  <1>10. DOMAIN h = 0..n /\ \A i \in 0..n : h[i] = IF i = 0 THEN << >> ELSE WithPiece(h[i - 1], s[i])
    <2>1. h = [i \in 0..n |-> IF i = 0 THEN << >> ELSE WithPiece(h[i - 1], s[i])]
      BY <1>1, <1>9 DEF LinesSo
    <2>2. DOMAIN h = 0..n
      BY <2>1
    <2> QED
      BY <2>1, <2>2
  <1> DEFINE T == {i \in 0..n : h[i] = f[i]}
  <1>11. 0 \in T
    BY <1>7, <1>10
  <1>12. ASSUME NEW i \in 0..n, i # n, i \in T PROVE i + 1 \in T
    <2>1. i + 1 \in 0..n /\ i + 1 \in 1..n /\ i + 1 # 0 /\ (i + 1) - 1 = i
      BY <1>12
    <2>2. h[i] = f[i]
      BY <1>12
    <2>3. h[i + 1] = WithPiece(h[i], s[i + 1]) /\ f[i + 1] = WithPiece(f[i], s[i + 1])
      BY <1>7, <1>10, <2>1
    <2> QED
      BY <2>1, <2>2, <2>3
  <1>13. n \in T
    <2> HIDE DEF T
    <2>1. n \in 0..n
      OBVIOUS
    <2> QED
      BY <1>11, <1>12, <2>1, Climb
  <1> QED
    BY <1>1, <1>2, <1>7, <1>9, <1>13 DEF LinesBy

\* Pieces fit into lines of pieces.
LEMMA PieceFits == ASSUME NEW P, NEW p \in P PROVE LinesOf(Seq(P), p)
  BY DEF LinesOf

\* The last line ends with the piece just added.
LEMMA LastPiece ==
  ASSUME NEW P, NEW lines \in Seq(Seq(P)), NEW p \in P
  PROVE  WithPiece(lines, p) # << >> /\ Last(Last(WithPiece(lines, p))) = p /\ Last(WithPiece(lines, p)) # << >>
  <1>1. PICK r : r = WithPiece(lines, p)
    OBVIOUS
  <1>2. PieceParts(Seq(P), lines, p, r)
    <2>1. LinesOf(Seq(P), p)
      BY PieceFits
    <2> QED
      BY <1>1, <2>1, WithPieceType
  <1>3. r # << >> /\ (Last(r) = <<p>> \/ (lines # << >> /\ Last(r) = Append(Last(lines), p)))
    BY <1>2 DEF PieceParts
  <1>4. CASE Last(r) = <<p>>
    <2>1. PICK e : e = << >> /\ e \in Seq(P)
      BY EmptySeq
    <2>4. <<p>> = Append(<< >>, p)
      OBVIOUS
    <2>2. PICK w : w = <<p>> /\ w = Append(e, p)
      BY <2>1, <2>4
    <2>3. AppendParts(P, e, p, w)
      BY <2>1, <2>2, PartsOfAppend
    <2> QED
      BY <1>1, <1>3, <1>4, <2>2, <2>3 DEF AppendParts
  <1>5. CASE lines # << >> /\ Last(r) = Append(Last(lines), p)
    <2>1. PICK x \in Seq(P) : x = Last(lines)
      <3>1. PICK S : S = Seq(P)
        OBVIOUS
      <3>2. PICK f \in Seq(S), x \in S : lines = Append(f, x)
        BY <1>5, <3>1, SequenceEmptyOrAppend
      <3>3. AppendParts(S, f, x, lines)
        BY <3>2, PartsOfAppend
      <3> QED
        BY <3>1, <3>3 DEF AppendParts
    <2>2. PICK w : w = Append(x, p) /\ Last(r) = w
      BY <1>5, <2>1
    <2>3. AppendParts(P, x, p, w)
      BY <2>2, PartsOfAppend
    <2> QED
      BY <1>1, <1>3, <2>2, <2>3 DEF AppendParts
  <1> QED
    BY <1>3, <1>4, <1>5

\* The pieces end with the end of a line.
Whole(h) == h = << >> \/ Last(h).newline

\* So do their lines.
LEMMA WholeLines ==
  ASSUME NEW P, NEW h \in Seq(P), Whole(h)
  PROVE  Lines(h) \in Seq(Seq(P)) /\ (Lines(h) = << >> \/ Ended(Last(Lines(h))))
  <1>1. \A p \in P : LinesOf(Seq(P), p)
    BY PieceFits
  <1>2. PICK f : LinesBy(f, h, Seq(P))
    BY <1>1, LinesAdd
  <1>3. PICK n \in Nat : n = Len(h)
    OBVIOUS
  <1>4. f \in [0..n -> Seq(Seq(P))] /\ f[0] = << >> /\ Lines(h) = f[n] /\ \A i \in 1..n : f[i] = WithPiece(f[i - 1], h[i])
    BY <1>2, <1>3 DEF LinesBy
  <1>5. CASE n = 0
    BY <1>4, <1>5
  <1>6. CASE n # 0
    <2>1. n \in 1..n /\ n - 1 \in 0..n /\ n \in 0..n
      BY <1>6
    <2>2. PICK p \in P : p = h[n]
      BY <1>3, <2>1
    <2>3. h # << >> /\ p.newline
      BY <1>3, <1>6, <2>2 DEF Whole, Last
    <2>4. PICK x \in Seq(Seq(P)) : x = f[n - 1]
      BY <1>4, <2>1
    <2>5. Last(Last(WithPiece(x, p))) = p
      BY LastPiece
    <2>6. Lines(h) = WithPiece(x, p) /\ Lines(h) \in Seq(Seq(P))
      BY <1>4, <2>1, <2>2, <2>4
    <2> QED
      BY <2>3, <2>5, <2>6 DEF Ended
  <1> QED
    BY <1>5, <1>6

\* The lines of a concatenation
JoinLines(h, s) == Lines(h \o s) = Lines(h) \o Lines(s)

\* They are those of its parts when the first ends with the end of a line.
LEMMA LinesJoin ==
  ASSUME NEW P, NEW h \in Seq(P), NEW s \in Seq(P), Whole(h)
  PROVE  JoinLines(h, s)
  <1>1. PICK S : S = Seq(P)
    OBVIOUS
  <1>2. \A p \in P : LinesOf(S, p)
    BY <1>1, PieceFits
  <1>3. PICK c \in Seq(P) : c = h \o s
    BY ConcatProperties
  <1>4. PICK a, b, f : LinesBy(a, h, S) /\ LinesBy(b, s, S) /\ LinesBy(f, c, S)
    BY <1>2, LinesAdd
  <1>5. PICK m \in Nat : m = Len(h)
    OBVIOUS
  <1>6. PICK n \in Nat : n = Len(s)
    OBVIOUS
  <1>7. Len(c) = m + n /\ (\A i \in 1..m : c[i] = h[i]) /\ \A i \in 1..n : c[m + i] = s[i]
    <2>1. Len(c) = m + n /\ \A i \in 1..(m + n) : c[i] = IF i <= m THEN h[i] ELSE s[i - m]
      BY <1>3, <1>5, <1>6, ConcatProperties
    <2>2. \A i \in 1..m : i \in 1..(m + n) /\ i <= m
      OBVIOUS
    <2>3. \A i \in 1..n : m + i \in 1..(m + n) /\ ~(m + i <= m) /\ (m + i) - m = i
      OBVIOUS
    <2> QED
      BY <2>1, <2>2, <2>3
  <1>8. a \in [0..m -> Seq(S)] /\ a[0] = << >> /\ Lines(h) = a[m] /\ \A i \in 1..m : a[i] = WithPiece(a[i - 1], h[i])
    BY <1>4, <1>5 DEF LinesBy
  <1>9. b \in [0..n -> Seq(S)] /\ b[0] = << >> /\ Lines(s) = b[n] /\ \A i \in 1..n : b[i] = WithPiece(b[i - 1], s[i])
    BY <1>4, <1>6 DEF LinesBy
  <1>10. f[0] = << >> /\ Lines(c) = f[m + n] /\ \A i \in 1..(m + n) : f[i] = WithPiece(f[i - 1], c[i])
    BY <1>4, <1>7 DEF LinesBy
  <1>11. f[m] = a[m]
    <2> DEFINE T == {i \in 0..m : f[i] = a[i]}
    <2>1. 0 \in T
      BY <1>8, <1>10
    <2>2. ASSUME NEW i \in 0..m, i # m, i \in T PROVE i + 1 \in T
      <3>1. i + 1 \in 0..m /\ i + 1 \in 1..m /\ i + 1 \in 1..(m + n) /\ (i + 1) - 1 = i
        BY <2>2
      <3>2. f[i] = a[i]
        BY <2>2
      <3>3. f[i + 1] = WithPiece(f[i], h[i + 1]) /\ a[i + 1] = WithPiece(a[i], h[i + 1])
        BY <1>7, <1>8, <1>10, <3>1
      <3> QED
        BY <3>1, <3>2, <3>3
    <2>3. m \in T
      <3> HIDE DEF T
      <3>1. m \in 0..m
        OBVIOUS
      <3> QED
        BY <2>1, <2>2, <3>1, Climb
    <2> QED
      BY <2>3
  <1>12. PICK x \in Seq(S) : x = a[m] /\ x = Lines(h) /\ (x = << >> \/ Ended(Last(x)))
    <2>1. m \in 0..m
      OBVIOUS
    <2> QED
      BY <1>8, <2>1, WholeLines
  <1> DEFINE T == {i \in 0..n : f[m + i] = x \o b[i]}
  <1>13. 0 \in T
    <2>1. m + 0 = m /\ 0 \in 0..n
      OBVIOUS
    <2>2. x \o b[0] = x
      BY <1>9, ConcatEmptySeq
    <2> QED
      BY <1>11, <1>12, <2>1, <2>2
  <1>14. ASSUME NEW i \in 0..n, i # n, i \in T PROVE i + 1 \in T
    <2>1. i + 1 \in 0..n /\ i + 1 \in 1..n /\ m + (i + 1) \in 1..(m + n) /\ (i + 1) - 1 = i /\ (m + (i + 1)) - 1 = m + i
      BY <1>14
    <2>2. f[m + i] = x \o b[i]
      BY <1>14
    <2>3. PICK y \in Seq(S) : y = b[i]
      BY <1>9
    <2>4. PICK p \in P : p = s[i + 1]
      BY <1>6, <2>1
    <2>5. f[m + (i + 1)] = WithPiece(x \o y, p) /\ b[i + 1] = WithPiece(y, p)
      BY <1>7, <1>9, <1>10, <2>1, <2>2, <2>3, <2>4
    <2>6. JoinPiece(x, y, p)
      <3>1. LinesOf(S, p)
        BY <1>2
      <3> QED
        BY <1>12, <3>1, WithPieceAfter
    <2> QED
      BY <2>1, <2>5, <2>6 DEF JoinPiece
  <1>15. n \in T
    <2> HIDE DEF T
    <2>1. n \in 0..n
      OBVIOUS
    <2> QED
      BY <1>13, <1>14, <2>1, Climb
  <1>16. f[m + n] = x \o b[n]
    BY <1>15
  <1> QED
    BY <1>3, <1>9, <1>10, <1>12, <1>16 DEF JoinLines

-----------------------------------------------------------------------------
(* Sockets: the lines that a handler is given *)

\* What the definition of Given says of a function
GivenSo(f, s, eof) == f = [n \in 0..Len(s) |-> IF n = 0 THEN << >> ELSE WithLine(f[n - 1], s[n], eof)]

\* The definition uses such a function if there is one.
LEMMA GivenUse == ASSUME NEW s, NEW eof, \E f : GivenSo(f, s, eof) PROVE \E f : GivenSo(f, s, eof) /\ Given(s, eof) = f[Len(s)]
  <1> DEFINE G == CHOOSE f : GivenSo(f, s, eof)
  <1>1. GivenSo(G, s, eof)
    OBVIOUS
  <1>2. Given(s, eof) = G[Len(s)]
    BY DEF Given, GivenSo
  <1> QED
    BY <1>1, <1>2

\* What is given of the first n lines, for every n
GivenBy(f, s, eof, L) ==
  /\ f \in [0..Len(s) -> Seq(L)] /\ f[0] = << >> /\ \A i \in 1..Len(s) : f[i] = WithLine(f[i - 1], s[i], eof)
  /\ Given(s, eof) = f[Len(s)]

\* Such a function takes line after line.
LEMMA GivenAdd ==
  ASSUME NEW L, NEW s \in Seq(L), NEW eof
  PROVE  \E f : GivenBy(f, s, eof, L)
  <1>1. PICK n \in Nat : n = Len(s)
    OBVIOUS
  <1>2. PICK Q : Q = Seq(L)
    OBVIOUS
  <1>3. << >> \in Q
    BY <1>2, EmptySeq
  <1>4. \A i \in 1..n : \A x \in Q : WithLine(x, s[i], eof) \in Q
    <2> SUFFICES ASSUME NEW i \in 1..n, NEW x \in Q PROVE WithLine(x, s[i], eof) \in Q
      OBVIOUS
    <2>1. PICK p \in L : p = s[i]
      BY <1>1
    <2>2. x \in Seq(L)
      BY <1>2
    <2>3. Append(x, p) \in Seq(L)
      BY <2>2, AppendProperties
    <2> QED
      BY <1>2, <2>1, <2>2, <2>3 DEF WithLine
  <1>5. PICK g \in [1..n -> [Q -> Q]] : \A i \in 1..n : \A x \in Q : g[i][x] = WithLine(x, s[i], eof)
    <2>1. [i \in 1..n |-> [x \in Q |-> WithLine(x, s[i], eof)]] \in [1..n -> [Q -> Q]]
      BY <1>4
    <2> QED
      BY <2>1
  <1>6. PICK f : Unfolds(f, n, Q, << >>, g)
    BY <1>3, Recursion
  <1>7. f \in [0..n -> Q] /\ f[0] = << >> /\ \A i \in 1..n : f[i] = WithLine(f[i - 1], s[i], eof)
    <2>1. f \in [0..n -> Q] /\ f[0] = << >> /\ \A i \in 1..n : f[i] = g[i][f[i - 1]]
      BY <1>6 DEF Unfolds
    <2>2. \A i \in 1..n : f[i - 1] \in Q
      <3>1. \A i \in 1..n : i - 1 \in 0..n
        OBVIOUS
      <3> QED
        BY <2>1, <3>1
    <2> QED
      BY <1>5, <2>1, <2>2
  <1>8. GivenSo(f, s, eof)
    <2>1. \A i \in 0..n : f[i] = IF i = 0 THEN << >> ELSE WithLine(f[i - 1], s[i], eof)
      <3>1. \A i \in 0..n : i = 0 \/ i \in 1..n
        OBVIOUS
      <3> QED
        BY <1>7, <3>1
    <2>2. f = [i \in 0..n |-> IF i = 0 THEN << >> ELSE WithLine(f[i - 1], s[i], eof)]
      BY <1>7, <2>1
    <2> QED
      BY <1>1, <2>2 DEF GivenSo
  <1>9. PICK h : GivenSo(h, s, eof) /\ Given(s, eof) = h[Len(s)]
    BY <1>8, GivenUse
  <1>10. DOMAIN h = 0..n /\ \A i \in 0..n : h[i] = IF i = 0 THEN << >> ELSE WithLine(h[i - 1], s[i], eof)
    <2>1. h = [i \in 0..n |-> IF i = 0 THEN << >> ELSE WithLine(h[i - 1], s[i], eof)]
      BY <1>1, <1>9 DEF GivenSo
    <2>2. DOMAIN h = 0..n
      BY <2>1
    <2> QED
      BY <2>1, <2>2
  <1> DEFINE T == {i \in 0..n : h[i] = f[i]}
  <1>11. 0 \in T
    BY <1>7, <1>10
  <1>12. ASSUME NEW i \in 0..n, i # n, i \in T PROVE i + 1 \in T
    <2>1. i + 1 \in 0..n /\ i + 1 \in 1..n /\ i + 1 # 0 /\ (i + 1) - 1 = i
      BY <1>12
    <2>2. h[i] = f[i]
      BY <1>12
    <2>3. h[i + 1] = WithLine(h[i], s[i + 1], eof) /\ f[i + 1] = WithLine(f[i], s[i + 1], eof)
      BY <1>7, <1>10, <2>1
    <2> QED
      BY <2>1, <2>2, <2>3
  <1>13. n \in T
    <2> HIDE DEF T
    <2>1. n \in 0..n
      OBVIOUS
    <2> QED
      BY <1>11, <1>12, <2>1, Climb
  <1> QED
    BY <1>1, <1>2, <1>7, <1>9, <1>13 DEF GivenBy

\* What is given of a concatenation
JoinGiven(a, b, eof) == Given(a \o b, eof) = Given(a, eof) \o Given(b, eof)

\* It is what is given of its parts.
LEMMA GivenJoin ==
  ASSUME NEW L, NEW h \in Seq(L), NEW s \in Seq(L), NEW eof
  PROVE  JoinGiven(h, s, eof)
  <1>3. PICK c \in Seq(L) : c = h \o s
    BY ConcatProperties
  <1>4. PICK a, b, f : GivenBy(a, h, eof, L) /\ GivenBy(b, s, eof, L) /\ GivenBy(f, c, eof, L)
    BY GivenAdd
  <1>5. PICK m \in Nat : m = Len(h)
    OBVIOUS
  <1>6. PICK n \in Nat : n = Len(s)
    OBVIOUS
  <1>7. Len(c) = m + n /\ (\A i \in 1..m : c[i] = h[i]) /\ \A i \in 1..n : c[m + i] = s[i]
    <2>1. Len(c) = m + n /\ \A i \in 1..(m + n) : c[i] = IF i <= m THEN h[i] ELSE s[i - m]
      BY <1>3, <1>5, <1>6, ConcatProperties
    <2>2. \A i \in 1..m : i \in 1..(m + n) /\ i <= m
      OBVIOUS
    <2>3. \A i \in 1..n : m + i \in 1..(m + n) /\ ~(m + i <= m) /\ (m + i) - m = i
      OBVIOUS
    <2> QED
      BY <2>1, <2>2, <2>3
  <1>8. a \in [0..m -> Seq(L)] /\ a[0] = << >> /\ Given(h, eof) = a[m] /\ \A i \in 1..m : a[i] = WithLine(a[i - 1], h[i], eof)
    BY <1>4, <1>5 DEF GivenBy
  <1>9. b \in [0..n -> Seq(L)] /\ b[0] = << >> /\ Given(s, eof) = b[n] /\ \A i \in 1..n : b[i] = WithLine(b[i - 1], s[i], eof)
    BY <1>4, <1>6 DEF GivenBy
  <1>10. f[0] = << >> /\ Given(c, eof) = f[m + n] /\ \A i \in 1..(m + n) : f[i] = WithLine(f[i - 1], c[i], eof)
    BY <1>4, <1>7 DEF GivenBy
  <1>11. f[m] = a[m]
    <2> DEFINE T == {i \in 0..m : f[i] = a[i]}
    <2>1. 0 \in T
      BY <1>8, <1>10
    <2>2. ASSUME NEW i \in 0..m, i # m, i \in T PROVE i + 1 \in T
      <3>1. i + 1 \in 0..m /\ i + 1 \in 1..m /\ i + 1 \in 1..(m + n) /\ (i + 1) - 1 = i
        BY <2>2
      <3>2. f[i] = a[i]
        BY <2>2
      <3>3. f[i + 1] = WithLine(f[i], h[i + 1], eof) /\ a[i + 1] = WithLine(a[i], h[i + 1], eof)
        BY <1>7, <1>8, <1>10, <3>1
      <3> QED
        BY <3>1, <3>2, <3>3
    <2>3. m \in T
      <3> HIDE DEF T
      <3>1. m \in 0..m
        OBVIOUS
      <3> QED
        BY <2>1, <2>2, <3>1, Climb
    <2> QED
      BY <2>3
  <1>12. PICK x \in Seq(L) : x = a[m]
    <2>1. m \in 0..m
      OBVIOUS
    <2> QED
      BY <1>8, <2>1
  <1> DEFINE T == {i \in 0..n : f[m + i] = x \o b[i]}
  <1>13. 0 \in T
    <2>1. m + 0 = m /\ 0 \in 0..n
      OBVIOUS
    <2>2. x \o b[0] = x
      BY <1>9, ConcatEmptySeq
    <2> QED
      BY <1>11, <1>12, <2>1, <2>2
  <1>14. ASSUME NEW i \in 0..n, i # n, i \in T PROVE i + 1 \in T
    <2>1. i + 1 \in 0..n /\ i + 1 \in 1..n /\ m + (i + 1) \in 1..(m + n) /\ (i + 1) - 1 = i /\ (m + (i + 1)) - 1 = m + i
      BY <1>14
    <2>2. f[m + i] = x \o b[i]
      BY <1>14
    <2>3. PICK y \in Seq(L) : y = b[i]
      BY <1>9
    <2>4. PICK p \in L : p = s[i + 1]
      BY <1>6, <2>1
    <2>5. f[m + (i + 1)] = WithLine(x \o y, p, eof) /\ b[i + 1] = WithLine(y, p, eof)
      BY <1>7, <1>9, <1>10, <2>1, <2>2, <2>3, <2>4
    <2>6. JoinAppend(x, y, p)
      BY AppendAfter
    <2>7. WithLine(x \o y, p, eof) = x \o WithLine(y, p, eof)
      BY <2>6 DEF JoinAppend, WithLine
    <2> QED
      BY <2>1, <2>5, <2>7
  <1>15. n \in T
    <2> HIDE DEF T
    <2>1. n \in 0..n
      OBVIOUS
    <2> QED
      BY <1>13, <1>14, <2>1, Climb
  <1>16. f[m + n] = x \o b[n]
    BY <1>15
  <1> QED
    BY <1>3, <1>8, <1>9, <1>10, <1>12, <1>16 DEF JoinGiven

\* What is given of one line
LEMMA GivenOne ==
  ASSUME NEW L, NEW x \in L, NEW eof
  PROVE  Given(<<x>>, eof) = WithLine(<< >>, x, eof)
  <1>6. <<x>> \in Seq(L) /\ Len(<<x>>) = 1 /\ <<x>>[1] = x
    OBVIOUS
  <1>1. PICK s \in Seq(L) : s = <<x>> /\ Len(s) = 1 /\ s[1] = x
    BY <1>6
  <1>2. PICK f : GivenBy(f, s, eof, L)
    BY GivenAdd
  <1>3. f[0] = << >> /\ Given(s, eof) = f[1] /\ \A i \in 1..1 : f[i] = WithLine(f[i - 1], s[i], eof)
    BY <1>1, <1>2 DEF GivenBy
  <1>4. 1 \in 1..1 /\ 1 - 1 = 0
    OBVIOUS
  <1>5. f[1] = WithLine(f[0], s[1], eof)
    BY <1>3, <1>4
  <1> QED
    BY <1>1, <1>3, <1>5

\* Pieces without the end of a line before the last make one line.
LEMMA OneLine ==
  ASSUME NEW P, NEW s \in Seq(P), s # << >>, \A i \in 1..(Len(s) - 1) : ~s[i].newline
  PROVE  Lines(s) = <<s>>
  <1>1. PICK S : S = Seq(P)
    OBVIOUS
  <1>2. \A p \in P : LinesOf(S, p)
    BY <1>1, PieceFits
  <1>3. PICK f : LinesBy(f, s, S)
    BY <1>2, LinesAdd
  <1>4. PICK n \in Nat : n = Len(s) /\ n >= 1
    BY EmptySeq
  <1>5. f[0] = << >> /\ Lines(s) = f[n] /\ \A i \in 1..n : f[i] = WithPiece(f[i - 1], s[i])
    BY <1>3, <1>4 DEF LinesBy
  <1>6. \A k \in 1..n : SubSeq(s, 1, k) \in S /\ Len(SubSeq(s, 1, k)) = k /\ SubSeq(s, 1, k)[k] = s[k]
    BY <1>1, <1>4
  <1> DEFINE T == {k \in 0..n : k = 0 \/ f[k] = <<SubSeq(s, 1, k)>>}
  <1>7. 0 \in T
    OBVIOUS
  <1>8. ASSUME NEW k \in 0..n, k # n, k \in T PROVE k + 1 \in T
    <2>1. k + 1 \in 0..n /\ k + 1 \in 1..n /\ (k + 1) - 1 = k
      BY <1>8
    <2>2. f[k + 1] = WithPiece(f[k], s[k + 1])
      BY <1>5, <2>1
    <2>3. PICK p \in P : p = s[k + 1]
      BY <1>4, <2>1
    <2>4. CASE k = 0
      <3>1. k + 1 = 1 /\ p = s[1] /\ 1 \in 1..Len(s)
        BY <1>4, <2>3, <2>4
      <3>2. f[1] = WithPiece(<< >>, p)
        BY <1>5, <2>2, <2>4, <3>1
      <3>3. PICK w \in Seq(P) : w = <<p>>
        <4>1. <<p>> \in Seq(P)
          OBVIOUS
        <4> QED
          BY <4>1
      <3>4. f[1] = Append(<< >>, w)
        BY <3>2, <3>3 DEF WithPiece
      <3>5. SubSeq(s, 1, 1) = w
        <4>1. SubSeq(s, 1, 1) = SubSeq(s, 1, 1 - 1) \o <<s[1]>>
          BY <3>1, SubSeqRecursiveSecond
        <4>2. SubSeq(s, 1, 1 - 1) = << >>
          BY SubSeqEmpty
        <4>3. << >> \o w = w
          BY ConcatEmptySeq
        <4> QED
          BY <3>1, <3>3, <4>1, <4>2, <4>3
      <3>6. Append(<< >>, w) = <<w>>
        OBVIOUS
      <3> QED
        BY <2>1, <3>1, <3>4, <3>5, <3>6
    <2>5. CASE k # 0
      <3>1. k \in 1..n /\ k \in 1..(Len(s) - 1)
        BY <1>4, <1>8, <2>5
      <3>2. PICK x \in S : x = SubSeq(s, 1, k) /\ Len(x) = k /\ x[k] = s[k]
        BY <1>6, <3>1
      <3>3. f[k] = <<x>>
        BY <1>8, <2>5, <3>2
      <3>4. ~Ended(x)
        BY <3>1, <3>2 DEF Ended, Last
      <3>5. PICK e : e = << >> /\ e \in Seq(S)
        BY EmptySeq
      <3>6. PICK l : l = <<x>> /\ l = Append(e, x)
        <4>1. Append(<< >>, x) = <<x>>
          OBVIOUS
        <4> QED
          BY <3>5, <4>1
      <3>7. AppendParts(S, e, x, l)
        BY <3>5, <3>6, PartsOfAppend
      <3>8. l \in Seq(S) /\ l # << >> /\ Last(l) = x /\ Front(l) = e
        BY <3>7 DEF AppendParts
      <3>9. PieceParts(S, l, p, WithPiece(l, p))
        BY <1>2, <3>8, WithPieceType
      <3>10. WithPiece(l, p) = Append(e, Append(x, p))
        BY <3>4, <3>8, <3>9 DEF PieceParts
      <3>11. Append(x, p) = SubSeq(s, 1, k + 1)
        <4>1. 1 \in 1..Len(s) /\ k + 1 \in 1..Len(s)
          BY <1>4, <2>1
        <4>2. SubSeq(s, 1, k + 1) = SubSeq(s, 1, (k + 1) - 1) \o <<s[k + 1]>>
          BY <4>1, SubSeqRecursiveSecond
        <4>3. x \in Seq(P)
          BY <1>1
        <4>4. Append(x, p) = x \o <<p>>
          BY <4>3, AppendIsConcat
        <4> QED
          BY <2>1, <2>3, <3>2, <4>2, <4>4
      <3>12. PICK v : v = SubSeq(s, 1, k + 1)
        OBVIOUS
      <3>13. Append(<< >>, v) = <<v>>
        OBVIOUS
      <3> QED
        BY <2>1, <2>2, <2>3, <3>3, <3>5, <3>6, <3>10, <3>11, <3>12, <3>13
    <2> QED
      BY <2>4, <2>5
  <1>9. n \in T
    <2> HIDE DEF T
    <2>1. n \in 0..n
      OBVIOUS
    <2> QED
      BY <1>7, <1>8, <2>1, Climb
  <1>10. f[n] = <<SubSeq(s, 1, n)>>
    BY <1>4, <1>9
  <1>11. SubSeq(s, 1, n) = s
    BY <1>4, SubSeqFull
  <1> QED
    BY <1>5, <1>10, <1>11

-----------------------------------------------------------------------------
(* Sockets: one end of a connection *)

SockPiece == [comment : BOOLEAN, number : Nat, newline : BOOLEAN]

\* What fgets takes and leaves
LineParts(P, input, l, r) ==
  /\ l \in Seq(P) /\ l # << >> /\ r \in Seq(P) /\ input = l \o r
  /\ \A i \in 1..(Len(l) - 1) : ~l[i].newline
  /\ ~Ended(l) => l = input

\* It takes one line.
LEMMA FirstLineIs ==
  ASSUME NEW P, NEW input \in Seq(P), input # << >>
  PROVE  LineParts(P, input, FirstLine(input), AfterLine(input))
  <1>1. PICK n \in Nat : n = Len(input) /\ n >= 1 /\ DOMAIN input = 1..n
    BY EmptySeq
  <1>2. PICK ends : ends = {i \in 1..n : input[i].newline}
    OBVIOUS
  <1>3. PICK k : k = IF ends = {} THEN Len(input) ELSE Min(ends)
    OBVIOUS
  <1>4. k \in 1..n /\ (\A i \in 1..(k - 1) : ~input[i].newline) /\ (input[k].newline \/ k = n)
    <2>1. CASE ends = {}
      BY <1>1, <1>2, <1>3, <2>1
    <2>2. CASE ends # {}
      <3>1. ends \in SUBSET Nat
        BY <1>2
      <3>2. PICK j \in ends : \A i \in ends : ~(i < j)
        BY <2>2, <3>1, LeastOf
      <3>3. \A i \in ends : j <= i
        BY <3>1, <3>2
      <3>4. k \in ends /\ \A i \in ends : k <= i
        BY <1>3, <2>2, <3>3 DEF Min
      <3> QED
        BY <1>2, <3>4
    <2> QED
      BY <2>1, <2>2
  <1>5. PICK l : l = FirstLine(input) /\ l = SubSeq(input, 1, k)
    BY <1>1, <1>2, <1>3 DEF FirstLine
  <1>6. l \in Seq(P) /\ Len(l) = k /\ \A i \in 1..k : l[i] = input[i]
    BY <1>1, <1>4, <1>5
  <1>7. PICK r : r = AfterLine(input) /\ r = SubSeq(input, k + 1, n)
    BY <1>1, <1>5, <1>6 DEF AfterLine
  <1>8. r \in Seq(P)
    <2>1. \A i \in (k + 1)..n : input[i] \in P
      BY <1>1, <1>4
    <2>2. k + 1 \in Int /\ n \in Int
      BY <1>4
    <2> QED
      BY <1>7, <2>1, <2>2, SubSeqProperties
  <1>9. input = l \o r
    <2>1. 1 \in 1..(Len(input) + 1) /\ k \in (1 - 1)..Len(input) /\ n \in k..Len(input)
      BY <1>1, <1>4
    <2>2. SubSeq(input, 1, k) \o SubSeq(input, k + 1, n) = SubSeq(input, 1, n)
      BY <2>1, ConcatAdjacentSubSeq
    <2>3. SubSeq(input, 1, n) = input
      BY <1>1, SubSeqFull
    <2> QED
      BY <1>5, <1>7, <2>2, <2>3
  <1>10. l # << >>
    BY <1>4, <1>6
  <1>11. \A i \in 1..(Len(l) - 1) : ~l[i].newline
    <2>1. \A i \in 1..(k - 1) : i \in 1..k
      BY <1>4
    <2> QED
      BY <1>4, <1>6, <2>1
  <1>12. ~Ended(l) => l = input
    <2>1. k \in 1..k
      BY <1>4
    <2>2. Last(l) = input[k]
      BY <1>6, <2>1 DEF Last
    <2>3. ~Ended(l) => k = n
      BY <1>4, <2>2 DEF Ended
    <2>4. k = n => l = input
      BY <1>1, <1>5, SubSeqFull
    <2> QED
      BY <2>3, <2>4
  <1> QED
    BY <1>5, <1>6, <1>7, <1>8, <1>9, <1>10, <1>11, <1>12 DEF LineParts

\* What was handled: all that was sent and is not in the input any more, up to the end of a line
Behind(h, y) ==
  /\ h \in Seq(SockPiece) /\ y.sent = h \o y.input /\ Whole(h)
  /\ y.got = Given(Lines(h), FALSE) /\ y.got = Given(Lines(h), TRUE) /\ y.buffer = LastRead(Lines(h))

\* What was given at the end of the file: every line, and perhaps the buffer as it was
AllGiven(lines, got) ==
  \/ got = Given(lines, TRUE)
  \/ (lines = << >> \/ Ended(Last(lines))) /\ got = Append(Given(lines, TRUE), LastRead(lines))

LineEnd(y) ==
  /\ y.sent \in Seq(SockPiece) /\ y.input \in Seq(SockPiece)
  /\ y.reader \in {"none", "reading"} => \E h : Behind(h, y)
  /\ y.reader = "done" /\ ~y.broken => AllGiven(Lines(y.sent), y.got)

\* What is given when a line follows
TakesLine(h, l, eof) == Given(Lines(h \o l), eof) = WithLine(Given(Lines(h), eof), l, eof)

\* A line is added to what was handled.
LEMMA LineTaken ==
  ASSUME NEW h \in Seq(SockPiece), NEW l \in Seq(SockPiece), l # << >>, \A i \in 1..(Len(l) - 1) : ~l[i].newline, Whole(h), NEW eof
  PROVE  /\ TakesLine(h, l, eof) /\ LastRead(Lines(h \o l)) = l
         /\ Ended(l) => Whole(h \o l)
  <1>1. PICK L : L = Seq(SockPiece)
    OBVIOUS
  <1>2. PICK a \in Seq(L) : a = Lines(h)
    BY <1>1, WholeLines
  <1>3. PICK c : c = h \o l
    OBVIOUS
  <1>4. Lines(c) = a \o <<l>>
    <2>1. JoinLines(h, l)
      BY LinesJoin
    <2>2. Lines(l) = <<l>>
      BY OneLine
    <2> QED
      BY <1>2, <1>3, <2>1, <2>2 DEF JoinLines
  <1>5. l \in L
    BY <1>1
  <1>6. PICK w \in Seq(L) : w = <<l>>
    <2>1. <<l>> \in Seq(L)
      <3> HIDE <1>1
      <3> QED
        BY <1>5
    <2> QED
      BY <2>1
  <1>7. JoinGiven(a, w, eof) /\ Given(w, eof) = WithLine(<< >>, l, eof)
    BY <1>5, <1>6, GivenJoin, GivenOne
  <1>8. PICK g \in Seq(L) : g = Given(a, eof)
    <2>1. PICK f : GivenBy(f, a, eof, L)
      BY GivenAdd
    <2>2. Len(a) \in 0..Len(a)
      OBVIOUS
    <2> QED
      BY <2>1, <2>2 DEF GivenBy
  <1>9. g \o WithLine(<< >>, l, eof) = WithLine(g, l, eof)
    <2>1. PICK e : e = << >> /\ e \in Seq(L)
      BY EmptySeq
    <2>2. JoinAppend(g, e, l) /\ g \o e = g
      BY <1>5, <2>1, AppendAfter, ConcatEmptySeq
    <2> QED
      BY <2>1, <2>2 DEF WithLine, JoinAppend
  <1>10. Given(Lines(c), eof) = WithLine(g, l, eof)
    BY <1>4, <1>6, <1>7, <1>8, <1>9 DEF JoinGiven
  <1>11. Ended(l) => Whole(c)
    <2>1. PICK f \in Seq(SockPiece), p \in SockPiece : l = Append(f, p)
      BY SequenceEmptyOrAppend
    <2>2. PICK d \in Seq(SockPiece) : d = h \o f
      BY ConcatProperties
    <2>3. JoinAppend(h, f, p)
      BY AppendAfter
    <2>4. c = Append(d, p)
      BY <1>3, <2>1, <2>2, <2>3 DEF JoinAppend
    <2>5. AppendParts(SockPiece, f, p, l) /\ AppendParts(SockPiece, d, p, c)
      BY <2>1, <2>4, PartsOfAppend
    <2> QED
      BY <2>5 DEF AppendParts, Whole, Ended
  <1>12. LastRead(Lines(c)) = l
    <2>1. PICK d \in Seq(L) : d = Append(a, l)
      BY <1>2, <1>5, AppendProperties
    <2>2. Lines(c) = d
      <3>1. PICK e : e = << >> /\ e \in Seq(L) /\ a \o e = a
        BY <1>2, EmptySeq, ConcatEmptySeq
      <3>2. JoinAppend(a, e, l)
        BY <1>2, <1>5, <3>1, AppendAfter
      <3>3. Append(e, l) = <<l>>
        BY <3>1
      <3> QED
        BY <1>4, <2>1, <3>1, <3>2, <3>3 DEF JoinAppend
    <2>3. d # << >> /\ Last(d) = l
      <3>1. PICK n \in Nat : n = Len(a) /\ Len(d) = n + 1 /\ d[n + 1] = l
        BY <1>5, <2>1, AppendProperties
      <3> QED
        BY <3>1, EmptySeq DEF Last
    <2> QED
      BY <2>2, <2>3 DEF LastRead
  <1> QED
    BY <1>2, <1>3, <1>8, <1>10, <1>11, <1>12 DEF TakesLine

\* An end whose handler or thread has taken a line that is ended
LEMMA EndAfterLine ==
  ASSUME NEW y, LineEnd(y), y.reader = "reading", y.input # << >>, Ended(FirstLine(y.input)),
         NEW x, x.sent = y.sent, x.input = AfterLine(y.input), x.reader = "reading", x.got = WithLine(y.got, FirstLine(y.input), FALSE),
         x.buffer = FirstLine(y.input)
  PROVE  LineEnd(x)
  <1>1. PICK h : Behind(h, y)
    BY DEF LineEnd
  <1>2. PICK i \in Seq(SockPiece) : i = y.input /\ i # << >>
    BY DEF LineEnd
  <1>3. PICK l, r : l = FirstLine(i) /\ r = AfterLine(i)
    OBVIOUS
  <1>4. LineParts(SockPiece, i, l, r)
    BY <1>2, <1>3, FirstLineIs
  <1>5. l \in Seq(SockPiece) /\ l # << >> /\ r \in Seq(SockPiece) /\ i = l \o r /\ \A j \in 1..(Len(l) - 1) : ~l[j].newline
    BY <1>4 DEF LineParts
  <1>6. h \in Seq(SockPiece) /\ y.sent = h \o i /\ Whole(h) /\ y.got = Given(Lines(h), FALSE) /\ y.got = Given(Lines(h), TRUE)
    BY <1>1, <1>2 DEF Behind
  <1>7. PICK c \in Seq(SockPiece) : c = h \o l
    BY <1>5, <1>6, ConcatProperties
  <1>8. y.sent = c \o r
    <2>1. (h \o l) \o r = h \o (l \o r)
      BY <1>5, <1>6, ConcatAssociative
    <2> QED
      BY <1>5, <1>6, <1>7, <2>1
  <1>9. Ended(l) /\ Whole(c)
    BY <1>2, <1>3, <1>5, <1>6, <1>7, LineTaken
  <1>10. Given(Lines(c), FALSE) = WithLine(y.got, l, FALSE) /\ Given(Lines(c), TRUE) = WithLine(y.got, l, TRUE)
    <2>1. TakesLine(h, l, FALSE) /\ TakesLine(h, l, TRUE)
      BY <1>5, <1>6, LineTaken
    <2> QED
      BY <1>6, <1>7, <2>1 DEF TakesLine
  <1>11. WithLine(y.got, l, TRUE) = WithLine(y.got, l, FALSE)
    BY <1>9 DEF WithLine
  <1>12. x.got = WithLine(y.got, l, FALSE) /\ x.sent = c \o r /\ x.input = r /\ x.buffer = LastRead(Lines(c))
    <2>1. LastRead(Lines(c)) = l
      BY <1>5, <1>6, <1>7, LineTaken
    <2> QED
      BY <1>2, <1>3, <1>8, <2>1
  <1>13. Behind(c, x)
    BY <1>9, <1>10, <1>11, <1>12 DEF Behind
  <1>14. x.sent \in Seq(SockPiece) /\ x.input \in Seq(SockPiece)
    BY <1>5, <1>12 DEF LineEnd
  <1> QED
    BY <1>13, <1>14 DEF LineEnd

\* An end whose handler was given the beginning of a line, at the end of the file
LEMMA EndAfterPartial ==
  ASSUME NEW y, LineEnd(y), y.reader = "reading", y.input # << >>, ~Ended(FirstLine(y.input)),
         NEW x, x.sent = y.sent, x.input = << >>, x.reader = "done", x.got = Append(y.got, FirstLine(y.input))
  PROVE  LineEnd(x)
  <1>1. PICK h : Behind(h, y)
    BY DEF LineEnd
  <1>2. PICK i \in Seq(SockPiece) : i = y.input /\ i # << >>
    BY DEF LineEnd
  <1>3. LineParts(SockPiece, i, FirstLine(i), AfterLine(i))
    BY <1>2, FirstLineIs
  <1>4. (\A j \in 1..(Len(i) - 1) : ~i[j].newline) /\ ~Ended(i) /\ FirstLine(i) = i
    BY <1>2, <1>3 DEF LineParts
  <1>5. h \in Seq(SockPiece) /\ y.sent = h \o i /\ Whole(h) /\ y.got = Given(Lines(h), TRUE)
    BY <1>1, <1>2 DEF Behind
  <1>6. Given(Lines(y.sent), TRUE) = WithLine(y.got, i, TRUE)
    <2>1. TakesLine(h, i, TRUE)
      BY <1>2, <1>4, <1>5, LineTaken
    <2> QED
      BY <1>5, <2>1 DEF TakesLine
  <1>7. WithLine(y.got, i, TRUE) = Append(y.got, i)
    BY <1>4 DEF WithLine
  <1>8. x.sent \in Seq(SockPiece) /\ x.input \in Seq(SockPiece)
    BY EmptySeq DEF LineEnd
  <1> QED
    BY <1>2, <1>4, <1>6, <1>7, <1>8 DEF LineEnd, AllGiven

\* An end that has read everything, or whose reading failed
LEMMA EndAfterLast ==
  ASSUME NEW y, LineEnd(y), y.reader = "reading",
         NEW x, x.sent = y.sent, x.input = y.input, x.reader = "done",
         \/ y.input = << >> /\ (x.got = y.got \/ x.got = Append(y.got, y.buffer))
         \/ x.broken
  PROVE  LineEnd(x)
  <1>1. PICK h : Behind(h, y)
    BY DEF LineEnd
  <1>2. h \in Seq(SockPiece) /\ Whole(h) /\ y.sent = h \o y.input /\ y.got = Given(Lines(h), TRUE) /\ y.buffer = LastRead(Lines(h))
    BY <1>1 DEF Behind
  <1>3. y.input = << >> => y.sent = h
    BY <1>2, ConcatEmptySeq
  <1>4. Lines(h) = << >> \/ Ended(Last(Lines(h)))
    BY <1>2, WholeLines
  <1>5. ~x.broken => AllGiven(Lines(x.sent), x.got)
    BY <1>2, <1>3, <1>4 DEF AllGiven
  <1> QED
    BY <1>5 DEF LineEnd

\* An end to which a piece was written
LEMMA EndAfterPiece ==
  ASSUME NEW y, LineEnd(y), y.reader # "done", NEW p \in SockPiece,
         NEW x, x.sent = Append(y.sent, p), x.input = Append(y.input, p), x.reader = y.reader, x.got = y.got, x.buffer = y.buffer
  PROVE  LineEnd(x)
  <1>1. PICK i \in Seq(SockPiece) : i = y.input
    BY DEF LineEnd
  <1>2. x.sent \in Seq(SockPiece) /\ x.input \in Seq(SockPiece)
    BY AppendProperties DEF LineEnd
  <1>3. ASSUME NEW h, Behind(h, y) PROVE Behind(h, x)
    <2>1. h \in Seq(SockPiece) /\ y.sent = h \o i
      BY <1>1, <1>3 DEF Behind
    <2>2. JoinAppend(h, i, p)
      BY <2>1, AppendAfter
    <2>3. x.sent = h \o x.input
      BY <1>1, <2>1, <2>2 DEF JoinAppend
    <2> QED
      BY <1>3, <2>3 DEF Behind
  <1> QED
    BY <1>2, <1>3 DEF LineEnd

\* An end of which only the rest changes
LEMMA EndElsewhere ==
  ASSUME NEW y, LineEnd(y), NEW x, x.sent = y.sent, x.input = y.input, x.got = y.got, x.buffer = y.buffer, x.broken = y.broken,
         \/ x.reader = y.reader
         \/ y.reader \in {"none", "reading"} /\ x.reader = "reading"
         \/ x.reader = "killed"
  PROVE  LineEnd(x)
  <1>1. \A h : Behind(h, y) => Behind(h, x)
    BY DEF Behind
  <1> QED
    BY <1>1 DEF LineEnd

\* What the invariant of an end says of its handler
LEMMA EndHandled ==
  ASSUME NEW y, LineEnd(y), y.reader \in {"none", "reading"}
  PROVE  Given(Lines(y.sent), FALSE) = y.got \o Given(Lines(y.input), FALSE)
  <1>1. PICK h : Behind(h, y)
    BY DEF LineEnd
  <1>2. PICK i \in Seq(SockPiece) : i = y.input
    BY DEF LineEnd
  <1>3. h \in Seq(SockPiece) /\ y.sent = h \o i /\ Whole(h) /\ y.got = Given(Lines(h), FALSE)
    BY <1>1, <1>2 DEF Behind
  <1>4. PICK L : L = Seq(SockPiece)
    OBVIOUS
  <1>5. PICK a \in Seq(L) : a = Lines(h)
    BY <1>3, <1>4, WholeLines
  <1>6. PICK b \in Seq(L) : b = Lines(i)
    <2>1. \A p \in SockPiece : LinesOf(L, p)
      BY <1>4, PieceFits
    <2>2. PICK f : LinesBy(f, i, L)
      BY <2>1, LinesAdd
    <2>3. Len(i) \in 0..Len(i)
      OBVIOUS
    <2> QED
      BY <2>2, <2>3 DEF LinesBy
  <1>7. JoinLines(h, i) /\ JoinGiven(a, b, FALSE)
    BY <1>3, LinesJoin, GivenJoin
  <1> QED
    BY <1>2, <1>3, <1>5, <1>6, <1>7 DEF JoinLines, JoinGiven

-----------------------------------------------------------------------------
(* Sockets: the steps *)

\* A connection that the server's thread has still to give a reading thread
Awaited(q, v, k) == (\E i \in 1..Len(q) : q[i] = k) \/ (v.does \in {"handler", "run"} /\ v.conn = k)

\* Only a server that has ended closes its ends.
ServesOn(s, v) == \A k \in SockConn : s[Serving(k)].state = "closed" => v.does = "ended"

\* A connection that nobody made has no threads, and the server knows nothing of it.
NoneIdle(s, q, v) ==
  \A k \in SockConn : s[Client(k)].state = "none" =>
    s[Client(k)].reader = "none" /\ s[Serving(k)].reader = "none" /\ ~Awaited(q, v, k)

\* One that is awaited has no thread at the server.
AwaitedIdle(s, q, v) == \A k \in SockConn : Awaited(q, v, k) => s[Serving(k)].reader = "none"

\* It is awaited once.
WaitsDiffer(q) == \A i, j \in 1..Len(q) : q[i] = q[j] => i = j

ConnTaken(q, v) == v.does \in {"handler", "run"} => \A i \in 1..Len(q) : q[i] # v.conn

WaitsOnce(s, q, v) ==
  /\ ServesOn(s, v) /\ NoneIdle(s, q, v) /\ AwaitedIdle(s, q, v)
  /\ WaitsDiffer(q) /\ ConnTaken(q, v)

EndsInv(s) == \A e \in SockEnds : LineEnd(s[e]) /\ (s[e].reader = "done" => s[Peer(e)].state = "closed")

SockLineInv == EndsInv(sockEnd) /\ WaitsOnce(sockEnd, sockPending, sockServer)

\* The ends of connections are different from each other.
LEMMA EndsDiffer ==
  /\ \A j, k \in SockConn : Client(j) # Serving(k) /\ (Client(j) = Client(k) => j = k) /\ (Serving(j) = Serving(k) => j = k)
  /\ \A k \in SockConn : Peer(Client(k)) = Serving(k) /\ Peer(Serving(k)) = Client(k)
  /\ \A e \in SockEnds : \E k \in SockConn : e = Client(k) \/ e = Serving(k)
  <1>1. \A j, k \in SockConn : Client(j) # Serving(k) /\ (Client(j) = Client(k) => j = k) /\ (Serving(j) = Serving(k) => j = k)
    BY DEF Client, Serving
  <1>2. \A k \in SockConn : Peer(Client(k)) = Serving(k) /\ Peer(Serving(k)) = Client(k)
    BY DEF Client, Serving, Peer
  <1>3. \A e \in SockEnds : \E k \in SockConn : e = Client(k) \/ e = Serving(k)
    BY DEF Client, Serving, SockEnds
  <1> QED
    BY <1>1, <1>2, <1>3

\* The peer of an end
LEMMA PeersAre == \A e \in SockEnds : Peer(e) \in SockEnds /\ Peer(e) # e /\ Peer(Peer(e)) = e
  <1> SUFFICES ASSUME NEW e \in SockEnds PROVE Peer(e) \in SockEnds /\ Peer(e) # e /\ Peer(Peer(e)) = e
    OBVIOUS
  <1>1. PICK k \in SockConn : e = Client(k) \/ e = Serving(k)
    BY EndsDiffer
  <1> QED
    BY <1>1, EndsDiffer, EndsAre

\* One end changes.
Changes(s, c, x) == [s EXCEPT ![c] = x]

\* The other ends stay as they are.
LEMMA ChangedEnd ==
  ASSUME NEW s, s = [e \in SockEnds |-> s[e]], NEW c \in SockEnds, NEW x, NEW r, r = Changes(s, c, x)
  PROVE  r[c] = x /\ \A e \in SockEnds : e # c => r[e] = s[e]
  BY DEF Changes

\* The lines, when one end changes
LEMMA EndsKept ==
  ASSUME NEW s, s = [e \in SockEnds |-> s[e]], EndsInv(s), NEW c \in SockEnds, NEW x, NEW r, r = Changes(s, c, x), LineEnd(x),
         s[c].state = "closed" => x.state = "closed", x.reader = "done" => s[Peer(c)].state = "closed"
  PROVE  EndsInv(r)
  <1>1. r[c] = x /\ \A e \in SockEnds : e # c => r[e] = s[e]
    BY ChangedEnd
  <1>2. ASSUME NEW e \in SockEnds PROVE LineEnd(r[e]) /\ (r[e].reader = "done" => r[Peer(e)].state = "closed")
    <2>1. Peer(e) \in SockEnds /\ Peer(e) # e /\ Peer(Peer(e)) = e
      BY PeersAre
    <2>2. CASE e = c
      <3>1. r[e] = x /\ r[Peer(e)] = s[Peer(c)]
        BY <1>1, <2>1, <2>2
      <3> QED
        BY <3>1
    <2>3. CASE e # c
      <3>1. r[e] = s[e] /\ LineEnd(s[e]) /\ (s[e].reader = "done" => s[Peer(e)].state = "closed")
        BY <1>1, <2>3 DEF EndsInv
      <3>2. Peer(e) = c => r[Peer(e)] = x
        BY <1>1
      <3>3. Peer(e) # c => r[Peer(e)] = s[Peer(e)]
        BY <1>1, <2>1
      <3> QED
        BY <3>1, <3>2, <3>3
    <2> QED
      BY <2>2, <2>3
  <1> QED
    BY <1>2 DEF EndsInv

\* Nothing waits, when an end changes that has been none and has no thread
LEMMA WaitsKept ==
  ASSUME NEW s, s = [e \in SockEnds |-> s[e]], NEW q, NEW v, WaitsOnce(s, q, v), NEW c \in SockEnds, NEW x, NEW r, r = Changes(s, c, x),
         x.state = s[c].state, s[c].reader = "none" => x.reader = "none"
  PROVE  WaitsOnce(r, q, v)
  <1>1. r[c] = x /\ \A e \in SockEnds : e # c => r[e] = s[e]
    BY ChangedEnd
  <1>2. \A e \in SockEnds : r[e].state = s[e].state /\ (s[e].reader = "none" => r[e].reader = "none")
    BY <1>1
  <1>3. \A k \in SockConn : Client(k) \in SockEnds /\ Serving(k) \in SockEnds
    BY EndsAre
  <1> QED
    BY <1>2, <1>3 DEF WaitsOnce, ServesOn, NoneIdle, AwaitedIdle

\* The steps of a client
LEMMA ClientLineSteps ==
  ASSUME SockDataInv, SockLineInv, NEW k \in SockConn,
         sock_connect(k) \/ ConnectFails(k) \/ ConnectWithoutThread(k) \/ sock_disconnect(k) \/ ClientEnds(k)
  PROVE  SockLineInv'
  <1>1. PICK c \in SockEnds : c = Client(k)
    BY EndsAre
  <1>2. PICK s : s = sockEnd /\ s = [e \in SockEnds |-> s[e]] /\ EndsInv(s)
    BY DEF SockDataInv, SockLineInv
  <1>3. PICK y : y = s[c] /\ EndShape(y) /\ LineEnd(y) /\ (y.reader = "done" => s[Peer(c)].state = "closed")
    BY <1>2 DEF SockDataInv, GoodEnd, EndsInv
  <1>4. PICK q \in Seq(SockConn) : q = sockPending
    BY DEF SockDataInv
  <1>5. PICK v : v = sockServer /\ WaitsOnce(s, q, v) /\ sockServer' = v
    BY <1>2, <1>4 DEF SockLineInv, sock_connect, ConnectFails, ConnectWithoutThread, sock_disconnect, ClientEnds
  <1>6. y.state = "none" => y.reader = "none" /\ s[Serving(k)].reader = "none" /\ ~Awaited(q, v, k)
    BY <1>1, <1>3, <1>5 DEF WaitsOnce, NoneIdle
  <1>7. \E x : /\ sockEnd' = Changes(s, c, x)
               /\ x.sent = y.sent /\ x.input = y.input /\ x.got = y.got /\ x.buffer = y.buffer /\ x.broken = y.broken
               /\ y.state # "closed" /\ x.state # "none"
               /\ \/ x.reader = y.reader
                  \/ y.reader = "none" /\ x.reader = "reading"
                  \/ x.reader = "killed" /\ y.reader = "reading"
               /\ (sockPending' = q \/ (y.state = "none" /\ sockPending' = Append(q, k)))
    <2>1. CASE sock_connect(k)
      <3>1. PICK x : x = [y EXCEPT !.state = "open", !.data = TRUE, !.reader = "reading"]
        OBVIOUS
      <3>2. sockEnd' = Changes(s, c, x) /\ y.state = "none" /\ sockPending' = Append(q, k)
        BY <1>1, <1>2, <1>3, <1>4, <2>1, <3>1 DEF sock_connect, Changes
      <3>3. /\ x.sent = y.sent /\ x.input = y.input /\ x.got = y.got /\ x.buffer = y.buffer /\ x.broken = y.broken /\ x.state = "open" /\ x.reader = "reading"
        BY <1>3, <3>1 DEF EndShape
      <3> QED
        BY <1>6, <3>2, <3>3
    <2>2. CASE ConnectFails(k)
      <3>1. PICK x : x = [y EXCEPT !.state = "failed"]
        OBVIOUS
      <3>2. sockEnd' = Changes(s, c, x) /\ y.state = "none" /\ sockPending' = q
        BY <1>1, <1>2, <1>3, <1>4, <2>2, <3>1 DEF ConnectFails, Changes
      <3>3. /\ x.sent = y.sent /\ x.input = y.input /\ x.got = y.got /\ x.buffer = y.buffer /\ x.broken = y.broken /\ x.state = "failed" /\ x.reader = y.reader
        BY <1>3, <3>1 DEF EndShape
      <3> QED
        BY <3>2, <3>3
    <2>3. CASE ConnectWithoutThread(k)
      <3>1. PICK x : x = [y EXCEPT !.state = "closed"]
        OBVIOUS
      <3>2. sockEnd' = Changes(s, c, x) /\ y.state = "none" /\ sockPending' = Append(q, k)
        BY <1>1, <1>2, <1>3, <1>4, <2>3, <3>1 DEF ConnectWithoutThread, Changes
      <3>3. /\ x.sent = y.sent /\ x.input = y.input /\ x.got = y.got /\ x.buffer = y.buffer /\ x.broken = y.broken /\ x.state = "closed" /\ x.reader = y.reader
        BY <1>3, <3>1 DEF EndShape
      <3> QED
        BY <3>2, <3>3
    <2>4. CASE sock_disconnect(k)
      <3>1. PICK x : x = [y EXCEPT !.state = "closed", !.freed = @ \/ y.reader = "reading"]
        OBVIOUS
      <3>2. sockEnd' = Changes(s, c, x) /\ y.state = "open" /\ sockPending' = q
        BY <1>1, <1>2, <1>3, <1>4, <2>4, <3>1 DEF sock_disconnect, Changes
      <3>3. /\ x.sent = y.sent /\ x.input = y.input /\ x.got = y.got /\ x.buffer = y.buffer /\ x.broken = y.broken /\ x.state = "closed" /\ x.reader = y.reader
        BY <1>3, <3>1 DEF EndShape
      <3> QED
        BY <3>2, <3>3
    <2>5. CASE ClientEnds(k)
      <3>1. PICK x : x = [y EXCEPT !.state = "closed", !.reader = IF @ = "reading" THEN "killed" ELSE @]
        OBVIOUS
      <3>2. sockEnd' = Changes(s, c, x) /\ y.state = "open" /\ sockPending' = q
        BY <1>1, <1>2, <1>3, <1>4, <2>5, <3>1 DEF ClientEnds, Changes
      <3>3. /\ x.sent = y.sent /\ x.input = y.input /\ x.got = y.got /\ x.buffer = y.buffer /\ x.broken = y.broken /\ x.state = "closed"
            /\ x.reader = IF y.reader = "reading" THEN "killed" ELSE y.reader
        BY <1>3, <3>1 DEF EndShape
      <3> QED
        BY <3>2, <3>3
    <2> QED
      BY <2>1, <2>2, <2>3, <2>4, <2>5
  <1>8. PICK x : /\ sockEnd' = Changes(s, c, x)
                 /\ x.sent = y.sent /\ x.input = y.input /\ x.got = y.got /\ x.buffer = y.buffer /\ x.broken = y.broken
                 /\ y.state # "closed" /\ x.state # "none"
                 /\ \/ x.reader = y.reader
                    \/ y.reader = "none" /\ x.reader = "reading"
                    \/ x.reader = "killed" /\ y.reader = "reading"
                 /\ (sockPending' = q \/ (y.state = "none" /\ sockPending' = Append(q, k)))
    BY <1>7
  <1>9. PICK r, p : r = sockEnd' /\ p = sockPending'
    OBVIOUS
  <1>10. LineEnd(x)
    BY <1>3, <1>8, EndElsewhere
  <1>11. EndsInv(r)
    BY <1>2, <1>3, <1>8, <1>9, <1>10, EndsKept
  <1>12. r[c] = x /\ \A e \in SockEnds : e # c => r[e] = s[e]
    BY <1>2, <1>8, <1>9, ChangedEnd
  <1>13. /\ \A j \in SockConn : r[Serving(j)] = s[Serving(j)]
         /\ \A j \in SockConn : j # k => r[Client(j)] = s[Client(j)]
         /\ r[Client(k)] = x
    BY <1>1, <1>12, EndsDiffer, EndsAre
  <1>14. ASSUME p = q PROVE WaitsOnce(r, p, v)
    <2>1. ServesOn(r, v)
      BY <1>5, <1>13 DEF WaitsOnce, ServesOn
    <2>2. NoneIdle(r, q, v)
      BY <1>5, <1>8, <1>13 DEF WaitsOnce, NoneIdle
    <2>3. AwaitedIdle(r, q, v)
      BY <1>5, <1>13 DEF WaitsOnce, AwaitedIdle
    <2> QED
      BY <1>5, <1>14, <2>1, <2>2, <2>3 DEF WaitsOnce
  <1>15. ASSUME y.state = "none" /\ p = Append(q, k) PROVE WaitsOnce(r, p, v)
    <2>1. PICK n \in Nat : n = Len(q)
      OBVIOUS
    <2>2. Len(p) = n + 1 /\ p[n + 1] = k /\ \A i \in 1..n : p[i] = q[i]
      BY <1>15, <2>1, AppendProperties
    <2>3. ~Awaited(q, v, k) /\ s[Serving(k)].reader = "none"
      BY <1>6, <1>15
    <2>4. \A i \in 1..(n + 1) : i \in 1..n \/ i = n + 1
      OBVIOUS
    <2>5. \A j \in SockConn : Awaited(p, v, j) => j = k \/ Awaited(q, v, j)
      BY <2>1, <2>2, <2>4 DEF Awaited
    <2>6. \A i \in 1..n : q[i] # k
      BY <2>1, <2>3 DEF Awaited
    <2>7. WaitsDiffer(p)
      BY <1>5, <2>1, <2>2, <2>4, <2>6 DEF WaitsOnce, WaitsDiffer
    <2>8. ConnTaken(p, v)
      BY <1>5, <2>1, <2>2, <2>3, <2>4 DEF WaitsOnce, ConnTaken, Awaited
    <2>9. AwaitedIdle(r, p, v)
      BY <1>5, <1>13, <2>3, <2>5 DEF WaitsOnce, AwaitedIdle
    <2>10. NoneIdle(r, p, v)
      BY <1>5, <1>8, <1>13, <2>5 DEF WaitsOnce, NoneIdle
    <2>11. ServesOn(r, v)
      BY <1>5, <1>13 DEF WaitsOnce, ServesOn
    <2> QED
      BY <2>7, <2>8, <2>9, <2>10, <2>11 DEF WaitsOnce
  <1>16. WaitsOnce(r, p, v)
    BY <1>8, <1>9, <1>14, <1>15
  <1> QED
    BY <1>5, <1>9, <1>11, <1>16 DEF SockLineInv

\* The steps of the server's thread
LEMMA ServerLineSteps ==
  ASSUME SockDataInv, SockLineInv, ServerAccept \/ sock_setUserData \/ ServerRunThread
  PROVE  SockLineInv'
  <1>1. PICK s : s = sockEnd /\ s = [e \in SockEnds |-> s[e]] /\ EndsInv(s)
    BY DEF SockDataInv, SockLineInv
  <1>2. PICK q \in Seq(SockConn) : q = sockPending
    BY DEF SockDataInv
  <1>3. PICK v : v = sockServer /\ WaitsOnce(s, q, v) /\ GoodServer(v)
    BY <1>1, <1>2 DEF SockLineInv, SockDataInv
  <1>4. PICK r, p, w : r = sockEnd' /\ p = sockPending' /\ w = sockServer'
    OBVIOUS
  <1>5. CASE ServerAccept
    <2>1. PICK k, n : k = Head(q) /\ n = Len(q)
      OBVIOUS
    <2>2. v.does = "accept" /\ q # << >> /\ p = Tail(q) /\ w = [does |-> "handler", conn |-> k]
      BY <1>2, <1>3, <1>4, <1>5, <2>1 DEF ServerAccept
    <2>3. k \in SockConn /\ n \in Nat \ {0} /\ k = q[1] /\ Len(p) = n - 1 /\ \A i \in 1..(n - 1) : p[i] = q[i + 1]
      BY <2>1, <2>2
    <2>4. PICK c \in SockEnds : c = Serving(k)
      BY <2>3, EndsAre
    <2>5. PICK y : y = s[c] /\ EndShape(y) /\ LineEnd(y) /\ (y.reader = "done" => s[Peer(c)].state = "closed")
      BY <1>1 DEF SockDataInv, GoodEnd, EndsInv
    <2>6. PICK x : x = [y EXCEPT !.state = "open"]
      OBVIOUS
    <2>7. r = Changes(s, c, x)
      BY <1>1, <1>2, <1>4, <1>5, <2>1, <2>4, <2>5, <2>6 DEF ServerAccept, Changes
    <2>8. x.sent = y.sent /\ x.input = y.input /\ x.got = y.got /\ x.buffer = y.buffer /\ x.broken = y.broken /\ x.state = "open" /\ x.reader = y.reader
      BY <2>5, <2>6 DEF EndShape
    <2>9. LineEnd(x)
      BY <2>5, <2>8, EndElsewhere
    <2>10. y.state # "closed"
      BY <1>3, <2>2, <2>3, <2>4, <2>5 DEF WaitsOnce, ServesOn
    <2>11. EndsInv(r)
      BY <1>1, <2>5, <2>7, <2>8, <2>9, <2>10, EndsKept
    <2>12. r[c] = x /\ \A e \in SockEnds : e # c => r[e] = s[e]
      BY <1>1, <2>7, ChangedEnd
    <2>13. /\ \A j \in SockConn : r[Client(j)] = s[Client(j)]
           /\ \A j \in SockConn : r[Serving(j)].reader = s[Serving(j)].reader
           /\ \A j \in SockConn : r[Serving(j)].state = "closed" => s[Serving(j)].state = "closed"
      BY <2>3, <2>4, <2>5, <2>8, <2>12, EndsDiffer, EndsAre
    <2>14. w.does = "handler" /\ w.conn = k
      BY <2>2
    <2>15. \A i \in 1..(n - 1) : i + 1 \in 1..n /\ i + 1 # 1
      BY <2>3
    <2>16. \A j \in SockConn : Awaited(p, w, j) => Awaited(q, v, j)
      <3>1. 1 \in 1..Len(q) /\ q[1] = k
        BY <2>1, <2>3
      <3>2. \A i \in 1..Len(p) : i + 1 \in 1..Len(q) /\ q[i + 1] = p[i]
        BY <2>1, <2>3, <2>15
      <3> QED
        BY <2>14, <3>1, <3>2 DEF Awaited
    <2>17. ServesOn(r, w)
      BY <1>3, <2>2, <2>13 DEF WaitsOnce, ServesOn
    <2>18. NoneIdle(r, p, w)
      BY <1>3, <2>13, <2>16 DEF WaitsOnce, NoneIdle
    <2>19. AwaitedIdle(r, p, w)
      BY <1>3, <2>13, <2>16 DEF WaitsOnce, AwaitedIdle
    <2>20. WaitsDiffer(p)
      <3>1. WaitsDiffer(q)
        BY <1>3 DEF WaitsOnce
      <3> SUFFICES ASSUME NEW i \in 1..(n - 1), NEW j \in 1..(n - 1), p[i] = p[j] PROVE i = j
        BY <2>3 DEF WaitsDiffer
      <3>2. q[i + 1] = q[j + 1] /\ i + 1 \in 1..Len(q) /\ j + 1 \in 1..Len(q)
        BY <2>1, <2>3, <2>15
      <3>3. i + 1 = j + 1
        BY <3>1, <3>2 DEF WaitsDiffer
      <3> QED
        BY <2>3, <3>3
    <2>21. ConnTaken(p, w)
      <3>1. WaitsDiffer(q)
        BY <1>3 DEF WaitsOnce
      <3>2. 1 \in 1..Len(q) /\ \A i \in 1..(n - 1) : i + 1 \in 1..Len(q) /\ i + 1 # 1
        BY <2>1, <2>3, <2>15
      <3>3. \A i \in 1..(n - 1) : q[i + 1] # q[1]
        BY <3>1, <3>2 DEF WaitsDiffer
      <3> QED
        BY <2>3, <2>14, <3>3 DEF ConnTaken
    <2> QED
      BY <1>4, <2>11, <2>17, <2>18, <2>19, <2>20, <2>21 DEF SockLineInv, WaitsOnce
  <1>6. CASE sock_setUserData
    <2>1. PICK k \in SockConn : k = v.conn
      BY <1>3, <1>6 DEF GoodServer, sock_setUserData
    <2>2. v.does = "handler" /\ p = q /\ w = [does |-> "run", conn |-> k]
      BY <1>2, <1>3, <1>4, <1>6, <2>1 DEF sock_setUserData, GoodServer
    <2>3. PICK c \in SockEnds : c = Serving(k)
      BY EndsAre
    <2>4. PICK y : y = s[c] /\ EndShape(y) /\ LineEnd(y) /\ (y.reader = "done" => s[Peer(c)].state = "closed")
      BY <1>1 DEF SockDataInv, GoodEnd, EndsInv
    <2>5. PICK x : x = [y EXCEPT !.data = TRUE]
      OBVIOUS
    <2>6. r = Changes(s, c, x)
      BY <1>1, <1>3, <1>4, <1>6, <2>1, <2>3, <2>4, <2>5 DEF sock_setUserData, Changes
    <2>7. x.sent = y.sent /\ x.input = y.input /\ x.got = y.got /\ x.buffer = y.buffer /\ x.broken = y.broken /\ x.state = y.state /\ x.reader = y.reader
      BY <2>4, <2>5 DEF EndShape
    <2>8. LineEnd(x)
      BY <2>4, <2>7, EndElsewhere
    <2>9. EndsInv(r)
      BY <1>1, <2>4, <2>6, <2>7, <2>8, EndsKept
    <2>10. WaitsOnce(r, q, v)
      BY <1>1, <1>3, <2>4, <2>6, <2>7, WaitsKept
    <2>11. w.does = "run" /\ w.conn = v.conn
      BY <2>1, <2>2
    <2>12. \A j : Awaited(q, w, j) <=> Awaited(q, v, j)
      BY <2>2, <2>11 DEF Awaited
    <2>13. ServesOn(r, w)
      BY <2>2, <2>10, <2>11 DEF WaitsOnce, ServesOn
    <2>14. NoneIdle(r, q, w) /\ AwaitedIdle(r, q, w)
      BY <2>10, <2>12 DEF WaitsOnce, NoneIdle, AwaitedIdle
    <2>15. ConnTaken(q, w) /\ WaitsDiffer(q)
      BY <2>2, <2>10, <2>11 DEF WaitsOnce, ConnTaken
    <2> QED
      BY <1>4, <2>2, <2>9, <2>13, <2>14, <2>15 DEF SockLineInv, WaitsOnce
  <1>7. CASE ServerRunThread
    <2>1. PICK k \in SockConn : k = v.conn
      BY <1>3, <1>7 DEF GoodServer, ServerRunThread
    <2>2. v.does = "run" /\ p = q /\ w = [does |-> "accept", conn |-> k]
      BY <1>2, <1>3, <1>4, <1>7, <2>1 DEF ServerRunThread, GoodServer
    <2>3. PICK c \in SockEnds : c = Serving(k)
      BY EndsAre
    <2>4. PICK y : y = s[c] /\ EndShape(y) /\ LineEnd(y)
      BY <1>1 DEF SockDataInv, GoodEnd, EndsInv
    <2>5. Awaited(q, v, k)
      BY <2>1, <2>2 DEF Awaited
    <2>6. y.reader = "none" /\ s[Client(k)].state # "none"
      BY <1>3, <2>3, <2>4, <2>5 DEF WaitsOnce, AwaitedIdle, NoneIdle
    <2>7. PICK x : x = [y EXCEPT !.reader = "reading"]
      OBVIOUS
    <2>8. r = Changes(s, c, x)
      BY <1>1, <1>3, <1>4, <1>7, <2>1, <2>3, <2>4, <2>7 DEF ServerRunThread, Changes
    <2>9. x.sent = y.sent /\ x.input = y.input /\ x.got = y.got /\ x.buffer = y.buffer /\ x.broken = y.broken /\ x.state = y.state /\ x.reader = "reading"
      BY <2>4, <2>7 DEF EndShape
    <2>10. LineEnd(x)
      BY <2>4, <2>6, <2>9, EndElsewhere
    <2>11. EndsInv(r)
      BY <1>1, <2>4, <2>8, <2>9, <2>10, EndsKept
    <2>12. r[c] = x /\ \A e \in SockEnds : e # c => r[e] = s[e]
      BY <1>1, <2>8, ChangedEnd
    <2>13. /\ \A j \in SockConn : r[Client(j)] = s[Client(j)] /\ r[Serving(j)].state = s[Serving(j)].state
           /\ \A j \in SockConn : j # k => r[Serving(j)] = s[Serving(j)]
      BY <2>3, <2>4, <2>9, <2>12, EndsDiffer, EndsAre
    <2>14. w.does = "accept"
      BY <2>2
    <2>15. \A j \in SockConn : Awaited(q, w, j) => Awaited(q, v, j) /\ j # k
      BY <1>3, <2>1, <2>2, <2>14 DEF Awaited, WaitsOnce, ConnTaken
    <2>16. ServesOn(r, w)
      BY <1>3, <2>2, <2>13, <2>14 DEF WaitsOnce, ServesOn
    <2>17. NoneIdle(r, q, w)
      BY <1>3, <2>6, <2>13, <2>15 DEF WaitsOnce, NoneIdle
    <2>18. AwaitedIdle(r, q, w)
      BY <1>3, <2>13, <2>15 DEF WaitsOnce, AwaitedIdle
    <2>19. ConnTaken(q, w) /\ WaitsDiffer(q)
      BY <1>3, <2>14 DEF WaitsOnce, ConnTaken
    <2> QED
      BY <1>4, <2>2, <2>11, <2>16, <2>17, <2>18, <2>19 DEF SockLineInv, WaitsOnce
  <1> QED
    BY <1>5, <1>6, <1>7

\* The end of the server's process
LEMMA ServerEndLines ==
  ASSUME SockDataInv, SockLineInv, ServerEnds
  PROVE  SockLineInv'
  <1>1. PICK s : s = sockEnd /\ s = [e \in SockEnds |-> s[e]] /\ EndsInv(s)
    BY DEF SockDataInv, SockLineInv
  <1>2. PICK r, p, w : r = sockEnd' /\ p = sockPending' /\ w = sockServer'
    OBVIOUS
  <1>3. NoneIdle(s, sockPending, sockServer)
    BY <1>1 DEF SockLineInv, WaitsOnce
  <1>4. p = << >> /\ w.does = "ended"
    <2>1. PICK v : v = sockServer /\ sockServer' = [v EXCEPT !.does = "ended"] /\ v = [does |-> v.does, conn |-> v.conn]
      BY DEF ServerEnds, SockDataInv, GoodServer
    <2>2. sockServer' = [does |-> "ended", conn |-> v.conn]
      BY <2>1
    <2> QED
      BY <1>2, <2>2 DEF ServerEnds
  <1>5. ASSUME NEW e \in SockEnds
        PROVE  /\ LineEnd(r[e]) /\ (s[e].state = "closed" => r[e].state = "closed")
               /\ r[e].reader = s[e].reader \/ r[e].reader = "killed"
               /\ e[2] = "client" \/ s[Peer(e)].state = "none" => r[e] = s[e]
    <2>1. PICK y : y = s[e] /\ EndShape(y) /\ LineEnd(y)
      BY <1>1 DEF SockDataInv, GoodEnd, EndsInv
    <2>2. PICK x : x = [y EXCEPT !.state = "closed", !.reader = IF @ = "reading" THEN "killed" ELSE @]
      OBVIOUS
    <2>3. /\ x.sent = y.sent /\ x.input = y.input /\ x.got = y.got /\ x.buffer = y.buffer /\ x.broken = y.broken /\ x.state = "closed"
          /\ x.reader = IF y.reader = "reading" THEN "killed" ELSE y.reader
      BY <2>1, <2>2 DEF EndShape
    <2>4. LineEnd(x)
      BY <2>1, <2>3, EndElsewhere
    <2>5. r[e] = IF e[2] = "server" /\ s[Peer(e)].state \in {"open", "closed"} THEN x ELSE y
      BY <1>1, <1>2, <2>1, <2>2 DEF ServerEnds
    <2> QED
      BY <2>1, <2>3, <2>4, <2>5
  <1>6. EndsInv(r)
    <2> SUFFICES ASSUME NEW e \in SockEnds, r[e].reader = "done" PROVE r[Peer(e)].state = "closed"
      BY <1>5 DEF EndsInv
    <2>1. s[e].reader = "done"
      BY <1>5
    <2> QED
      BY <1>1, <1>5, <2>1, PeersAre DEF EndsInv
  <1>7. Len(p) = 0 /\ 1..Len(p) = {}
    BY <1>4
  <1>8. \A j : ~Awaited(p, w, j)
    BY <1>4, <1>7 DEF Awaited
  <1>9. \A k \in SockConn : Client(k)[2] = "client" /\ Client(k) \in SockEnds /\ Serving(k) \in SockEnds /\ Peer(Serving(k)) = Client(k)
    <2>1. \A k \in SockConn : Client(k)[2] = "client"
      BY DEF Client
    <2> QED
      BY <2>1, EndsAre, EndsDiffer
  <1>10. NoneIdle(r, p, w)
    BY <1>3, <1>5, <1>8, <1>9 DEF NoneIdle
  <1>11. AwaitedIdle(r, p, w) /\ ServesOn(r, w) /\ ConnTaken(p, w)
    BY <1>4, <1>8 DEF AwaitedIdle, ServesOn, ConnTaken
  <1>12. WaitsDiffer(p)
    BY <1>7 DEF WaitsDiffer
  <1> QED
    BY <1>2, <1>6, <1>10, <1>11, <1>12 DEF SockLineInv, WaitsOnce

\* A step in which only what one end reads and was sent changes
LEMMA LinesChanged ==
  ASSUME SockDataInv, SockLineInv, NEW c \in SockEnds, NEW x, LineEnd(x), x.state = sockEnd[c].state, sockEnd[c].reader = "none" => x.reader = "none",
         x.reader = "done" => sockEnd[Peer(c)].state = "closed", sockEnd' = [sockEnd EXCEPT ![c] = x], UNCHANGED <<sockServer, sockPending>>
  PROVE  SockLineInv'
  <1>1. PICK s : s = sockEnd /\ s = [e \in SockEnds |-> s[e]] /\ EndsInv(s) /\ WaitsOnce(s, sockPending, sockServer)
    BY DEF SockDataInv, SockLineInv
  <1>2. PICK r : r = sockEnd' /\ r = Changes(s, c, x)
    BY <1>1 DEF Changes
  <1>3. EndsInv(r)
    BY <1>1, <1>2, EndsKept
  <1>4. WaitsOnce(r, sockPending, sockServer)
    BY <1>1, <1>2, WaitsKept
  <1> QED
    BY <1>2, <1>3, <1>4 DEF SockLineInv

\* A write
LEMMA SendLines ==
  ASSUME SockDataInv, SockLineInv, NEW e \in SockEnds, NEW comment \in BOOLEAN, NEW whole \in BOOLEAN, sock_send_binary(e, comment, whole)
  PROVE  SockLineInv'
  <1>1. PICK c \in SockEnds : c = Peer(e) /\ Peer(c) = e
    BY PeersAre
  <1>2. PICK y : y = sockEnd[c] /\ EndShape(y) /\ LineEnd(y) /\ (y.reader = "done" => sockEnd[e].state = "closed")
    BY <1>1 DEF SockDataInv, GoodEnd, SockLineInv, EndsInv
  <1>3. y.reader # "done"
    BY <1>2 DEF sock_send_binary
  <1>4. Len(y.sent) + 1 \in Nat
    BY <1>2 DEF LineEnd
  <1>5. PICK piece \in SockPiece : piece = [comment |-> comment, number |-> Len(y.sent) + 1, newline |-> whole]
    BY <1>4 DEF SockPiece
  <1>6. PICK x : x = [y EXCEPT !.sent = Append(@, piece), !.input = Append(@, piece)]
    OBVIOUS
  <1>7. x.sent = Append(y.sent, piece) /\ x.input = Append(y.input, piece) /\ x.got = y.got /\ x.buffer = y.buffer /\ x.state = y.state /\ x.reader = y.reader
    BY <1>2, <1>6 DEF EndShape
  <1>8. sockEnd' = [sockEnd EXCEPT ![c] = x] /\ UNCHANGED <<sockServer, sockPending>>
    BY <1>1, <1>2, <1>5, <1>6 DEF sock_send_binary, SockDataInv
  <1>9. LineEnd(x)
    BY <1>2, <1>3, <1>5, <1>7, EndAfterPiece
  <1> QED
    BY <1>2, <1>3, <1>7, <1>8, <1>9, LinesChanged

\* What the reading thread does
LEMMA ReadLines ==
  ASSUME SockDataInv, SockLineInv, NEW e \in SockEnds, ReadComment(e) \/ ReadMessage(e) \/ ReadPartial(e) \/ ReadEndOfFile(e) \/ ReadFails(e)
  PROVE  SockLineInv'
  <1>1. PICK y : y = sockEnd[e] /\ EndShape(y) /\ LineEnd(y)
    BY DEF SockDataInv, GoodEnd, SockLineInv, EndsInv
  <1>2. y.reader = "reading"
    BY <1>1 DEF ReadComment, ReadMessage, ReadPartial, ReadEndOfFile, ReadFails, Reading
  <1>3. \E x : /\ LineEnd(x) /\ x.state = y.state /\ SetEnd(e, x)
               /\ x.reader = "done" => sockEnd[Peer(e)].state = "closed"
    <2>1. PICK z : z = Fetched(y)
      OBVIOUS
    <2>2. EndShape(z)
      BY <1>1, <2>1 DEF EndShape, Fetched
    <2>3. /\ z.sent = y.sent /\ z.input = AfterLine(y.input) /\ z.buffer = FirstLine(y.input)
          /\ z.reader = "reading" /\ z.got = y.got /\ z.state = y.state
      BY <1>1, <1>2, <2>1 DEF EndShape, Fetched
    <2>4. ASSUME NEW w, EndShape(w), NEW h, h = Handled(w)
          PROVE  /\ EndShape(h) /\ h.got = Append(w.got, w.buffer) /\ h.sent = w.sent /\ h.input = w.input
                 /\ h.buffer = w.buffer /\ h.reader = w.reader /\ h.state = w.state
      BY <2>4 DEF EndShape, Handled
    <2>5. ASSUME NEW w, EndShape(w), NEW d, d = Disconnected(w)
          PROVE  /\ d.got = w.got /\ d.sent = w.sent /\ d.input = w.input /\ d.reader = "done" /\ d.state = w.state
                 /\ d.broken = w.broken
      BY <2>5 DEF EndShape, Disconnected
    <2>6. CASE ReadComment(e)
      <3>1. y.input # << >> /\ Ended(FirstLine(y.input)) /\ IsComment(FirstLine(y.input)) /\ SetEnd(e, z)
        BY <1>1, <2>1, <2>6 DEF ReadComment
      <3>2. z.got = WithLine(y.got, FirstLine(y.input), FALSE)
        BY <2>3, <3>1 DEF WithLine
      <3>3. LineEnd(z)
        BY <1>1, <1>2, <2>3, <3>1, <3>2, EndAfterLine
      <3> QED
        BY <2>3, <3>1, <3>3
    <2>7. CASE ReadMessage(e)
      <3>1. y.input # << >> /\ Ended(FirstLine(y.input)) /\ ~IsComment(FirstLine(y.input)) /\ SetEnd(e, Handled(z))
        BY <1>1, <2>1, <2>7 DEF ReadMessage
      <3>2. PICK x : x = Handled(z)
        OBVIOUS
      <3>3. /\ x.got = Append(z.got, z.buffer) /\ x.sent = z.sent /\ x.input = z.input
            /\ x.buffer = z.buffer /\ x.reader = z.reader /\ x.state = z.state
        BY <2>2, <2>4, <3>2
      <3>4. x.got = WithLine(y.got, FirstLine(y.input), FALSE)
        BY <2>3, <3>1, <3>3 DEF WithLine
      <3>5. LineEnd(x)
        BY <1>1, <1>2, <2>3, <3>1, <3>3, <3>4, EndAfterLine
      <3> QED
        BY <2>3, <3>1, <3>2, <3>3, <3>5
    <2>8. CASE ReadPartial(e)
      <3>1. y.input # << >> /\ ~Ended(FirstLine(y.input)) /\ SetEnd(e, Disconnected(Handled(z))) /\ sockEnd[Peer(e)].state = "closed"
        BY <1>1, <2>1, <2>8 DEF ReadPartial, EndOfFile
      <3>2. PICK h : h = Handled(z)
        OBVIOUS
      <3>3. PICK x : x = Disconnected(h)
        OBVIOUS
      <3>3a. EndShape(h) /\ h.got = Append(z.got, z.buffer) /\ h.sent = z.sent /\ h.input = z.input /\ h.state = z.state
        BY <2>2, <2>4, <3>2
      <3>3b. x.got = h.got /\ x.sent = h.sent /\ x.input = h.input /\ x.reader = "done" /\ x.state = h.state
        BY <2>5, <3>3, <3>3a
      <3>4. AfterLine(y.input) = << >>
        <4>1. PICK i \in Seq(SockPiece) : i = y.input
          BY <1>1 DEF LineEnd
        <4>2. FirstLine(i) = i
          BY <3>1, <4>1, FirstLineIs DEF LineParts
        <4> QED
          BY <4>1, <4>2 DEF AfterLine
      <3>5. LineEnd(x)
        BY <1>1, <1>2, <2>3, <3>1, <3>3a, <3>3b, <3>4, EndAfterPartial
      <3> QED
        BY <2>3, <3>1, <3>2, <3>3, <3>3a, <3>3b, <3>5
    <2>9. CASE ReadEndOfFile(e)
      <3>1. PICK w \in {y, Handled(y)} : SetEnd(e, Disconnected(w)) /\ y.input = << >> /\ sockEnd[Peer(e)].state = "closed"
        BY <1>1, <2>9 DEF ReadEndOfFile, EndOfFile
      <3>2. /\ w.got = y.got \/ w.got = Append(y.got, y.buffer)
            /\ EndShape(w) /\ w.sent = y.sent /\ w.input = y.input /\ w.state = y.state
        BY <1>1, <2>4, <3>1
      <3>3. PICK x : x = Disconnected(w)
        OBVIOUS
      <3>3a. x.got = w.got /\ x.sent = w.sent /\ x.input = w.input /\ x.reader = "done" /\ x.state = w.state
        BY <2>5, <3>2, <3>3
      <3>4. LineEnd(x)
        BY <1>1, <1>2, <3>1, <3>2, <3>3a, EndAfterLast
      <3> QED
        BY <3>1, <3>2, <3>3, <3>3a, <3>4
    <2>10. CASE ReadFails(e)
      <3>1. PICK b : b = TRUE
        OBVIOUS
      <3>2. PICK w : w = [y EXCEPT !.broken = b]
        OBVIOUS
      <3>3. SetEnd(e, Disconnected(w)) /\ sockEnd[Peer(e)].state = "closed"
        BY <1>1, <2>10, <3>1, <3>2 DEF ReadFails, EndOfFile
      <3>4. EndShape(w) /\ w.sent = y.sent /\ w.input = y.input /\ w.state = y.state /\ w.broken = b
        BY <1>1, <3>2 DEF EndShape
      <3>5. PICK x : x = Disconnected(w)
        OBVIOUS
      <3>5a. x.got = w.got /\ x.sent = w.sent /\ x.input = w.input /\ x.reader = "done" /\ x.state = w.state /\ x.broken = w.broken
        BY <2>5, <3>4, <3>5
      <3>6. x.broken
        BY <3>1, <3>4, <3>5a
      <3>7. LineEnd(x)
        BY <1>1, <1>2, <3>4, <3>5a, <3>6, EndAfterLast
      <3> QED
        BY <3>3, <3>4, <3>5, <3>5a, <3>7
    <2> QED
      BY <2>6, <2>7, <2>8, <2>9, <2>10
  <1>4. PICK x : LineEnd(x) /\ x.state = y.state /\ SetEnd(e, x) /\ (x.reader = "done" => sockEnd[Peer(e)].state = "closed")
    BY <1>3
  <1>5. sockEnd' = [sockEnd EXCEPT ![e] = x] /\ UNCHANGED <<sockServer, sockPending>>
    BY <1>4 DEF SetEnd
  <1> QED
    BY <1>1, <1>2, <1>4, <1>5, LinesChanged

\* Every step of sock.c keeps the invariant.
LEMMA SockLineSteps ==
  ASSUME SockDataInv, SockLineInv, [SockNext]_sockVars
  PROVE  SockLineInv'
  <1>1. ASSUME UNCHANGED sockVars PROVE SockLineInv'
    BY <1>1 DEF sockVars, SockLineInv
  <1> QED
    BY <1>1, ClientLineSteps, ServerLineSteps, ServerEndLines, SendLines, ReadLines DEF SockNext

\* Nothing is given when nothing was sent.
LEMMA NothingGiven == Lines(<< >>) = << >> /\ \A eof : Given(Lines(<< >>), eof) = << >>
  <1>1. PICK P : P = SockPiece
    OBVIOUS
  <1>2. PICK S : S = Seq(P)
    OBVIOUS
  <1>3. \A p \in P : LinesOf(S, p)
    BY <1>2, PieceFits
  <1>4. PICK n : n = << >> /\ n \in Seq(P) /\ n \in Seq(S) /\ Len(n) = 0
    BY EmptySeq
  <1>5. PICK f : LinesBy(f, n, S)
    BY <1>3, <1>4, LinesAdd
  <1>6. Lines(n) = n
    BY <1>4, <1>5 DEF LinesBy
  <1>7. ASSUME NEW eof PROVE Given(n, eof) = n
    <2>1. PICK g : GivenBy(g, n, eof, S)
      BY <1>4, GivenAdd
    <2> QED
      BY <1>4, <2>1 DEF GivenBy
  <1> QED
    BY <1>4, <1>6, <1>7

\* At the start nothing was sent.
LEMMA SockLineStart ==
  ASSUME SockInit
  PROVE  SockLineInv
  <1>1. PICK y : y = NewEnd
    OBVIOUS
  <1>2. y.state = "none" /\ y.reader = "none" /\ y.sent = << >> /\ y.input = << >> /\ y.got = << >> /\ y.buffer = Unread
    BY <1>1 DEF NewEnd
  <1>3. Behind(<< >>, y)
    <2>1. PICK n : n = << >> /\ n \in Seq(SockPiece)
      BY EmptySeq
    <2>2. n \o n = n
      BY <2>1, ConcatEmptySeq
    <2>3. Given(Lines(n), FALSE) = n /\ Given(Lines(n), TRUE) = n
      BY <2>1, NothingGiven
    <2>4. Whole(n)
      BY <2>1 DEF Whole
    <2>5. y.sent = n /\ y.input = n /\ y.got = n /\ y.buffer = LastRead(Lines(n))
      <3>1. Lines(n) = << >>
        BY <2>1, NothingGiven
      <3> QED
        BY <1>2, <2>1, <3>1 DEF LastRead
    <2>6. Behind(n, y)
      BY <2>1, <2>2, <2>3, <2>4, <2>5 DEF Behind
    <2> QED
      BY <2>1, <2>6
  <1>4. LineEnd(y)
    BY <1>2, <1>3, EmptySeq DEF LineEnd
  <1>5. \A e \in SockEnds : sockEnd[e] = y
    BY <1>1 DEF SockInit
  <1>6. EndsInv(sockEnd)
    BY <1>2, <1>4, <1>5 DEF EndsInv
  <1>7. sockServer.does = "accept" /\ Len(sockPending) = 0 /\ 1..Len(sockPending) = {}
    BY DEF SockInit
  <1>8. \A k : ~Awaited(sockPending, sockServer, k)
    BY <1>7 DEF Awaited
  <1>9. \A k \in SockConn : sockEnd[Client(k)] = y /\ sockEnd[Serving(k)] = y
    BY <1>5, EndsAre
  <1>10. WaitsOnce(sockEnd, sockPending, sockServer)
    BY <1>2, <1>7, <1>8, <1>9 DEF WaitsOnce, ServesOn, NoneIdle, AwaitedIdle, WaitsDiffer, ConnTaken
  <1> QED
    BY <1>6, <1>10 DEF SockLineInv

\* The contract of sock.c with the handlers of the application, for any number of connections and writes: data first, then
\* every line that the other end wrote, in order, however it was cut, and at the end of the file an unfinished one.  What
\* may come after the last line, when errno was zero, is the buffer once more, and nothing else.
THEOREM SockStaysSound == Spec => []SockSound
  <1>1. Init => SockDataInv /\ SockLineInv
    BY SockStart, SockLineStart DEF Init
  <1>2. SockDataInv /\ SockLineInv /\ [Next]_libraryVars => SockDataInv' /\ SockLineInv'
    <2>1. ASSUME [Next]_libraryVars PROVE [SockNext]_sockVars
      BY <2>1 DEF Next, libraryVars
    <2> QED
      BY <2>1, SockSteps, SockLineSteps
  <1>3. SockDataInv /\ SockLineInv => SockSound
    <2> SUFFICES ASSUME SockDataInv, SockLineInv PROVE SockSound
      OBVIOUS
    <2>1. DataBeforeInput
      BY DEF SockDataInv, GoodEnd, DataBeforeInput
    <2>2. \A e \in SockEnds : LineEnd(sockEnd[e])
      BY DEF SockLineInv, EndsInv
    <2>3. ASSUME NEW e \in SockEnds, sockEnd[e].reader \in {"none", "reading"}
          PROVE  Given(Lines(sockEnd[e].sent), FALSE) = sockEnd[e].got \o Given(Lines(sockEnd[e].input), FALSE)
      BY <2>2, <2>3, EndHandled
    <2>4. ASSUME NEW e \in SockEnds, sockEnd[e].reader = "done" /\ ~sockEnd[e].broken
          PROVE  AllGiven(Lines(sockEnd[e].sent), sockEnd[e].got)
      BY <2>2, <2>4 DEF LineEnd
    <2>5. LinesHandled
      BY <2>3, <2>4 DEF LinesHandled, AllGiven
    <2> QED
      BY <2>1, <2>5 DEF SockSound
  <1> QED
    BY <1>1, <1>2, <1>3, PTL DEF Spec
=============================================================================
