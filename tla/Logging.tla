------------------------------ MODULE Logging -------------------------------
(***************************************************************************)
(* The loggers of logging.c: the file driver, which writes one log per     *)
(* destination, and the dual file driver, which writes a common log and an *)
(* error log.  Threads share one logger.  A call holds the logger's mutex, *)
(* except while it formats its message.  The first call of a day rotates   *)
(* the logs of its destination: the current file is renamed after the day, *)
(* and the file of LogRetention days before is removed.                    *)
(*                                                                         *)
(* A line is a number.  A file is named by destination, specifier and      *)
(* label: Current, or the day it was renamed on.                           *)
(***************************************************************************)
EXTENDS Integers, Sequences, FiniteSets

CONSTANTS
  LogThread, LogDestination,
  LogRetention,    \* a week in the code
  LogMaxDay,       \* bound: days
  LogMaxLines      \* bound: lines logged

ASSUME LogAssumption == LogRetention \in Nat \ {0} /\ LogMaxDay \in Nat /\ LogMaxLines \in Nat

VARIABLES
  logToday,     \* the clock, in days
  logger,       \* driver, date, and the streams of each destination
  logMutex,
  logPc,        \* where a thread is in its call
  logCall,      \* the destination and severity of its message, its line
  logFiles,     \* what the files hold: [destination, spec, label, line]
  logLines      \* history: the day of each line, and where it was written

logVars == <<logToday, logger, logMutex, logPc, logCall, logFiles, logLines>>

Current == 0                  \* no day
FirstDay == LogRetention + 1  \* so that the day of a week ago is a day
Unlocked == "unlocked"
StdErr == [spec |-> "stderr", label |-> Current]
NoStream == [spec |-> "none", label |-> Current]
Stream(spec) == [spec |-> spec, label |-> Current]

NoEntry == [common |-> NoStream, error |-> NoStream]

(* logFileEntryCreate opens the same two files for both drivers.           *)
logFileEntryCreate == [common |-> Stream("_Common"), error |-> Stream("_Error")]

(* The destination log_create is called with                               *)
logFileFullName == CHOOSE d \in LogDestination : TRUE

log_create(driver, day) ==
  [driver |-> driver, date |-> day,
   entry |-> [d \in LogDestination |->
                IF d = logFileFullName THEN logFileEntryCreate ELSE NoEntry]]

LogInit ==
  /\ logToday = FirstDay
  /\ logger = log_create("file", FirstDay)
  /\ logMutex = Unlocked
  /\ logPc = [t \in LogThread |-> "out"]
  /\ logCall = [t \in LogThread |-> << >>]
  /\ logFiles = {}
  /\ logLines = << >>

---------------------------------------------------------------------------
(* Files                                                                   *)

Renamed(files, d, spec, day) ==
  {f \in files : ~(f.destination = d /\ f.spec = spec /\ f.label \in {Current, day})}
  \cup {[f EXCEPT !.label = day] :
          f \in {g \in files : g.destination = d /\ g.spec = spec /\ g.label = Current}}

Removed(files, d, spec, day) ==
  {f \in files : ~(f.destination = d /\ f.spec = spec /\ f.label = day)}

(* fileLogRotate of the file with a specifier: the file is renamed, unless *)
(* that fails, replacing one of that name, and the file of a week ago is   *)
(* removed.                                                                *)
fileLogRotate(files, d, spec, day, renamed) ==
  Removed(IF renamed THEN Renamed(files, d, spec, day) ELSE files, d, spec,
          day - LogRetention)

(* The stream after it: opened anew, or stderr.                            *)
Reopened(spec, opened) == IF opened THEN Stream(spec) ELSE StdErr

OnFile(stream) == stream \notin {StdErr, NoStream}

(* fileLogText rotates with the specifier "", not with that of the file    *)
(* logFileEntryCreate opened; dualFileLogText rotates both logs.  The      *)
(* error stream of the file driver is never used.                          *)
CommonSpec(driver) == IF driver = "file" THEN "" ELSE "_Common"

RotatedFiles(d, e, renamed) ==
  LET common == IF OnFile(e.common)
                THEN fileLogRotate(logFiles, d, CommonSpec(logger.driver), logToday, renamed)
                ELSE logFiles
  IN IF logger.driver = "dual" /\ OnFile(e.error)
     THEN fileLogRotate(common, d, "_Error", logToday, renamed) ELSE common

RotatedEntry(e, opened) ==
  [common |-> IF OnFile(e.common) THEN Reopened(CommonSpec(logger.driver), opened) ELSE e.common,
   error |-> IF logger.driver = "dual" /\ OnFile(e.error) THEN Reopened("_Error", opened)
             ELSE e.error]

---------------------------------------------------------------------------
(* fileLogText and dualFileLogText                                         *)

LogAt(t, from, to) == logPc[t] = from /\ logPc' = [logPc EXCEPT ![t] = to]

Mut_DateNotSaved(t, d, severe, renamed, opened) ==
  LET e == IF logger.entry[d] = NoEntry THEN logFileEntryCreate ELSE logger.entry[d]
      rotate == logger.date # logToday
  IN /\ LogAt(t, "out", "build")
     /\ logMutex = Unlocked /\ logMutex' = t
     /\ logCall' = [logCall EXCEPT ![t] = [destination |-> d, severe |-> severe, line |-> 0]]
     /\ logger' = [logger EXCEPT !.entry[d] = IF rotate THEN RotatedEntry(e, opened) ELSE e]
     /\ logFiles' = IF rotate THEN RotatedFiles(d, e, renamed) ELSE logFiles
     /\ UNCHANGED <<logToday, logLines>>

(* The entry of the destination is found, or created; when the date is not *)
(* the logger's it is rotated, and the date of the whole logger is today.  *)
LogText(t, d, severe, renamed, opened) ==
  LET e == IF logger.entry[d] = NoEntry THEN logFileEntryCreate ELSE logger.entry[d]
      rotate == logger.date # logToday
  IN /\ LogAt(t, "out", "build")
     /\ logMutex = Unlocked /\ logMutex' = t
     /\ logCall' = [logCall EXCEPT ![t] = [destination |-> d, severe |-> severe, line |-> 0]]
     /\ logger' = [logger EXCEPT !.date = logToday,
                                 !.entry[d] = IF rotate THEN RotatedEntry(e, opened) ELSE e]
     /\ logFiles' = IF rotate THEN RotatedFiles(d, e, renamed) ELSE logFiles
     /\ UNCHANGED <<logToday, logLines>>

(* The files of a new destination cannot be opened: an error is returned.  *)
LogTextFails(t, d) ==
  /\ logPc[t] = "out" /\ logMutex = Unlocked
  /\ logger.entry[d] = NoEntry
  /\ UNCHANGED logVars

(* fileLogBuildLine reads the clock again, and unlocks the mutex while     *)
(* the message is formatted.                                               *)
fileLogBuildLine(t) ==
  /\ LogAt(t, "build", "format")
  /\ Len(logLines) < LogMaxLines
  /\ logLines' = Append(logLines, [day |-> logToday, to |-> {}])
  /\ logCall' = [logCall EXCEPT ![t].line = Len(logLines) + 1]
  /\ logMutex' = Unlocked
  /\ UNCHANGED <<logToday, logger, logFiles>>

(* The streams of a message, as the entry has them now.                    *)
Targets(call) ==
  LET e == logger.entry[call.destination]
  IN {e.common} \cup (IF logger.driver = "dual" /\ call.severe THEN {e.error} ELSE {})

Written(call, streams) ==
  {[destination |-> call.destination, spec |-> s.spec, label |-> s.label, line |-> call.line] :
     s \in {x \in streams : OnFile(x)}}

(* The mutex is locked again and the line is written.                      *)
fileLogWrite(t) ==
  LET call == logCall[t]
  IN /\ LogAt(t, "format", "out")
     /\ logMutex = Unlocked
     /\ logFiles' = logFiles \cup Written(call, Targets(call))
     /\ logLines' = [logLines EXCEPT ![call.line].to =
                       {<<call.destination, s.spec>> : s \in {x \in Targets(call) : OnFile(x)}}]
     /\ logCall' = [logCall EXCEPT ![t] = << >>]
     /\ UNCHANGED <<logToday, logger, logMutex>>

(* log_destroy, with nobody inside, and log_create with either driver.     *)
LogRestart(driver) ==
  /\ \A t \in LogThread : logPc[t] = "out"
  /\ logger' = log_create(driver, logToday)
  /\ UNCHANGED <<logToday, logMutex, logPc, logCall, logFiles, logLines>>

Midnight ==
  /\ logToday < LogMaxDay
  /\ logToday' = logToday + 1
  /\ UNCHANGED <<logger, logMutex, logPc, logCall, logFiles, logLines>>

LogNext ==
  \/ \E t \in LogThread, d \in LogDestination :
       \/ \E severe, renamed, opened \in BOOLEAN : LogText(t, d, severe, renamed, opened)
       \/ LogTextFails(t, d)
  \/ \E t \in LogThread : fileLogBuildLine(t) \/ fileLogWrite(t)
  \/ \E driver \in {"file", "dual"} : LogRestart(driver)
  \/ Midnight

---------------------------------------------------------------------------
(* The two names of a common log are one log to its reader.                *)
Holding(line, d, spec) ==
  {f \in logFiles : f.line = line /\ f.destination = d /\ f.spec = spec}

(* "Remove a log file that is a week old" (logging.c:857): rotation, which *)
(* renames, replaces and removes files, leaves every line that is less     *)
(* than a week old in exactly one file of each log it was written to,      *)
(* although the day may change and another thread rotate the logs between  *)
(* the steps of a call, one destination is rotated and another is not, and *)
(* a rename or an open may fail.                                           *)
LogKept ==
  \A n \in DOMAIN logLines :
    logToday - logLines[n].day < LogRetention =>
      \A w \in logLines[n].to : Cardinality(Holding(n, w[1], w[2])) = 1
=============================================================================
