-------------------------------- MODULE Logger --------------------------------
(***************************************************************************)
(* comm/Logger.cpp: processes that log to the same files.  Logger_Log      *)
(* opens the file, writes, closes it and calls Logger_ShiftFile, which     *)
(* renames base.log to base1.log, base1.log to base2.log and so on, the    *)
(* last one first, when the file is full or its day is over.  Nothing is   *)
(* locked, and each call of the system is a step.  A file is named by its  *)
(* number, 0 for base.log; an open file goes on being written wherever a   *)
(* rename takes it.                                                        *)
(***************************************************************************)
EXTENDS Naturals, Sequences, FiniteSets

CONSTANTS
  Procs,
  Types,           \* the values of iType
  dwMaxNum,        \* files
  dwMaxSize,       \* in messages
  Cycle,           \* days after which tm_mday (or tm_hour) comes again
  MaxMessages,     \* bound: messages until the files are cleared by hand,
  MaxDayMessages,  \*   and of a log by days
  MaxTime          \* bound: days until then

ASSUME LoggerAssumption ==
  /\ IsFiniteSet(Procs)
  /\ dwMaxNum \in Nat \ {0, 1} /\ dwMaxSize \in Nat \ {0}
  /\ Cycle \in Nat \ {0} /\ {MaxMessages, MaxDayMessages} \subseteq Nat /\ MaxTime \in Nat \ {0}

VARIABLES
  iType,
  file,            \* the messages and mtime of every file
  now,             \* the day
  pc,              \* of each process: the next call of the system
  handle,          \* the file that is open; dwMaxNum for one that was unlinked
  szLogFileName, stLastTime,
  written,         \* messages written so far; each is numbered by it
  excused,         \* history: an archive is open, through another's rename or a failed one
  late,            \* history: the messages written in that state
  disturbed,       \* history: two rotations overlapped, or an archive was made by fopen
  torn,            \* history: a rotation ended after its first file and before file 0
  midnight         \* history: a day ended during a rotation

struct == <<szLogFileName, stLastTime>>
history == <<excused, late, disturbed, torn, midnight>>
vars == <<iType, file, now, pc, handle, struct, written, history>>

Limit == IF iType = "T_LOG_DAY" THEN MaxDayMessages ELSE MaxMessages
NoFile == [msgs |-> <<>>, mtime |-> 0]
Exists(i) == file[i] # NoFile
Messages(i) == {file[i].msgs[k] : k \in DOMAIN file[i].msgs}
Rotating(p) == pc[p] \in {"access", "rename", "time"}

\* The directory is empty, and each process has called Logger_Init.
Init ==
  /\ iType \in Types
  /\ file = [i \in 0 .. dwMaxNum - 1 |-> NoFile]
  /\ now = 1
  /\ pc = [p \in Procs |-> "idle"] /\ handle = [p \in Procs |-> 0]
  /\ szLogFileName = [p \in Procs |-> 0] /\ stLastTime = [p \in Procs |-> 0]
  /\ written = 0
  /\ excused = [p \in Procs |-> FALSE] /\ late = {}
  /\ disturbed = FALSE /\ torn = FALSE /\ midnight = FALSE

------------------------------------------------------------------------------
(***************************************************************************)
(* Logger_Log.  (When fopen fails it returns and nothing has changed.)     *)
(***************************************************************************)
Open(p) ==
  LET i == szLogFileName[p]
  IN  /\ pc[p] = "idle"
      /\ written + Cardinality({q \in Procs : pc[q] = "write"}) < Limit
      /\ file' = IF Exists(i) THEN file ELSE [file EXCEPT ![i].mtime = now]
      /\ handle' = [handle EXCEPT ![p] = i]
      /\ pc' = [pc EXCEPT ![p] = "write"]
      /\ disturbed' = (disturbed \/ (i # 0 /\ ~Exists(i)))
      /\ UNCHANGED <<iType, now, struct, written, excused, late, torn, midnight>>

\* fclose writes what fprintf left in the buffer to the end of the file, which
\* may have another name by now, or none.
Write(p) ==
  /\ pc[p] = "write"
  /\ written' = written + 1
  /\ file' = IF handle[p] = dwMaxNum THEN file
             ELSE [file EXCEPT ![handle[p]] =
                     [msgs |-> Append(@.msgs, [id |-> written', day |-> now]), mtime |-> now]]
  /\ late' = IF excused[p] THEN late \cup {written'} ELSE late
  /\ excused' = [excused EXCEPT ![p] = FALSE]
  /\ handle' = [handle EXCEPT ![p] = 0]
  /\ pc' = [pc EXCEPT ![p] = "stat"]
  /\ UNCHANGED <<iType, now, struct, disturbed, torn, midnight>>

------------------------------------------------------------------------------
(***************************************************************************)
(* Logger_ShiftFile.                                                       *)
(***************************************************************************)
\* The day of the month: of two times, that is all the code compares.
Field(time) == time % Cycle

\* The file stays: it has room; or it was written on a day with the number of
\* that of the last shift (T_LOG_HOUR is the same with hours); or the type is
\* unknown, for dwCurNum stays 0.
Bug_KeepsTooFew(p) ==
  \/ iType = "T_LOG_LOOP" /\ Len(file[0].msgs) + 1 < dwMaxSize
  \/ iType = "T_LOG_DAY" /\ Field(file[0].mtime) = Field(stLastTime[p])
  \/ iType \notin {"T_LOG_LOOP", "T_LOG_DAY"}
Keeps(p) ==
  \/ iType = "T_LOG_LOOP" /\ Len(file[0].msgs) < dwMaxSize
  \/ /\ iType = "T_LOG_DAY"
     /\ stLastTime[p] <= file[0].mtime + 1
     /\ Field(file[0].mtime) = Field(stLastTime[p])
  \/ iType \notin {"T_LOG_LOOP", "T_LOG_DAY"}

\* The file the loop starts with.
Bug_TooFar == dwMaxNum - 1
LastShifted == dwMaxNum - 2

\* Bug: the name a failed rename left is not reset.
Bug_NoReset(p) == szLogFileName
BaseName(p) == [szLogFileName EXCEPT ![p] = 0]

Stat(p) ==
  /\ pc[p] = "stat"
  /\ IF ~Exists(0) \/ Keeps(p)
     THEN /\ szLogFileName' = BaseName(p)
          /\ pc' = [pc EXCEPT ![p] = "idle"]
          /\ UNCHANGED disturbed
     ELSE /\ szLogFileName' = [szLogFileName EXCEPT ![p] = LastShifted]
          /\ pc' = [pc EXCEPT ![p] = "access"]
          /\ disturbed' = (disturbed \/ \E q \in Procs : Rotating(q))
  /\ UNCHANGED <<iType, file, now, handle, stLastTime, written, excused, late, torn, midnight>>

\* On to the next file, or out of the loop.
NextFile(p) ==
  IF szLogFileName[p] = 0
  THEN pc' = [pc EXCEPT ![p] = "time"] /\ UNCHANGED szLogFileName
  ELSE /\ pc' = [pc EXCEPT ![p] = "access"]
       /\ szLogFileName' = [szLogFileName EXCEPT ![p] = @ - 1]

Access(p) ==
  /\ pc[p] = "access"
  /\ IF Exists(szLogFileName[p])
     THEN pc' = [pc EXCEPT ![p] = "rename"] /\ UNCHANGED szLogFileName
     ELSE NextFile(p)
  /\ UNCHANGED <<iType, file, now, handle, stLastTime, written, history>>

\* Where an open file is after i was renamed to j, which unlinks j.
Moved(h, i, j) == IF h = j THEN dwMaxNum ELSE IF h = i THEN j ELSE h

Rename(p) ==
  LET i == szLogFileName[p]
      j == i + 1
  IN  /\ pc[p] = "rename" /\ Exists(i)
      /\ file' = [file EXCEPT ![j] = file[i], ![i] = NoFile]
      /\ handle' = [q \in Procs |-> IF pc[q] = "write" THEN Moved(handle[q], i, j) ELSE handle[q]]
      /\ excused' = [q \in Procs |-> excused[q] \/ handle'[q] # handle[q]]
      /\ NextFile(p)
      /\ UNCHANGED <<iType, now, stLastTime, written, late, disturbed, torn, midnight>>

\* Whatever the reason; if i is gone it always fails.
Bug_TakesTime(p) == stLastTime' = [stLastTime EXCEPT ![p] = now]
KeepsTime(p) == UNCHANGED stLastTime

RenameFails(p) ==
  /\ pc[p] = "rename"
  /\ pc' = [pc EXCEPT ![p] = "idle"]
  /\ excused' = [excused EXCEPT ![p] = szLogFileName[p] # 0]
  /\ torn' = (torn \/ szLogFileName[p] # LastShifted)
  /\ KeepsTime(p)
  /\ UNCHANGED <<iType, file, now, handle, szLogFileName, written, late, disturbed, midnight>>

TakeTime(p) ==
  /\ pc[p] = "time"
  /\ stLastTime' = [stLastTime EXCEPT ![p] = now]
  /\ pc' = [pc EXCEPT ![p] = "idle"]
  /\ UNCHANGED <<iType, file, now, handle, szLogFileName, written, history>>

------------------------------------------------------------------------------
\* The process dies, and its successor calls Logger_Init.
Restart(p) ==
  /\ pc' = [pc EXCEPT ![p] = "idle"] /\ handle' = [handle EXCEPT ![p] = 0]
  /\ szLogFileName' = [szLogFileName EXCEPT ![p] = 0]
  /\ stLastTime' = [stLastTime EXCEPT ![p] = 0]
  /\ excused' = [excused EXCEPT ![p] = FALSE]
  /\ torn' = (torn \/ (pc[p] \in {"access", "rename"} /\ szLogFileName[p] # LastShifted))
  /\ UNCHANGED <<iType, file, now, written, late, disturbed, midnight>>

\* Only a log of days looks at the clock.
Clock ==
  /\ iType = "T_LOG_DAY" /\ now < MaxTime
  /\ now' = now + 1
  /\ midnight' = (midnight \/ \E p \in Procs : Rotating(p))
  /\ UNCHANGED <<iType, file, pc, handle, struct, written, excused, late, disturbed, torn>>

\* At the bound the files are removed and everything is started again.
StartOver ==
  /\ written = Limit /\ \A p \in Procs : pc[p] = "idle"
  /\ file' = [i \in 0 .. dwMaxNum - 1 |-> NoFile]
  /\ now' = 1
  /\ pc' = [p \in Procs |-> "idle"] /\ handle' = [p \in Procs |-> 0]
  /\ szLogFileName' = [p \in Procs |-> 0] /\ stLastTime' = [p \in Procs |-> 0]
  /\ written' = 0
  /\ excused' = [p \in Procs |-> FALSE] /\ late' = {}
  /\ disturbed' = FALSE /\ torn' = FALSE /\ midnight' = FALSE
  /\ UNCHANGED iType

Next ==
  \/ \E p \in Procs :
       \/ Open(p) \/ Write(p) \/ Stat(p) \/ Access(p)
       \/ Rename(p) \/ RenameFails(p) \/ TakeTime(p) \/ Restart(p)
  \/ Clock \/ StartOver

Spec == Init /\ [][Next]_vars

------------------------------------------------------------------------------
\* Types.
TypeOK ==
  /\ iType \in Types /\ now \in 1 .. MaxTime /\ written \in 0 .. Limit
  /\ file \in [0 .. dwMaxNum - 1 ->
                [msgs : Seq([id : 1 .. written, day : 1 .. now]), mtime : 0 .. now]]
  /\ pc \in [Procs -> {"idle", "write", "stat", "access", "rename", "time"}]
  /\ handle \in [Procs -> 0 .. dwMaxNum] /\ szLogFileName \in [Procs -> 0 .. dwMaxNum - 2]
  /\ stLastTime \in [Procs -> 0 .. now]
  /\ excused \in [Procs -> BOOLEAN] /\ late \subseteq 1 .. written

\* The files stay in order, whatever rotations overlap, fail or are cut short:
\* a message in a file of a higher number is older.  Excepted are those written
\* to a file that was rotated after it was opened, and the one that follows a
\* rename that failed, which goes to the archive that was to be renamed.
OrderedFiles ==
  \A i, j \in 0 .. dwMaxNum - 1 : i < j =>
    \A new \in Messages(i), old \in Messages(j) :
      old.id < new.id \/ {old.id, new.id} \cap late # {}

\* A log by size keeps the latest messages, of all files but one: as long as
\* no two rotations overlap a message is given up only for that many later ones.
\* But a rotation that fails, or whose process dies, when it has moved some files
\* and not the others leaves a gap; later ones move it on with the files and unlink
\* the last file all the same.  However many were cut short, two files are kept.
FilesKept == IF torn /\ dwMaxNum > 3 THEN 2 ELSE dwMaxNum - 1

KeepsLatest ==
  iType = "T_LOG_LOOP" /\ ~disturbed =>
    \A m \in (1 .. written) \ late :
      \/ \E i \in 0 .. dwMaxNum - 1 : m \in {msg.id : msg \in Messages(i)}
      \/ Cardinality((m + 1 .. written) \ late) >= FilesKept * dwMaxSize

\* A log by days: a call that leaves the file as it is on the day of the last
\* shift leaves messages of that day only, with several processes that shift,
\* fail and die.  (A day can end before the time is taken; and the days of two
\* months have the same numbers.)
OneDayKept ==
  [][iType = "T_LOG_DAY" /\ ~midnight =>
       \A p \in Procs :
         pc[p] = "stat" /\ pc'[p] = "idle" /\ szLogFileName'[p] = 0
           /\ Exists(0) /\ stLastTime'[p] = file[0].mtime
         => \A msg \in Messages(0) : msg.day = file[0].mtime]_vars
=============================================================================
