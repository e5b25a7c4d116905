---------------------------- MODULE LoggerProof ----------------------------
(***************************************************************************)
(* The log files of Logger.cpp stay in order, and keep what they should,   *)
(* for any number of processes, files and messages, whatever renames fail  *)
(* and whichever processes die.                                            *)
(***************************************************************************)
EXTENDS Logger, FiniteSetTheorems, SequenceTheorems, TLAPS

Files == 0 .. dwMaxNum - 1
Message(w, d) == [id : 1 .. w, day : 1 .. d]
FileOf(w, d) == [msgs : Seq(Message(w, d)), mtime : 0 .. d]
Writers == {q \in Procs : pc[q] = "write"}

\* Every message that is being written has its number in reserve.
Room == written + Cardinality(Writers) <= Limit

\* A process names or writes to an archive only where the history says so; and
\* the file it writes to exists, wherever a rename took it.
HandlesSound ==
  \A p \in Procs :
    /\ pc[p] = "idle" => (excused[p] <=> szLogFileName[p] # 0)
    /\ pc[p] = "write" => (excused[p] <=> handle[p] # 0)
    /\ pc[p] \notin {"idle", "write"} => ~excused[p]
    /\ pc[p] = "time" => szLogFileName[p] = 0
    /\ pc[p] = "write" /\ handle[p] # dwMaxNum => Exists(handle[p])

Base == TypeOK /\ Room /\ HandlesSound

(***************************************************************************)
(* The messages of the files, after each of the steps that change them.    *)
(***************************************************************************)
LEMMA Numbers ==
  ASSUME TypeOK
  PROVE  /\ written \in Nat /\ now \in Nat \ {0} /\ Limit \in Nat /\ dwMaxNum \in Nat \ {0, 1}
         /\ file \in [Files -> FileOf(written, now)]
         /\ handle \in [Procs -> 0 .. dwMaxNum] /\ szLogFileName \in [Procs -> 0 .. dwMaxNum - 2]
<1>1. Limit \in Nat
  BY LoggerAssumption DEF Limit
<1>2. written \in Nat /\ now \in Nat \ {0}
  BY <1>1, LoggerAssumption DEF TypeOK
<1>3. file \in [Files -> FileOf(written, now)]
  BY DEF TypeOK, Files, FileOf, Message
<1>4. handle \in [Procs -> 0 .. dwMaxNum] /\ szLogFileName \in [Procs -> 0 .. dwMaxNum - 2]
  BY DEF TypeOK
<1>5. QED
  BY <1>1, <1>2, <1>3, <1>4, LoggerAssumption

\* A file is one of a later time too, when there are more messages.
LEMMA LaterFile ==
  ASSUME NEW w \in Nat, NEW d \in Nat, NEW v \in Nat, NEW e \in Nat, w <= v, d <= e,
         NEW f \in FileOf(w, d)
  PROVE  f \in FileOf(v, e)
<1>1. Message(w, d) \subseteq Message(v, e)
  BY DEF Message
<1>2. f.msgs \in Seq(Message(v, e))
  BY <1>1, SeqMonotonic DEF FileOf
<1>3. f.mtime \in 0 .. e
  BY DEF FileOf
<1>4. QED
  BY <1>2, <1>3 DEF FileOf

\* A file that does not exist has no messages.
LEMMA NoFileIsEmpty ==
  /\ NoFile \in [msgs : {<<>>}, mtime : {0}]
  /\ \A w, d \in Nat : NoFile \in FileOf(w, d)
<1>1. \A S : <<>> \in Seq(S)
  BY EmptySeq
<1>2. QED
  BY <1>1 DEF NoFile, FileOf

\* What is appended joins the messages of its file.
LEMMA AppendedMessages ==
  ASSUME NEW S, NEW s \in Seq(S), NEW e \in S
  PROVE  /\ Append(s, e) \in Seq(S)
         /\ {Append(s, e)[k] : k \in DOMAIN Append(s, e)} = {s[k] : k \in DOMAIN s} \cup {e}
<1>1. /\ Append(s, e) \in Seq(S) /\ Len(Append(s, e)) = Len(s) + 1
      /\ \A i \in 1 .. Len(s) : Append(s, e)[i] = s[i]
      /\ Append(s, e)[Len(s) + 1] = e
  BY AppendProperties
<1>2. DOMAIN s = 1 .. Len(s) /\ Len(s) \in Nat
  BY LenProperties
<1>3. DOMAIN Append(s, e) = 1 .. (Len(s) + 1)
  BY <1>1, LenProperties
<1>4. 1 .. (Len(s) + 1) = (1 .. Len(s)) \cup {Len(s) + 1}
  BY <1>2
<1>5. QED
  BY <1>1, <1>2, <1>3, <1>4

\* Write adds one message, with the next number and the day it is written, to
\* the file that is open, if it was not unlinked.
LEMMA WriteEffect ==
  ASSUME TypeOK, NEW p \in Procs, Write(p)
  PROVE  /\ file' \in [Files -> FileOf(written + 1, now)]
         /\ handle[p] = dwMaxNum => file' = file
         /\ \A i \in Files :
              IF i = handle[p]
              THEN /\ Messages(i)' = Messages(i) \cup {[id |-> written + 1, day |-> now]}
                   /\ file'[i].mtime = now
                   /\ Len(file'[i].msgs) = Len(file[i].msgs) + 1
              ELSE file'[i] = file[i] /\ Messages(i)' = Messages(i)
<1>0. PICK new, h : new = [id |-> written + 1, day |-> now] /\ h = handle[p]
  OBVIOUS
<1>1. h \in Files \cup {dwMaxNum} /\ file \in [Files -> FileOf(written, now)]
  BY <1>0, Numbers DEF Files
<1>2. written \in Nat /\ now \in Nat \ {0} /\ dwMaxNum \notin Files
  BY Numbers DEF Files
<1>3. file \in [Files -> FileOf(written + 1, now)]
  BY <1>1, <1>2, LaterFile
<1>4. new \in Message(written + 1, now)
  BY <1>0, <1>2 DEF Message
<1>5. written' = written + 1
  BY DEF Write
<1>6. CASE h = dwMaxNum
  BY <1>0, <1>2, <1>3, <1>6 DEF Write, Messages
<1>7. CASE h \in Files
  <2>0. PICK s : s = file[h].msgs
    OBVIOUS
  <2>1. file' = [file EXCEPT ![h] = [msgs |-> Append(s, new), mtime |-> now]]
    BY <1>0, <1>2, <1>5, <1>7, <2>0 DEF Write
  <2>2. s \in Seq(Message(written + 1, now))
    BY <1>3, <1>7, <2>0 DEF FileOf
  <2>3. /\ Append(s, new) \in Seq(Message(written + 1, now))
        /\ {Append(s, new)[k] : k \in DOMAIN Append(s, new)} = {s[k] : k \in DOMAIN s} \cup {new}
        /\ Len(Append(s, new)) = Len(s) + 1
    BY <1>4, <2>2, AppendedMessages, AppendProperties
  <2>4. file'[h].msgs = Append(s, new) /\ file'[h].mtime = now
        /\ \A i \in Files \ {h} : file'[i] = file[i]
    BY <1>1, <1>7, <2>1
  <2>5. file'[h] \in FileOf(written + 1, now) /\ file' \in [Files -> FileOf(written + 1, now)]
    <3>1. [msgs |-> Append(s, new), mtime |-> now] \in FileOf(written + 1, now)
      BY <1>2, <2>3 DEF FileOf
    <3>2. QED
      BY <1>3, <1>7, <2>1, <3>1
  <2>6. Messages(h)' = Messages(h) \cup {new}
    <3>1. Messages(h)' = {file'[h].msgs[k] : k \in DOMAIN file'[h].msgs}
      BY DEF Messages
    <3>2. Messages(h) = {s[k] : k \in DOMAIN s}
      BY <2>0 DEF Messages
    <3>3. QED
      BY <2>3, <2>4, <3>1, <3>2
  <2>7. \A i \in Files \ {h} : Messages(i)' = Messages(i)
    BY <2>4 DEF Messages
  <2>8. QED
    BY <1>0, <1>2, <1>7, <2>0, <2>3, <2>4, <2>5, <2>6, <2>7
<1>8. QED
  BY <1>1, <1>6, <1>7

\* Open makes an empty file where there is none.
LEMMA OpenEffect ==
  ASSUME TypeOK, NEW p \in Procs, Open(p)
  PROVE  /\ szLogFileName[p] \in Files /\ handle' = [handle EXCEPT ![p] = szLogFileName[p]]
         /\ file' \in [Files -> FileOf(written, now)]
         /\ \A i \in Files : /\ Messages(i)' = Messages(i) /\ file'[i].msgs = file[i].msgs
                             /\ Exists(i) => Exists(i)' /\ file'[i] = file[i]
                             /\ ~Exists(i) => file'[i].mtime \in {0, now}
         /\ \A i \in Files : IF i = szLogFileName[p] THEN Exists(i)' ELSE file'[i] = file[i]
<1>0. PICK f : f = szLogFileName[p]
  OBVIOUS
<1>1. f \in Files /\ file \in [Files -> FileOf(written, now)] /\ now \in Nat \ {0}
  BY <1>0, Numbers DEF Files
<1>2. file' = IF Exists(f) THEN file ELSE [file EXCEPT ![f].mtime = now]
  BY <1>0 DEF Open
<1>3. ~Exists(f) => file[f] = [msgs |-> <<>>, mtime |-> 0]
  BY DEF Exists, NoFile
<1>4. ~Exists(f) => /\ file'[f] = [msgs |-> <<>>, mtime |-> now]
                    /\ file'[f] \in FileOf(written, now)
  <2>1. ~Exists(f) => file'[f] = [file[f] EXCEPT !.mtime = now]
    BY <1>1, <1>2
  <2>2. <<>> \in Seq(Message(written, now))
    BY EmptySeq
  <2>3. QED
    BY <1>1, <1>3, <2>1, <2>2 DEF FileOf
<1>5. \A i \in Files : i # f => file'[i] = file[i]
  BY <1>1, <1>2
<1>6. file' \in [Files -> FileOf(written, now)]
  BY <1>1, <1>2, <1>4, <1>5
<1>7. file'[f].msgs = file[f].msgs /\ Exists(f)' /\ (Exists(f) => file'[f] = file[f])
  BY <1>1, <1>2, <1>3, <1>4 DEF Exists, NoFile
<1>8. \A i \in Files : file'[i].msgs = file[i].msgs
  BY <1>5, <1>7
<1>9. \A i \in Files : Messages(i)' = Messages(i)
  BY <1>8 DEF Messages
<1>10. handle' = [handle EXCEPT ![p] = f]
  BY <1>0 DEF Open
<1>11. \A i \in Files : /\ Exists(i) => Exists(i)' /\ file'[i] = file[i]
                        /\ ~Exists(i) => file'[i].mtime \in {0, now}
  <2>1. \A i \in Files : i # f /\ ~Exists(i) => file'[i].mtime = 0
    BY <1>5 DEF Exists, NoFile
  <2>2. \A i \in Files : i # f => (Exists(i)' <=> Exists(i))
    BY <1>5 DEF Exists
  <2>3. ~Exists(f) => file'[f].mtime = now
    BY <1>4
  <2>4. QED
    BY <1>5, <1>7, <2>1, <2>2, <2>3
<1>12. QED
  BY <1>0, <1>1, <1>5, <1>6, <1>7, <1>8, <1>9, <1>10, <1>11

\* Rename moves a file over the next one; the open files follow.
LEMMA RenameEffect ==
  ASSUME TypeOK, NEW p \in Procs, Rename(p)
  PROVE  /\ szLogFileName[p] \in 0 .. dwMaxNum - 2
         /\ file' \in [Files -> FileOf(written, now)]
         /\ \A i \in Files :
              /\ i = szLogFileName[p] + 1 =>
                   file'[i] = file[i - 1] /\ Messages(i)' = Messages(i - 1)
              /\ i = szLogFileName[p] => file'[i] = NoFile /\ Messages(i)' = {}
              /\ i \notin {szLogFileName[p], szLogFileName[p] + 1} =>
                   file'[i] = file[i] /\ Messages(i)' = Messages(i)
<1>0. PICK s : s = szLogFileName[p]
  OBVIOUS
<1>1. /\ s \in 0 .. dwMaxNum - 2 /\ s \in Files /\ s + 1 \in Files /\ s # s + 1
      /\ file \in [Files -> FileOf(written, now)] /\ written \in Nat /\ now \in Nat
  BY <1>0, Numbers DEF Files
<1>2. file' = [file EXCEPT ![s + 1] = file[s], ![s] = NoFile]
  BY <1>0 DEF Rename
<1>3. NoFile \in FileOf(written, now) /\ NoFile.msgs = <<>>
  BY <1>1, NoFileIsEmpty DEF NoFile
<1>4. /\ file' \in [Files -> FileOf(written, now)]
      /\ file'[s + 1] = file[s] /\ file'[s] = NoFile
      /\ \A i \in Files : i \notin {s, s + 1} => file'[i] = file[i]
  BY <1>1, <1>2, <1>3
<1>5. Messages(s + 1)' = Messages(s) /\ Messages(s)' = {}
      /\ \A i \in Files : i \notin {s, s + 1} => Messages(i)' = Messages(i)
  <2>1. DOMAIN <<>> = {}
    OBVIOUS
  <2>2. {file'[s].msgs[k] : k \in DOMAIN file'[s].msgs} = {}
    BY <1>3, <1>4, <2>1
  <2>3. QED
    BY <1>4, <2>2 DEF Messages
<1>6. QED
  BY <1>0, <1>1, <1>4, <1>5

(***************************************************************************)
(* The base of the invariant: types, numbers in reserve and handles.       *)
(***************************************************************************)
\* TypeOK, with the files' type in one word.
Shape ==
  /\ iType \in Types /\ now \in 1 .. MaxTime /\ written \in 0 .. Limit
  /\ file \in [Files -> FileOf(written, now)]
  /\ pc \in [Procs -> {"idle", "write", "stat", "access", "rename", "time"}]
  /\ handle \in [Procs -> 0 .. dwMaxNum] /\ szLogFileName \in [Procs -> 0 .. dwMaxNum - 2]
  /\ stLastTime \in [Procs -> 0 .. now]
  /\ excused \in [Procs -> BOOLEAN] /\ late \subseteq 1 .. written

LEMMA ShapeIs == TypeOK <=> Shape
BY DEF TypeOK, Shape, Files, FileOf, Message

LEMMA ShapeIsNext == TypeOK' <=> Shape'
BY ShapeIs, PTL

\* The processes that write are finitely many.
LEMMA WritersFinite == IsFiniteSet(Writers) /\ Cardinality(Writers) \in Nat
BY LoggerAssumption, FS_Subset, FS_CardinalityType DEF Writers

\* Who writes goes on or stops; one that starts is one more.
LEMMA WritersNext ==
  ASSUME TypeOK, NEW p \in Procs, \A q \in Procs \ {p} : pc'[q] = pc[q]
  PROVE  /\ Writers' = IF pc'[p] = "write" THEN Writers \cup {p} ELSE Writers \ {p}
         /\ IsFiniteSet(Writers') /\ Cardinality(Writers') \in Nat
         /\ Cardinality(Writers') =
              IF pc'[p] = "write"
              THEN (IF pc[p] = "write" THEN Cardinality(Writers) ELSE Cardinality(Writers) + 1)
              ELSE (IF pc[p] = "write" THEN Cardinality(Writers) - 1 ELSE Cardinality(Writers))
<1>1. Writers' = IF pc'[p] = "write" THEN Writers \cup {p} ELSE Writers \ {p}
  BY DEF Writers
<1>2. IsFiniteSet(Writers') /\ Cardinality(Writers') \in Nat
  BY LoggerAssumption, FS_Subset, FS_CardinalityType DEF Writers
<1>3. p \in Writers <=> pc[p] = "write"
  BY DEF Writers
<1>4. QED
  BY <1>1, <1>2, <1>3, WritersFinite, FS_AddElement, FS_RemoveElement

LEMMA SameRoom ==
  ASSUME Room, UNCHANGED <<iType, written>>, Cardinality(Writers)' = Cardinality(Writers)
  PROVE  Room'
BY DEF Room, Limit

\* What NextFile does to the process and the number of its file.
LEMMA NextFileEffect ==
  ASSUME TypeOK, NEW p \in Procs, NextFile(p)
  PROVE  /\ pc' = [pc EXCEPT ![p] = IF szLogFileName[p] = 0 THEN "time" ELSE "access"]
         /\ szLogFileName' = [szLogFileName EXCEPT ![p] = IF @ = 0 THEN 0 ELSE @ - 1]
         /\ szLogFileName' \in [Procs -> 0 .. dwMaxNum - 2]
<1>1. szLogFileName \in [Procs -> 0 .. dwMaxNum - 2]
  BY Numbers
<1>2. pc' = [pc EXCEPT ![p] = IF szLogFileName[p] = 0 THEN "time" ELSE "access"]
  BY DEF NextFile
<1>3. szLogFileName' = [szLogFileName EXCEPT ![p] = IF @ = 0 THEN 0 ELSE @ - 1]
  BY <1>1 DEF NextFile
<1>4. szLogFileName[p] # 0 => szLogFileName[p] - 1 \in 0 .. dwMaxNum - 2
  BY <1>1, Numbers
<1>5. szLogFileName' \in [Procs -> 0 .. dwMaxNum - 2]
  BY <1>1, <1>3, <1>4
<1>6. QED
  BY <1>2, <1>3, <1>5

\* No file exists and nothing is written.
LEMMA InitBase == ASSUME Init PROVE Base
<1>1. Limit \in Nat /\ 1 \in 1 .. MaxTime
  BY LoggerAssumption DEF Limit
<1>2. file \in [Files -> FileOf(written, now)]
  BY NoFileIsEmpty DEF Init, Files
<1>3. Shape
  BY <1>1, <1>2, LoggerAssumption DEF Init, Shape
<1>4. Writers = {}
  BY DEF Init, Writers
<1>5. Room
  BY <1>1, <1>4, FS_EmptySet DEF Init, Room
<1>6. HandlesSound
  BY DEF Init, HandlesSound
<1>7. QED
  BY <1>3, <1>5, <1>6, ShapeIs DEF Base

\* Every call of the system keeps the types and the numbers in reserve.
LEMMA StepTypes ==
  ASSUME Base, [Next]_vars
  PROVE  TypeOK' /\ Room'
<1> USE DEF Base
<1>0. TypeOK /\ Shape /\ Limit \in Nat /\ now \in Nat \ {0} /\ written \in Nat
      /\ file \in [Files -> FileOf(written, now)]
  BY ShapeIs, Numbers
<1>1. ASSUME NEW p \in Procs, Open(p) PROVE Shape' /\ Room'
  <2>1. /\ file' \in [Files -> FileOf(written, now)] /\ szLogFileName[p] \in Files
        /\ handle' = [handle EXCEPT ![p] = szLogFileName[p]]
    BY <1>0, <1>1, OpenEffect
  <2>2. /\ pc' = [pc EXCEPT ![p] = "write"] /\ pc[p] = "idle"
        /\ UNCHANGED <<iType, now, struct, written, excused, late>>
        /\ written + Cardinality(Writers) < Limit
    BY <1>1 DEF Open, Writers
  <2>a. handle' \in [Procs -> 0 .. dwMaxNum]
    BY <1>0, <2>1, Numbers DEF Files
  <2>3. Shape'
    BY <1>0, <2>1, <2>2, <2>a DEF Shape, Limit, struct
  <2>4. Cardinality(Writers)' = Cardinality(Writers) + 1
    BY <1>0, <2>2, WritersNext DEF Shape
  <2>5. Room'
    BY <1>0, <2>2, <2>4, WritersFinite DEF Room, Limit
  <2>6. QED
    BY <2>3, <2>5
<1>2. ASSUME NEW p \in Procs, Write(p) PROVE Shape' /\ Room'
  <2>1. file' \in [Files -> FileOf(written + 1, now)]
    BY <1>0, <1>2, WriteEffect
  <2>2. /\ pc' = [pc EXCEPT ![p] = "stat"] /\ pc[p] = "write" /\ written' = written + 1
        /\ late' \in {late \cup {written + 1}, late}
        /\ handle' = [handle EXCEPT ![p] = 0] /\ excused' = [excused EXCEPT ![p] = FALSE]
        /\ UNCHANGED <<iType, now, struct>>
    BY <1>2 DEF Write
  <2>3. Cardinality(Writers)' = Cardinality(Writers) - 1 /\ Cardinality(Writers)' \in Nat
    BY <1>0, <2>2, WritersNext DEF Shape
  <2>4. Room' /\ written' \in 0 .. Limit
    BY <1>0, <2>2, <2>3, WritersFinite DEF Room, Limit
  <2>5. late' \subseteq 1 .. written'
    BY <1>0, <2>2 DEF Shape
  <2>6. Shape'
    BY <1>0, <2>1, <2>2, <2>4, <2>5, LoggerAssumption DEF Shape, Limit, struct
  <2>7. QED
    BY <2>4, <2>6
<1>3. ASSUME NEW p \in Procs, Stat(p) \/ Access(p) PROVE Shape' /\ Room'
  <2>1. /\ UNCHANGED <<iType, file, now, handle, stLastTime, written, excused, late>>
        /\ szLogFileName' \in [Procs -> 0 .. dwMaxNum - 2]
        /\ pc[p] # "write"
        /\ \E to \in {"idle", "access", "rename", "time"} : pc' = [pc EXCEPT ![p] = to]
    <3>1. CASE Stat(p)
      BY <1>0, <3>1, LoggerAssumption DEF Stat, BaseName, LastShifted, Shape
    <3>2. CASE Access(p)
      BY <1>0, <3>2, NextFileEffect DEF Access, Shape, history
    <3>3. QED
      BY <1>3, <3>1, <3>2
  <2>2. Shape'
    BY <1>0, <2>1 DEF Shape, Limit
  <2>3. Cardinality(Writers)' = Cardinality(Writers)
    BY <1>0, <2>1, WritersNext DEF Shape
  <2>4. QED
    BY <2>1, <2>2, <2>3, SameRoom
<1>4. ASSUME NEW p \in Procs, Rename(p) PROVE Shape' /\ Room'
  <2>1. file' \in [Files -> FileOf(written, now)] /\ szLogFileName[p] \in 0 .. dwMaxNum - 2
    BY <1>0, <1>4, RenameEffect
  <2>2. /\ UNCHANGED <<iType, now, stLastTime, written, late>>
        /\ pc[p] = "rename" /\ NextFile(p)
        /\ excused' = [q \in Procs |-> excused[q] \/ handle'[q] # handle[q]]
        /\ handle' = [q \in Procs |-> IF pc[q] = "write"
                                      THEN Moved(handle[q], szLogFileName[p], szLogFileName[p] + 1)
                                      ELSE handle[q]]
    BY <1>4 DEF Rename
  <2>3. /\ szLogFileName' \in [Procs -> 0 .. dwMaxNum - 2]
        /\ \E to \in {"access", "time"} : pc' = [pc EXCEPT ![p] = to]
    BY <1>0, <2>2, NextFileEffect
  <2>4. handle' \in [Procs -> 0 .. dwMaxNum]
    BY <1>0, <2>1, <2>2, LoggerAssumption DEF Shape, Moved
  <2>5. excused' \in [Procs -> BOOLEAN]
    BY <1>0, <2>2 DEF Shape
  <2>6. Shape'
    BY <1>0, <2>1, <2>2, <2>3, <2>4, <2>5 DEF Shape, Limit
  <2>7. Cardinality(Writers)' = Cardinality(Writers)
    BY <1>0, <2>2, <2>3, WritersNext DEF Shape
  <2>8. QED
    BY <2>2, <2>6, <2>7, SameRoom
<1>5. ASSUME NEW p \in Procs, RenameFails(p) \/ TakeTime(p) PROVE Shape' /\ Room'
  <2>1. /\ UNCHANGED <<iType, file, now, handle, szLogFileName, written, late>>
        /\ stLastTime' \in [Procs -> 0 .. now] /\ excused' \in [Procs -> BOOLEAN]
        /\ pc[p] # "write" /\ pc' = [pc EXCEPT ![p] = "idle"]
    <3>1. CASE RenameFails(p)
      BY <1>0, <3>1 DEF RenameFails, KeepsTime, Shape
    <3>2. CASE TakeTime(p)
      BY <1>0, <3>2 DEF TakeTime, Shape, history
    <3>3. QED
      BY <1>5, <3>1, <3>2
  <2>2. Shape'
    BY <1>0, <2>1 DEF Shape, Limit
  <2>3. Cardinality(Writers)' = Cardinality(Writers)
    BY <1>0, <2>1, WritersNext DEF Shape
  <2>4. QED
    BY <2>1, <2>2, <2>3, SameRoom
<1>6. ASSUME NEW p \in Procs, Restart(p) PROVE Shape' /\ Room'
  <2>1. /\ UNCHANGED <<iType, file, now, written, late>>
        /\ pc' = [pc EXCEPT ![p] = "idle"] /\ handle' = [handle EXCEPT ![p] = 0]
        /\ szLogFileName' = [szLogFileName EXCEPT ![p] = 0]
        /\ stLastTime' = [stLastTime EXCEPT ![p] = 0] /\ excused' = [excused EXCEPT ![p] = FALSE]
    BY <1>6 DEF Restart
  <2>2. Shape'
    BY <1>0, <2>1, LoggerAssumption DEF Shape, Limit
  <2>3. Cardinality(Writers)' <= Cardinality(Writers) /\ Cardinality(Writers)' \in Nat
    BY <1>0, <2>1, WritersNext, WritersFinite DEF Shape
  <2>4. QED
    BY <1>0, <2>1, <2>2, <2>3, WritersFinite DEF Room, Limit
<1>7. CASE Clock
  <2>1. /\ UNCHANGED <<iType, file, pc, handle, struct, written, excused, late>>
        /\ now' = now + 1 /\ now < MaxTime
    BY <1>7 DEF Clock
  <2>2. file' \in [Files -> FileOf(written', now')]
    <3>1. \A i \in Files : file[i] \in FileOf(written', now')
      BY <1>0, <2>1, LaterFile
    <3>2. QED
      BY <1>0, <2>1, <3>1
  <2>3. Shape'
    BY <1>0, <2>1, <2>2, LoggerAssumption DEF Shape, Limit, struct
  <2>4. Cardinality(Writers)' = Cardinality(Writers)
    BY <2>1 DEF Writers
  <2>5. QED
    BY <2>1, <2>3, <2>4, SameRoom, ShapeIsNext
<1>8. CASE StartOver
  <2>1. file' \in [Files -> FileOf(written', now')]
    BY <1>8, NoFileIsEmpty DEF StartOver, Files
  <2>2. Shape'
    BY <1>0, <1>8, <2>1, LoggerAssumption DEF StartOver, Shape, Limit
  <2>3. Cardinality(Writers)' = Cardinality({})
    BY <1>8 DEF StartOver, Writers
  <2>4. QED
    <3>1. Cardinality(Writers)' = 0 /\ written' = 0 /\ Limit' = Limit
      BY <1>8, <2>3, FS_EmptySet DEF StartOver, Limit
    <3>2. QED
      BY <1>0, <2>2, <3>1, ShapeIsNext DEF Room
<1>9. CASE UNCHANGED vars
  <2>1. UNCHANGED <<iType, file, now, pc, handle, szLogFileName, stLastTime, written, excused, late>>
    BY <1>9 DEF vars, struct, history
  <2>2. Cardinality(Writers)' = Cardinality(Writers)
    BY <2>1 DEF Writers
  <2>3. Shape'
    BY <1>0, <2>1 DEF Shape, Limit
  <2>4. QED
    BY <2>1, <2>2, <2>3, SameRoom, ShapeIsNext
<1>10. QED
  BY <1>1, <1>2, <1>3, <1>4, <1>5, <1>6, <1>7, <1>8, <1>9, ShapeIsNext DEF Next

\* A file with a time is there.
LEMMA TimeMeansFile == \A i : file[i].mtime # 0 => Exists(i)
BY DEF Exists, NoFile

LEMMA TimeMeansFileNext == \A i : file'[i].mtime # 0 => Exists(i)'
BY DEF Exists, NoFile

\* Every call of the system keeps what is known of the names and the open files.
LEMMA StepHandles ==
  ASSUME Base, [Next]_vars
  PROVE  HandlesSound'
<1> USE DEF Base
<1>0. /\ TypeOK /\ now \in Nat \ {0} /\ dwMaxNum \in Nat \ {0, 1} /\ 0 \in Files
      /\ file \in [Files -> FileOf(written, now)]
      /\ pc \in [Procs -> {"idle", "write", "stat", "access", "rename", "time"}]
      /\ handle \in [Procs -> 0 .. dwMaxNum] /\ szLogFileName \in [Procs -> 0 .. dwMaxNum - 2]
      /\ excused \in [Procs -> BOOLEAN]
  BY Numbers, ShapeIs DEF Shape, Files
<1>1. ASSUME NEW p \in Procs, Open(p) PROVE HandlesSound'
  <2>1. /\ pc' = [pc EXCEPT ![p] = "write"] /\ pc[p] = "idle"
        /\ handle' = [handle EXCEPT ![p] = szLogFileName[p]]
        /\ UNCHANGED <<szLogFileName, excused>>
    BY <1>1 DEF Open, struct
  <2>2. Exists(szLogFileName[p])' /\ \A i \in Files : Exists(i) => Exists(i)'
    <3>1. PICK s : s = szLogFileName[p]
      OBVIOUS
    <3>2. Exists(s)' /\ \A i \in Files : Exists(i) => Exists(i)'
      BY <1>0, <1>1, <3>1, OpenEffect
    <3>3. szLogFileName'[p] = s
      BY <2>1, <3>1
    <3>4. QED
      BY <3>2, <3>3 DEF Exists
  <2>3. QED
    BY <1>0, <2>1, <2>2 DEF HandlesSound, Exists, Files
<1>2. ASSUME NEW p \in Procs, Write(p) PROVE HandlesSound'
  <2>1. /\ pc' = [pc EXCEPT ![p] = "stat"] /\ pc[p] = "write"
        /\ handle' = [handle EXCEPT ![p] = 0] /\ excused' = [excused EXCEPT ![p] = FALSE]
        /\ UNCHANGED szLogFileName
    BY <1>2 DEF Write, struct
  <2>2. \A i \in Files : Exists(i) => Exists(i)'
    <3>1. \A i \in Files : file'[i] = file[i] \/ file'[i].mtime = now
      BY <1>0, <1>2, WriteEffect
    <3>2. QED
      BY <1>0, <3>1, TimeMeansFileNext DEF Exists
  <2>3. QED
    BY <1>0, <2>1, <2>2 DEF HandlesSound, Exists, Files
<1>3. ASSUME NEW p \in Procs, Rename(p) PROVE HandlesSound'
  <2>0. PICK s : s = szLogFileName[p] /\ s \in 0 .. dwMaxNum - 2
    BY <1>0
  <2>1. /\ pc' = [pc EXCEPT ![p] = IF s = 0 THEN "time" ELSE "access"]
        /\ szLogFileName' = [szLogFileName EXCEPT ![p] = IF @ = 0 THEN 0 ELSE @ - 1]
        /\ pc[p] = "rename" /\ Exists(s)
        /\ handle' = [q \in Procs |-> IF pc[q] = "write" THEN Moved(handle[q], s, s + 1)
                                                         ELSE handle[q]]
        /\ excused' = [q \in Procs |-> excused[q] \/ handle'[q] # handle[q]]
    BY <1>0, <1>3, <2>0, NextFileEffect DEF Rename
  <2>2. \A i \in Files : /\ i = s + 1 => file'[i] = file[s]
                         /\ i \notin {s, s + 1} => file'[i] = file[i]
    BY <1>0, <1>3, <2>0, RenameEffect
  <2>3. ASSUME NEW q \in Procs, pc'[q] = "write"
        PROVE  /\ excused'[q] <=> handle'[q] # 0
               /\ handle'[q] # dwMaxNum => Exists(handle[q])'
    <3>1. PICK h : h = handle[q] /\ h \in 0 .. dwMaxNum
      BY <1>0
    <3>2. pc[q] = "write" /\ handle'[q] = Moved(h, s, s + 1)
      BY <1>0, <2>1, <2>3, <3>1
    <3>3. excused[q] <=> h # 0
      BY <3>1, <3>2 DEF HandlesSound
    <3>4. excused'[q] <=> handle'[q] # 0
      <4>1. Moved(h, s, s + 1) # 0 <=> h # 0 \/ Moved(h, s, s + 1) # h
        BY <1>0, <2>0, <3>1 DEF Moved
      <4>2. excused'[q] = (excused[q] \/ Moved(h, s, s + 1) # h)
        BY <2>1, <3>1, <3>2, Zenon
      <4>3. QED
        BY <3>2, <3>3, <4>1, <4>2, Zenon
    <3>5. h # dwMaxNum => h \in Files /\ Exists(h)
      BY <1>0, <3>1, <3>2 DEF HandlesSound, Files
    <3>6. handle'[q] # dwMaxNum => Exists(handle[q])'
      BY <1>0, <2>0, <2>1, <2>2, <3>1, <3>2, <3>5 DEF Moved, Exists, Files
    <3>7. QED
      BY <3>4, <3>6
  <2>4. ASSUME NEW q \in Procs, pc'[q] # "write"
        PROVE  /\ pc'[q] = "idle" => (excused'[q] <=> szLogFileName'[q] # 0)
               /\ pc'[q] # "idle" => ~excused'[q]
               /\ pc'[q] = "time" => szLogFileName'[q] = 0
    <3>1. excused'[q] = excused[q]
      BY <1>0, <2>1, <2>4
    <3>2. CASE q = p
      BY <1>0, <2>0, <2>1, <3>1, <3>2 DEF HandlesSound
    <3>3. CASE q # p
      BY <1>0, <2>1, <2>4, <3>1, <3>3 DEF HandlesSound
    <3>4. QED
      BY <3>2, <3>3
  <2>5. QED
    BY <2>3, <2>4 DEF HandlesSound
<1>4. ASSUME NEW p \in Procs, Stat(p) \/ Access(p) \/ RenameFails(p) \/ TakeTime(p) \/ Restart(p)
      PROVE  HandlesSound'
  <2>1. /\ file' = file
        /\ \A q \in Procs \ {p} : /\ pc'[q] = pc[q] /\ szLogFileName'[q] = szLogFileName[q]
                                  /\ excused'[q] = excused[q]
        /\ \A q \in Procs \ {p} : handle'[q] = handle[q]
        /\ pc'[p] # "write"
        /\ pc'[p] = "idle" => (excused'[p] <=> szLogFileName'[p] # 0)
        /\ pc'[p] # "idle" => ~excused'[p]
        /\ pc'[p] = "time" => szLogFileName'[p] = 0
    <3>1. CASE Stat(p)
      BY <1>0, <3>1 DEF Stat, BaseName, HandlesSound
    <3>2. CASE Access(p)
      BY <1>0, <3>2, NextFileEffect DEF Access, history, HandlesSound
    <3>3. CASE RenameFails(p)
      BY <1>0, <3>3 DEF RenameFails
    <3>4. CASE TakeTime(p)
      BY <1>0, <3>4 DEF TakeTime, history, HandlesSound
    <3>5. CASE Restart(p)
      BY <1>0, <3>5 DEF Restart
    <3>6. QED
      BY <1>4, <3>1, <3>2, <3>3, <3>4, <3>5
  <2>2. QED
    BY <2>1 DEF HandlesSound, Exists
<1>5. CASE Clock \/ UNCHANGED vars
  BY <1>5 DEF Clock, vars, struct, history, HandlesSound, Exists
<1>6. CASE StartOver
  BY <1>6 DEF StartOver, HandlesSound
<1>7. QED
  BY <1>1, <1>2, <1>3, <1>4, <1>5, <1>6 DEF Next

(***************************************************************************)
(* The types hold.                                                         *)
(***************************************************************************)
THEOREM LoggerInvariance == Spec => []Base
<1>1. Init => Base
  BY InitBase
<1>2. Base /\ [Next]_vars => Base'
  BY StepTypes, StepHandles DEF Base
<1>3. QED
  BY <1>1, <1>2, PTL DEF Spec

\* For any number of processes and files, every variable keeps its type; the
\* file a process names is one that Logger_ShiftFile renames, and never the last.
THEOREM LoggerTypeCorrect == Spec => []TypeOK
BY LoggerInvariance, PTL DEF Base

(***************************************************************************)
(* The files stay in order.                                                *)
(***************************************************************************)
LEMMA MessageTypes ==
  ASSUME TypeOK, NEW i \in Files, NEW m \in Messages(i)
  PROVE  m.id \in 1 .. written /\ m.day \in 1 .. now
<1>1. file[i] \in FileOf(written, now)
  BY Numbers
<1>2. PICK s : s = file[i].msgs
  OBVIOUS
<1>3. s \in Seq(Message(written, now)) /\ \E k \in DOMAIN s : m = s[k]
  BY <1>1, <1>2 DEF FileOf, Messages
<1>4. m \in Message(written, now)
  BY <1>3, ElementOfSeq, LenProperties
<1>5. QED
  BY <1>4 DEF Message

\* Only Write and Rename change what is in the files, and StartOver.
LEMMA MessagesStay ==
  ASSUME TypeOK, NEW p \in Procs,
         Open(p) \/ Stat(p) \/ Access(p) \/ RenameFails(p) \/ TakeTime(p) \/ Restart(p)
  PROVE  /\ \A i \in Files : Messages(i)' = Messages(i) /\ file'[i].msgs = file[i].msgs
         /\ UNCHANGED <<iType, written, late, now>>
<1>1. CASE Open(p)
  BY <1>1, OpenEffect DEF Open
<1>2. CASE Stat(p) \/ Access(p) \/ RenameFails(p) \/ TakeTime(p) \/ Restart(p)
  <2>1. UNCHANGED <<file, iType, written, late, now>>
    BY <1>2 DEF Stat, Access, RenameFails, TakeTime, Restart, history
  <2>2. QED
    BY <2>1 DEF Messages
<1>3. QED
  BY <1>1, <1>2

\* A new message is the latest; in an archive it is among the excepted.
LEMMA WriteOrdered ==
  ASSUME Base, OrderedFiles, NEW p \in Procs, Write(p)
  PROVE  OrderedFiles'
<1> USE DEF Base
<1>0. PICK h, new : h = handle[p] /\ new = [id |-> written + 1, day |-> now]
  OBVIOUS
<1>1. /\ written \in Nat /\ h \in 0 .. dwMaxNum /\ pc[p] = "write"
      /\ new.id = written + 1
  BY <1>0, Numbers DEF Write
<1>2. /\ \A i \in Files \ {h} : Messages(i)' = Messages(i)
      /\ h \in Files => Messages(h)' = Messages(h) \cup {new}
  BY <1>0, WriteEffect
<1>3. late' = IF excused[p] THEN late \cup {written + 1} ELSE late
  BY DEF Write
<1>4. h # 0 => written + 1 \in late'
  BY <1>0, <1>1, <1>3 DEF HandlesSound
<1>5. late \subseteq late'
  BY <1>3
<1>6. SUFFICES ASSUME NEW i \in Files, NEW j \in Files, i < j,
                      NEW n \in Messages(i)', NEW o \in Messages(j)'
               PROVE  o.id < n.id \/ {o.id, n.id} \cap late' # {}
  BY DEF OrderedFiles, Files
<1>7. CASE o = new /\ h = j
  BY <1>1, <1>4, <1>6, <1>7 DEF Files
<1>8. CASE ~(o = new /\ h = j)
  <2>1. o \in Messages(j)
    BY <1>2, <1>8
  <2>2. CASE n \in Messages(i)
    <3>1. o.id < n.id \/ {o.id, n.id} \cap late # {}
      BY <1>6, <2>1, <2>2 DEF OrderedFiles, Files
    <3>2. QED
      BY <1>5, <3>1
  <2>3. CASE n = new
    BY <1>1, <2>1, <2>3, MessageTypes
  <2>4. QED
    BY <1>2, <2>2, <2>3
<1>9. QED
  BY <1>7, <1>8

\* A rename leaves every file between the same two.
LEMMA RenameOrdered ==
  ASSUME TypeOK, OrderedFiles, NEW p \in Procs, Rename(p)
  PROVE  OrderedFiles'
<1>0. PICK s : s = szLogFileName[p]
  OBVIOUS
<1>1. /\ s \in Nat /\ late' = late
      /\ \A i \in Files : /\ i = s + 1 => Messages(i)' = Messages(i - 1)
                          /\ i = s => Messages(i)' = {}
                          /\ i \notin {s, s + 1} => Messages(i)' = Messages(i)
  <2>1. /\ s \in 0 .. dwMaxNum - 2
        /\ \A i \in Files : /\ i = s + 1 => Messages(i)' = Messages(i - 1)
                            /\ i = s => Messages(i)' = {}
                            /\ i \notin {s, s + 1} => Messages(i)' = Messages(i)
    BY <1>0, RenameEffect
  <2>2. QED
    BY <2>1 DEF Rename
<1>2. SUFFICES ASSUME NEW i \in Files, NEW j \in Files, i < j,
                      NEW n \in Messages(i)', NEW o \in Messages(j)'
               PROVE  o.id < n.id \/ {o.id, n.id} \cap late # {}
  BY <1>1 DEF OrderedFiles, Files
<1>3. PICK k : k = IF i = s + 1 THEN s ELSE i
  OBVIOUS
<1>4. PICK l : l = IF j = s + 1 THEN s ELSE j
  OBVIOUS
<1>5. i # s /\ j # s /\ n \in Messages(k) /\ o \in Messages(l)
  BY <1>1, <1>2, <1>3, <1>4 DEF Files
<1>6. k \in Files /\ l \in Files /\ k < l
  BY <1>1, <1>2, <1>3, <1>4, <1>5, Numbers DEF Files
<1>7. QED
  BY <1>5, <1>6 DEF OrderedFiles, Files

LEMMA StepOrdered ==
  ASSUME Base, OrderedFiles, [Next]_vars
  PROVE  OrderedFiles'
<1> USE DEF Base
<1>1. ASSUME NEW p \in Procs,
             Open(p) \/ Stat(p) \/ Access(p) \/ RenameFails(p) \/ TakeTime(p) \/ Restart(p)
      PROVE  OrderedFiles'
  BY <1>1, MessagesStay DEF OrderedFiles, Files
<1>2. CASE Clock \/ UNCHANGED vars
  BY <1>2 DEF Clock, vars, history, OrderedFiles, Messages
<1>3. CASE StartOver
  <2>1. \A i \in Files : Messages(i)' = {}
    <3>1. \A i \in Files : file'[i].msgs = <<>>
      BY <1>3, NoFileIsEmpty DEF StartOver, Files
    <3>2. QED
      BY <3>1 DEF Messages
  <2>2. QED
    BY <2>1 DEF OrderedFiles, Files
<1>4. QED
  BY <1>1, <1>2, <1>3, WriteOrdered, RenameOrdered DEF Next

\* A message in a file of a higher number is older, with any number of processes
\* whose rotations overlap, fail and are cut short, those messages excepted whose
\* file was moved, or was an archive left by a failed rename, before they were
\* written (the loop of Logger_ShiftFile starts with the last file, and Logger_Log
\* appends to the file it has open).
THEOREM LogsStayInOrder == Spec => []OrderedFiles
<1>1. ASSUME Init PROVE OrderedFiles
  <2>1. \A i \in Files : Messages(i) = {}
    BY <1>1 DEF Init, Files, Messages, NoFile
  <2>2. QED
    BY <2>1 DEF OrderedFiles, Files
<1>2. Base /\ OrderedFiles /\ [Next]_vars => OrderedFiles'
  BY StepOrdered
<1>3. QED
  BY <1>1, <1>2, LoggerInvariance, PTL DEF Spec

(***************************************************************************)
(* A log by days.                                                          *)
(***************************************************************************)
\* A file is as late as its messages; and those of base.log were written after
\* the last shift of every process, and on this day by one whose shift is done.
DaysOfFiles ==
  \A i \in Files : /\ \A msg \in Messages(i) : msg.day <= file[i].mtime
                   /\ Exists(i) => file[i].mtime # 0
DaysOfShifts ==
  iType = "T_LOG_DAY" /\ ~midnight =>
    \A p \in Procs, msg \in Messages(0) : /\ stLastTime[p] <= msg.day
                                          /\ pc[p] = "time" => now <= msg.day
Days == DaysOfFiles /\ DaysOfShifts

\* Files that stay, or are one further, are as late as before.
LEMMA StepDaysOfFiles ==
  ASSUME Base, Days, [Next]_vars
  PROVE  DaysOfFiles'
<1> USE DEF Base
<1>0. /\ TypeOK /\ now \in Nat \ {0} /\ written \in Nat
      /\ file \in [Files -> FileOf(written, now)] /\ DaysOfFiles
  BY Numbers DEF Days
<1>1. ASSUME NEW p \in Procs, Open(p) PROVE DaysOfFiles'
  <2>1. \A i \in Files : /\ Messages(i)' = Messages(i)
                         /\ Exists(i) => file'[i] = file[i]
                         /\ ~Exists(i) => Messages(i) = {} /\ file'[i].mtime \in {0, now}
    <3>1. \A i \in Files : ~Exists(i) => Messages(i) = {}
      BY DEF Exists, Messages, NoFile
    <3>2. QED
      BY <1>0, <1>1, <3>1, OpenEffect
  <2>2. \A i \in Files : ~Exists(i) => file'[i] = file[i] \/ file'[i].mtime = now
    BY <1>0, <1>1, OpenEffect DEF Open
  <2>3. QED
    BY <1>0, <2>1, <2>2 DEF DaysOfFiles, Exists
<1>2. ASSUME NEW p \in Procs, Write(p) PROVE DaysOfFiles'
  <2>1. PICK h, new : h = handle[p] /\ new = [id |-> written + 1, day |-> now]
    OBVIOUS
  <2>2. \A i \in Files :
          IF i = h THEN Messages(i)' = Messages(i) \cup {new} /\ file'[i].mtime = now
                   ELSE file'[i] = file[i] /\ Messages(i)' = Messages(i)
    BY <1>0, <1>2, <2>1, WriteEffect
  <2>3. \A i \in Files : \A msg \in Messages(i) \cup {new} : msg.day <= now
    BY <1>0, <2>1, MessageTypes
  <2>4. ASSUME NEW i \in Files
        PROVE  /\ \A msg \in Messages(i)' : msg.day <= file'[i].mtime
               /\ Exists(i)' => file'[i].mtime # 0
    BY <1>0, <2>2, <2>3, <2>4 DEF DaysOfFiles, Exists
  <2>5. QED
    BY <2>4 DEF DaysOfFiles
<1>3. ASSUME NEW p \in Procs, Rename(p) PROVE DaysOfFiles'
  <2>1. PICK s : s = szLogFileName[p]
    OBVIOUS
  <2>2. /\ s \in 0 .. dwMaxNum - 2
        /\ \A i \in Files :
             /\ i = s + 1 => file'[i] = file[i - 1] /\ Messages(i)' = Messages(i - 1)
             /\ i = s => file'[i] = NoFile /\ Messages(i)' = {}
             /\ i \notin {s, s + 1} => file'[i] = file[i] /\ Messages(i)' = Messages(i)
    BY <1>0, <1>3, <2>1, RenameEffect
  <2>3. s \in Files /\ (s + 1) - 1 = s
    BY <2>2, Numbers DEF Files
  <2>4. ASSUME NEW i \in Files
        PROVE  /\ \A msg \in Messages(i)' : msg.day <= file'[i].mtime
               /\ Exists(i)' => file'[i].mtime # 0
    BY <1>0, <2>2, <2>3, <2>4 DEF DaysOfFiles, Exists
  <2>5. QED
    BY <2>4 DEF DaysOfFiles
<1>4. CASE StartOver
  <2>1. \A i \in Files : file'[i] = NoFile
    BY <1>4 DEF StartOver, Files
  <2>2. \A i \in Files : Messages(i)' = {} /\ ~Exists(i)'
    BY <2>1 DEF Messages, Exists, NoFile
  <2>3. QED
    BY <2>2 DEF DaysOfFiles
<1>5. CASE file' = file
  BY <1>0, <1>5 DEF DaysOfFiles, Messages, Exists
<1>6. ASSUME NEW p \in Procs, Stat(p) \/ Access(p) \/ RenameFails(p) \/ TakeTime(p) \/ Restart(p)
      PROVE  file' = file
  BY <1>6 DEF Stat, Access, RenameFails, TakeTime, Restart
<1>7. Clock \/ UNCHANGED vars => file' = file
  BY DEF Clock, vars
<1>8. QED
  BY <1>1, <1>2, <1>3, <1>4, <1>5, <1>6, <1>7 DEF Next

LEMMA StepDaysOfShifts ==
  ASSUME Base, Days, [Next]_vars
  PROVE  DaysOfShifts'
<1> USE DEF Base
<1>0. /\ TypeOK /\ now \in Nat \ {0} /\ 0 \in Files /\ DaysOfShifts
      /\ pc \in [Procs -> {"idle", "write", "stat", "access", "rename", "time"}]
      /\ stLastTime \in [Procs -> 0 .. now]
  BY Numbers, ShapeIs DEF Shape, Files, Days
<1>1. \A msg \in Messages(0) : msg.day \in 1 .. now
  BY <1>0, MessageTypes
<1>2. ASSUME NEW p \in Procs, Open(p) \/ Stat(p) \/ RenameFails(p) \/ TakeTime(p) \/ Restart(p)
      PROVE  DaysOfShifts'
  <2>1. /\ Messages(0)' = Messages(0) /\ UNCHANGED <<iType, now, midnight>>
        /\ \A q \in Procs : \/ stLastTime'[q] = stLastTime[q]
                            \/ stLastTime'[q] = now /\ pc[q] = "time"
                            \/ stLastTime'[q] = 0
        /\ \A q \in Procs : pc'[q] = "time" => pc[q] = "time"
    <3>1. Messages(0)' = Messages(0)
      BY <1>0, <1>2, MessagesStay
    <3>2. CASE Open(p) \/ Stat(p) \/ RenameFails(p) \/ Restart(p)
      BY <1>0, <3>1, <3>2 DEF Open, Stat, RenameFails, KeepsTime, Restart, struct
    <3>3. CASE TakeTime(p)
      BY <1>0, <3>1, <3>3 DEF TakeTime, history
    <3>4. QED
      BY <1>2, <3>2, <3>3
  <2>2. QED
    BY <1>0, <1>1, <2>1 DEF DaysOfShifts
<1>3. ASSUME NEW p \in Procs, Access(p) PROVE DaysOfShifts'
  <2>1. /\ Messages(0)' = Messages(0) /\ UNCHANGED <<iType, now, midnight, stLastTime>>
    BY <1>0, <1>3, MessagesStay DEF Access, history
  <2>2. \A q \in Procs : pc'[q] = "time" => pc[q] = "time" \/ ~Exists(0)
    BY <1>0, <1>3, NextFileEffect DEF Access
  <2>3. ~Exists(0) => Messages(0) = {}
    BY DEF Exists, Messages, NoFile
  <2>4. QED
    BY <1>0, <2>1, <2>2, <2>3 DEF DaysOfShifts
<1>4. ASSUME NEW p \in Procs, Rename(p) PROVE DaysOfShifts'
  <2>1. PICK s : s = szLogFileName[p] /\ s \in 0 .. dwMaxNum - 2
    BY Numbers
  <2>2. /\ s = 0 => Messages(0)' = {}
        /\ s # 0 => Messages(0)' = Messages(0)
    BY <1>0, <1>4, <2>1, RenameEffect
  <2>3. UNCHANGED <<iType, now, midnight, stLastTime>>
    BY <1>4 DEF Rename
  <2>4. s # 0 => \A q \in Procs : pc'[q] = "time" => pc[q] = "time"
    BY <1>0, <1>4, <2>1, NextFileEffect DEF Rename
  <2>5. QED
    BY <1>0, <2>2, <2>3, <2>4 DEF DaysOfShifts
<1>5. ASSUME NEW p \in Procs, Write(p) PROVE DaysOfShifts'
  <2>1. PICK new : new = [id |-> written + 1, day |-> now]
    OBVIOUS
  <2>2. Messages(0)' \subseteq Messages(0) \cup {new}
    BY <1>0, <1>5, <2>1, WriteEffect
  <2>3. /\ UNCHANGED <<iType, now, midnight, stLastTime>>
        /\ \A q \in Procs : pc'[q] = "time" => pc[q] = "time"
    BY <1>0, <1>5 DEF Write, struct
  <2>4. new.day = now /\ \A q \in Procs : stLastTime[q] <= now
    BY <1>0, <2>1
  <2>5. QED
    BY <1>0, <2>2, <2>3, <2>4 DEF DaysOfShifts
<1>6. CASE Clock
  <2>1. /\ Messages(0)' = Messages(0) /\ UNCHANGED <<iType, pc, stLastTime>>
        /\ ~midnight' => ~midnight /\ \A p \in Procs : pc[p] # "time"
    BY <1>6 DEF Clock, Messages, Rotating, struct
  <2>2. QED
    BY <1>0, <2>1 DEF DaysOfShifts
<1>7. CASE StartOver
  <2>1. file'[0].msgs = <<>>
    BY <1>0, <1>7, NoFileIsEmpty DEF StartOver, Files
  <2>2. Messages(0)' = {}
    BY <2>1 DEF Messages
  <2>3. QED
    BY <2>2 DEF DaysOfShifts
<1>8. CASE UNCHANGED vars
  BY <1>0, <1>8 DEF vars, struct, history, DaysOfShifts, Messages
<1>9. QED
  BY <1>2, <1>3, <1>4, <1>5, <1>6, <1>7, <1>8 DEF Next

\* A process leaves the file as it is with the time of its last shift, or with
\* none when it was started again.
LEMMA TimeStays ==
  ASSUME TypeOK, [Next]_vars, NEW p \in Procs, pc[p] = "stat", pc'[p] = "idle"
  PROVE  stLastTime'[p] \in {stLastTime[p], 0}
<1>0. stLastTime \in [Procs -> 0 .. now]
  BY ShapeIs DEF Shape
<1>1. ASSUME NEW q \in Procs,
             \/ Open(q) \/ Write(q) \/ Stat(q) \/ Access(q) \/ Rename(q) \/ RenameFails(q)
      PROVE  stLastTime' = stLastTime
  BY <1>1 DEF Open, Write, Stat, Access, Rename, RenameFails, KeepsTime, struct
<1>2. ASSUME NEW q \in Procs, TakeTime(q) \/ Restart(q)
      PROVE  stLastTime'[p] \in {stLastTime[p], 0}
  BY <1>0, <1>2 DEF TakeTime, Restart
<1>3. Clock \/ UNCHANGED vars => stLastTime' = stLastTime
  BY DEF Clock, vars, struct
<1>4. StartOver => stLastTime'[p] = 0
  BY DEF StartOver
<1>5. QED
  BY <1>1, <1>2, <1>3, <1>4 DEF Next

\* On the day of its last shift a process leaves messages of that day only, with
\* any number of processes that shift the same files, fail and die: the file is
\* renamed before the time is taken (Logger_ShiftFile).
THEOREM OneDayIsKept == Spec => OneDayKept
<1>1. Init => Days
  <2>1. SUFFICES ASSUME Init PROVE Days
    OBVIOUS
  <2>2. \A i \in Files : Messages(i) = {} /\ ~Exists(i)
    BY <2>1 DEF Init, Files, Messages, Exists, NoFile
  <2>3. 0 \in Files
    BY LoggerAssumption DEF Files
  <2>4. QED
    BY <2>2, <2>3 DEF Days, DaysOfFiles, DaysOfShifts
<1>2. Base /\ Days /\ [Next]_vars => Days'
  BY StepDaysOfFiles, StepDaysOfShifts DEF Days
<1>3. Spec => [](Base /\ Days)
  BY <1>1, <1>2, LoggerInvariance, PTL DEF Spec
<1>4. Base /\ Days /\ [Next]_vars =>
        [iType = "T_LOG_DAY" /\ ~midnight =>
           \A p \in Procs :
             pc[p] = "stat" /\ pc'[p] = "idle" /\ szLogFileName'[p] = 0
               /\ Exists(0) /\ stLastTime'[p] = file[0].mtime
             => \A msg \in Messages(0) : msg.day = file[0].mtime]_vars
  <2>1. SUFFICES ASSUME Base, Days, [Next]_vars, iType = "T_LOG_DAY", ~midnight,
                        NEW p \in Procs, pc[p] = "stat", pc'[p] = "idle",
                        Exists(0), stLastTime'[p] = file[0].mtime, NEW msg \in Messages(0)
                 PROVE  msg.day = file[0].mtime
    OBVIOUS
  <2>2. 0 \in Files
    BY LoggerAssumption DEF Files
  <2>3. stLastTime'[p] = stLastTime[p]
    BY <2>1, <2>2, TimeStays DEF Base, Days, DaysOfFiles
  <2>4. stLastTime[p] <= msg.day /\ msg.day <= file[0].mtime
    BY <2>1, <2>2 DEF Days, DaysOfFiles, DaysOfShifts
  <2>5. file[0].mtime \in Nat /\ msg.day \in Nat
    <3>1. file[0] \in FileOf(written, now) /\ now \in Nat
      BY <2>1, <2>2, Numbers DEF Base
    <3>2. QED
      BY <2>1, <2>2, <3>1, MessageTypes DEF Base, FileOf
  <2>6. QED
    BY <2>1, <2>3, <2>4, <2>5
<1>5. QED
  BY <1>3, <1>4, PTL DEF Spec, OneDayKept

(***************************************************************************)
(* A log by size keeps the latest messages.                                *)
(***************************************************************************)
\* A message that is not excepted is fresh.  Since(m) counts the fresh ones that
\* were written after m: what m may be given up for.
Ids(i) == {msg.id : msg \in Messages(i)}
Fresh(i) == Ids(i) \ late
Since(m) == Cardinality((m + 1 .. written) \ late)
Size0 == Len(file[0].msgs)
Turning(p) == pc[p] \in {"access", "rename"}

\* How many files' worth of messages is newer than file i: the files before it,
\* and one less if a rotation has moved it but not yet the one before it.
Rank(i) == IF \E p \in Procs : Turning(p) /\ szLogFileName[p] + 2 <= i THEN i - 2 ELSE i - 1

Front == Ids(0) \cap late = {}
Alone == \A p, q \in Procs : Rotating(p) /\ Rotating(q) => p = q
FullWhenTurned == \A p \in Procs : Turning(p) => Exists(0) /\ Size0 >= dwMaxSize
Gap == \A p \in Procs :
         Turning(p) /\ szLogFileName[p] < LastShifted => Fresh(szLogFileName[p] + 1) = {}
ArchivesFresh == \A i \in Files \ {0} : Exists(i) => Fresh(i) # {}
Ranked ==
  ~torn => \A i \in Files \ {0} : \A m \in Fresh(i) : Since(m) >= Rank(i) * dwMaxSize + Size0
\* Whatever was torn, two files with fresh messages are a file's worth apart.
Apart ==
  \A i, j \in Files \ {0} :
    i < j /\ Fresh(i) # {} => \A m \in Fresh(j) : Since(m) >= dwMaxSize + Size0
BeforeBase == \A i \in Files \ {0} : \A m \in Fresh(i) : Since(m) >= Size0
LostLate ==
  \A m \in (1 .. written) \ late :
    (\E i \in Files : m \in Ids(i)) \/ Since(m) >= FilesKept * dwMaxSize

Places == Alone /\ FullWhenTurned /\ Gap /\ ArchivesFresh
Counts == Ranked /\ Apart /\ BeforeBase /\ LostLate
Undisturbed == iType = "T_LOG_LOOP" /\ ~disturbed
Latest == Front /\ (Undisturbed => Places /\ Counts)

LEMMA SinceType ==
  ASSUME TypeOK, NEW m \in Nat
  PROVE  Since(m) \in Nat /\ IsFiniteSet((m + 1 .. written) \ late)
<1>1. written \in Nat
  BY Numbers
<1>2. IsFiniteSet(m + 1 .. written)
  BY <1>1, FS_Interval
<1>3. QED
  BY <1>2, FS_Subset, FS_CardinalityType DEF Since

LEMMA FreshType ==
  ASSUME TypeOK, NEW i \in Files
  PROVE  Ids(i) \subseteq 1 .. written /\ Fresh(i) \subseteq 1 .. written
         /\ Fresh(i) \cap late = {}
BY MessageTypes DEF Ids, Fresh

LEMMA Size0Type ==
  ASSUME TypeOK
  PROVE  Size0 \in Nat /\ (Size0 # 0 => Ids(0) # {})
<1>1. PICK s : s = file[0].msgs
  OBVIOUS
<1>2. file[0] \in FileOf(written, now)
  BY Numbers DEF Files
<1>3. s \in Seq(Message(written, now))
  BY <1>1, <1>2 DEF FileOf
<1>4. Len(s) \in Nat /\ DOMAIN s = 1 .. Len(s)
  BY <1>3, LenProperties
<1>5. Len(s) # 0 => s[1] \in Messages(0)
  BY <1>1, <1>4 DEF Messages
<1>6. QED
  BY <1>1, <1>4, <1>5 DEF Size0, Ids

LEMMA RankType ==
  ASSUME TypeOK, NEW i \in Files \ {0}
  PROVE  Rank(i) \in Nat
<1>1. szLogFileName \in [Procs -> 0 .. dwMaxNum - 2]
  BY Numbers
<1>2. QED
  BY <1>1, LoggerAssumption DEF Rank, Files

LEMMA Times ==
  /\ \A a, b \in Nat : a * dwMaxSize \in Nat /\ (a <= b => a * dwMaxSize <= b * dwMaxSize)
  /\ \A a \in Nat : (a + 1) * dwMaxSize = a * dwMaxSize + dwMaxSize
  /\ 0 * dwMaxSize = 0 /\ 1 * dwMaxSize = dwMaxSize /\ 2 * dwMaxSize = dwMaxSize + dwMaxSize
BY LoggerAssumption

\* What is written adds to what is newer than every message, unless it is
\* excepted, and then to no file's fresh messages.
LEMMA WriteFresh ==
  ASSUME Base, NEW p \in Procs, Write(p)
  PROVE  /\ written' = written + 1
         /\ excused[p] => /\ late' = late \cup {written + 1} /\ Size0' = Size0
                          /\ \A i \in Files : Fresh(i)' = Fresh(i)
                          /\ \A m \in 1 .. written : Since(m)' = Since(m)
         /\ ~excused[p] => /\ late' = late /\ Size0' = Size0 + 1
                           /\ Fresh(0)' = Fresh(0) \cup {written + 1}
                           /\ \A i \in Files \ {0} : Fresh(i)' = Fresh(i)
                           /\ \A m \in 1 .. written : Since(m)' = Since(m) + 1
         /\ \A i \in Files : Ids(i) \subseteq Ids(i)'
         /\ \A i \in Files : Exists(i)' <=> Exists(i)
<1> USE DEF Base
<1>0. PICK h, new : h = handle[p] /\ new = [id |-> written + 1, day |-> now]
  OBVIOUS
<1>1. /\ written \in Nat /\ now \in Nat \ {0} /\ h \in 0 .. dwMaxNum /\ pc[p] = "write"
      /\ new.id = written + 1 /\ written' = written + 1 /\ 0 \in Files /\ dwMaxNum \notin Files
      /\ late \subseteq 1 .. written
  BY <1>0, Numbers, ShapeIs DEF Write, Shape, Files
<1>2. /\ \A i \in Files \ {h} : file'[i] = file[i] /\ Messages(i)' = Messages(i)
      /\ h \in Files => /\ Messages(h)' = Messages(h) \cup {new} /\ file'[h].mtime = now
                        /\ Len(file'[h].msgs) = Len(file[h].msgs) + 1
  BY <1>0, WriteEffect
<1>3. late' = IF excused[p] THEN late \cup {written + 1} ELSE late
  BY DEF Write
<1>4. /\ excused[p] <=> h # 0
      /\ h \in Files => Exists(h)
  BY <1>0, <1>1 DEF HandlesSound, Files
<1>5. /\ \A i \in Files \ {h} : Ids(i)' = Ids(i)
      /\ h \in Files => Ids(h)' = Ids(h) \cup {written + 1}
  BY <1>1, <1>2 DEF Ids
<1>6. \A i \in Files : written + 1 \notin Ids(i) /\ written + 1 \notin late
  BY <1>1, FreshType
<1>7. /\ excused[p] => Size0' = Size0 /\ \A i \in Files : Fresh(i)' = Fresh(i)
      /\ ~excused[p] => /\ Size0' = Size0 + 1 /\ Fresh(0)' = Fresh(0) \cup {written + 1}
                        /\ \A i \in Files \ {0} : Fresh(i)' = Fresh(i)
  <2>1. CASE excused[p]
    BY <1>1, <1>2, <1>3, <1>4, <1>5, <1>6, <2>1 DEF Size0, Fresh
  <2>2. CASE ~excused[p]
    BY <1>1, <1>2, <1>3, <1>4, <1>5, <1>6, <2>2 DEF Size0, Fresh
  <2>3. QED
    BY <2>1, <2>2
<1>8. ASSUME NEW m \in 1 .. written
      PROVE  Since(m)' = IF excused[p] THEN Since(m) ELSE Since(m) + 1
  <2>1. m + 1 .. written + 1 = (m + 1 .. written) \cup {written + 1}
    BY <1>1
  <2>2. CASE excused[p]
    <3>1. (m + 1 .. written + 1) \ late' = (m + 1 .. written) \ late
      BY <1>1, <1>3, <2>1, <2>2
    <3>2. QED
      BY <1>1, <2>2, <3>1 DEF Since
  <2>3. CASE ~excused[p]
    <3>1. (m + 1 .. written + 1) \ late' = ((m + 1 .. written) \ late) \cup {written + 1}
      BY <1>1, <1>3, <1>6, <2>1, <2>3
    <3>2. written + 1 \notin (m + 1 .. written) \ late
      BY <1>1
    <3>3. Cardinality(((m + 1 .. written) \ late) \cup {written + 1})
            = Cardinality((m + 1 .. written) \ late) + 1
      <4>0. PICK newer : newer = (m + 1 .. written) \ late
        OBVIOUS
      <4>a. IsFiniteSet((m + 1 .. written) \ late)
        <5>1. m \in Nat /\ TypeOK
          BY <1>1
        <5>2. QED
          BY <5>1, SinceType
      <4>1. IsFiniteSet(newer) /\ written + 1 \notin newer
        BY <3>2, <4>0, <4>a
      <4>2. Cardinality(newer \cup {written + 1}) = Cardinality(newer) + 1
        BY <4>1, FS_AddElement
      <4>3. QED
        BY <4>0, <4>2
    <3>4. QED
      BY <1>1, <2>3, <3>1, <3>3 DEF Since
  <2>4. QED
    BY <2>2, <2>3
<1>9. \A i \in Files : Exists(i)' <=> Exists(i)
  BY <1>1, <1>2, <1>4, TimeMeansFileNext DEF Exists
<1>10. QED
  BY <1>1, <1>3, <1>5, <1>7, <1>8, <1>9

\* The fresh messages go with their file.
LEMMA RenameFresh ==
  ASSUME TypeOK, NEW p \in Procs, Rename(p)
  PROVE  /\ UNCHANGED <<iType, written, late, disturbed, torn>>
         /\ \A m : Since(m)' = Since(m)
         /\ Size0' = IF szLogFileName[p] = 0 THEN 0 ELSE Size0
         /\ \A i \in Files :
              /\ i = szLogFileName[p] + 1 =>
                   /\ Fresh(i)' = Fresh(i - 1) /\ Ids(i)' = Ids(i - 1)
                   /\ Exists(i)' <=> Exists(i - 1)
              /\ i = szLogFileName[p] => Fresh(i)' = {} /\ Ids(i)' = {} /\ ~Exists(i)'
              /\ i \notin {szLogFileName[p], szLogFileName[p] + 1} =>
                   /\ Fresh(i)' = Fresh(i) /\ Ids(i)' = Ids(i)
                   /\ Exists(i)' <=> Exists(i)
<1>0. PICK s : s = szLogFileName[p]
  OBVIOUS
<1>1. UNCHANGED <<iType, written, late, disturbed, torn>>
  BY DEF Rename
<1>2. \A m : Since(m)' = Since(m)
  BY <1>1 DEF Since
<1>3. /\ s \in 0 .. dwMaxNum - 2
      /\ \A i \in Files :
           /\ i = s + 1 => file'[i] = file[i - 1] /\ Messages(i)' = Messages(i - 1)
           /\ i = s => file'[i] = NoFile /\ Messages(i)' = {}
           /\ i \notin {s, s + 1} => file'[i] = file[i] /\ Messages(i)' = Messages(i)
  BY <1>0, RenameEffect
<1>4. Size0' = IF s = 0 THEN 0 ELSE Size0
  <2>1. 0 \in Files /\ NoFile.msgs = <<>>
    BY LoggerAssumption DEF Files, NoFile
  <2>2. file'[0] = IF s = 0 THEN NoFile ELSE file[0]
    BY <1>3, <2>1
  <2>3. QED
    BY <2>1, <2>2 DEF Size0
<1>5. ASSUME NEW i \in Files
      PROVE  /\ i = s + 1 => /\ Fresh(i)' = Fresh(i - 1) /\ Ids(i)' = Ids(i - 1)
                             /\ Exists(i)' <=> Exists(i - 1)
             /\ i = s => Fresh(i)' = {} /\ Ids(i)' = {} /\ ~Exists(i)'
             /\ i \notin {s, s + 1} => /\ Fresh(i)' = Fresh(i) /\ Ids(i)' = Ids(i)
                                       /\ Exists(i)' <=> Exists(i)
  BY <1>1, <1>3 DEF Fresh, Ids, Exists
<1>6. QED
  BY <1>0, <1>1, <1>2, <1>4, <1>5

\* Every other call leaves the fresh messages where they are.
LEMMA FreshStays ==
  ASSUME TypeOK, NEW p \in Procs,
         Open(p) \/ Stat(p) \/ Access(p) \/ RenameFails(p) \/ TakeTime(p) \/ Restart(p)
  PROVE  /\ UNCHANGED <<iType, written, late>> /\ Size0' = Size0
         /\ \A m : Since(m)' = Since(m)
         /\ \A i \in Files : Fresh(i)' = Fresh(i) /\ Ids(i)' = Ids(i)
<1>1. /\ \A i \in Files : Messages(i)' = Messages(i) /\ file'[i].msgs = file[i].msgs
      /\ UNCHANGED <<iType, written, late>>
  BY MessagesStay
<1>2. 0 \in Files
  BY LoggerAssumption DEF Files
<1>3. QED
  BY <1>1, <1>2 DEF Size0, Since, Fresh, Ids

\* base.log has fresh messages only: what is written to it is not excepted.
LEMMA StepFront ==
  ASSUME Base, Front, [Next]_vars
  PROVE  Front'
<1> USE DEF Base
<1>0. 0 \in Files /\ 1 \in Files
  BY LoggerAssumption DEF Files
<1>1. ASSUME NEW p \in Procs, Write(p) PROVE Front'
  <2>1. Front <=> Ids(0) = Fresh(0)
    BY DEF Front, Fresh
  <2>2. CASE excused[p]
    <3>1. Messages(0)' = Messages(0)
      BY <1>0, <1>1, <2>2, WriteEffect DEF Write, HandlesSound
    <3>2. Ids(0)' = Ids(0) /\ late' = late \cup {written + 1}
      BY <1>1, <2>2, <3>1, WriteFresh DEF Ids
    <3>3. written + 1 \notin Ids(0)
      BY <1>0, FreshType, Numbers
    <3>4. QED
      BY <3>2, <3>3 DEF Front
  <2>3. CASE ~excused[p]
    <3>1. late' = late /\ written + 1 \notin late
      BY <1>1, <2>3, WriteFresh, ShapeIs, Numbers DEF Shape
    <3>2. Messages(0)' \subseteq Messages(0) \cup {[id |-> written + 1, day |-> now]}
      BY <1>0, <1>1, WriteEffect
    <3>3. Ids(0)' \subseteq Ids(0) \cup {written + 1}
      BY <3>2 DEF Ids
    <3>4. QED
      BY <3>1, <3>3 DEF Front
  <2>4. QED
    BY <2>2, <2>3
<1>2. ASSUME NEW p \in Procs, Rename(p) PROVE Front'
  <2>1. PICK s : s = szLogFileName[p] /\ s \in 0 .. dwMaxNum - 2
    BY Numbers
  <2>2. Ids(0)' \subseteq Ids(0) /\ late' = late
    BY <1>0, <1>2, <2>1, RenameFresh
  <2>3. QED
    BY <2>2 DEF Front
<1>3. ASSUME NEW p \in Procs,
             Open(p) \/ Stat(p) \/ Access(p) \/ RenameFails(p) \/ TakeTime(p) \/ Restart(p)
      PROVE  Front'
  BY <1>0, <1>3, FreshStays DEF Front
<1>4. CASE Clock \/ UNCHANGED vars
  BY <1>4 DEF Clock, vars, history, Front, Ids, Messages
<1>5. CASE StartOver
  BY <1>5 DEF StartOver, Front
<1>6. QED
  BY <1>1, <1>2, <1>3, <1>4, <1>5 DEF Next

(***************************************************************************)
(* What a message is given up for, step by step.                           *)
(***************************************************************************)
\* The files that are sure to be kept are fewer once a rotation was torn.
LEMMA FilesKeptType ==
  /\ FilesKept \in Nat
  /\ FilesKept <= dwMaxNum - 1
  /\ torn => FilesKept <= 2
  /\ ~torn => FilesKept = dwMaxNum - 1
BY LoggerAssumption DEF FilesKept

LEMMA FilesKeptNext ==
  ASSUME torn => torn'
  PROVE  FilesKept' \in Nat /\ FilesKept' <= FilesKept
<1>1. dwMaxNum' = dwMaxNum
  OBVIOUS
<1>2. QED
  BY <1>1, LoggerAssumption DEF FilesKept

\* While every message stays where it is, no more is asked of it.
LEMMA CountsStay ==
  ASSUME TypeOK, Counts, UNCHANGED <<written, late>>, Size0' = Size0,
         \A m : Since(m)' = Since(m),
         \A i \in Files : Fresh(i)' = Fresh(i) /\ Ids(i)' = Ids(i),
         torn => torn',
         ~torn' => \A i \in Files \ {0} : Rank(i)' \in Nat /\ Rank(i)' <= Rank(i)
  PROVE  Counts'
<1>1. /\ \A i \in Files : Fresh(i) \subseteq 1 .. written
      /\ \A m \in 1 .. written : Since(m) \in Nat
      /\ Size0 \in Nat
      /\ \A i \in Files \ {0} : Rank(i) \in Nat
  <2>1. ASSUME NEW m \in 1 .. written PROVE Since(m) \in Nat
    <3>1. m \in Nat
      OBVIOUS
    <3>2. QED
      BY <3>1, SinceType
  <2>2. QED
    BY <2>1, FreshType, Size0Type, RankType
<1>2. Ranked'
  <2>1. SUFFICES ASSUME ~torn', NEW i \in Files \ {0}, NEW m \in Fresh(i)
                 PROVE  Since(m) >= Rank(i)' * dwMaxSize + Size0
    BY DEF Ranked
  <2>2. Since(m) >= Rank(i) * dwMaxSize + Size0
    BY <2>1 DEF Counts, Ranked
  <2>3. Rank(i)' * dwMaxSize <= Rank(i) * dwMaxSize
        /\ Rank(i)' * dwMaxSize \in Nat /\ Rank(i) * dwMaxSize \in Nat
    BY <1>1, <2>1, Times
  <2>4. Since(m) \in Nat
    BY <1>1, <2>1
  <2>5. QED
    BY <1>1, <2>2, <2>3, <2>4
<1>3. Apart' /\ BeforeBase'
  BY DEF Counts, Apart, BeforeBase
<1>4. LostLate'
  <2>1. FilesKept' * dwMaxSize <= FilesKept * dwMaxSize
        /\ FilesKept' * dwMaxSize \in Nat /\ FilesKept * dwMaxSize \in Nat
    BY FilesKeptType, FilesKeptNext, Times
  <2>2. SUFFICES ASSUME NEW m \in (1 .. written) \ late
                 PROVE  (\E i \in Files : m \in Ids(i)) \/ Since(m) >= FilesKept' * dwMaxSize
    BY DEF LostLate
  <2>3. (\E i \in Files : m \in Ids(i)) \/ Since(m) >= FilesKept * dwMaxSize
    BY DEF Counts, LostLate
  <2>4. QED
    BY <1>1, <2>1, <2>3
<1>5. QED
  BY <1>2, <1>3, <1>4 DEF Counts

\* A message adds to base.log, and to what is newer than every other one.
LEMMA WriteCounts ==
  ASSUME Base, Counts, NEW p \in Procs, Write(p), ~excused[p]
  PROVE  Counts'
<1> USE DEF Base
<1>0. /\ written' = written + 1 /\ late' = late /\ Size0' = Size0 + 1
      /\ Fresh(0)' = Fresh(0) \cup {written + 1}
      /\ \A i \in Files \ {0} : Fresh(i)' = Fresh(i)
      /\ \A m \in 1 .. written : Since(m)' = Since(m) + 1
      /\ \A i \in Files : Ids(i) \subseteq Ids(i)'
  BY WriteFresh
<1>1. UNCHANGED <<torn, szLogFileName>> /\ pc[p] = "write" /\ pc' = [pc EXCEPT ![p] = "stat"]
  BY DEF Write, struct
<1>2. \A i : Rank(i)' = Rank(i)
  <2>1. \A q \in Procs : Turning(q)' <=> Turning(q)
    BY <1>1, ShapeIs DEF Shape, Turning
  <2>2. QED
    BY <1>1, <2>1 DEF Rank
<1>3. /\ \A i \in Files : Fresh(i) \subseteq 1 .. written
      /\ Size0 \in Nat /\ written \in Nat
      /\ \A i \in Files \ {0} : Rank(i) * dwMaxSize \in Nat
  BY FreshType, Size0Type, RankType, Numbers, Times
<1>4. \A m \in 1 .. written : Since(m) \in Nat
  <2>1. SUFFICES ASSUME NEW m \in 1 .. written PROVE Since(m) \in Nat
    OBVIOUS
  <2>2. m \in Nat
    BY <1>3
  <2>3. QED
    BY <2>2, SinceType
<1>5. Ranked'
  <2>1. SUFFICES ASSUME ~torn, NEW i \in Files \ {0}, NEW m \in Fresh(i)
                 PROVE  Since(m)' >= Rank(i) * dwMaxSize + Size0'
    BY <1>0, <1>1, <1>2 DEF Ranked
  <2>2. Since(m) >= Rank(i) * dwMaxSize + Size0
    BY <2>1 DEF Counts, Ranked
  <2>3. QED
    BY <1>0, <1>3, <1>4, <2>2
<1>6. Apart'
  <2>1. SUFFICES ASSUME NEW i \in Files \ {0}, NEW j \in Files \ {0}, i < j,
                        Fresh(i) # {}, NEW m \in Fresh(j)
                 PROVE  Since(m)' >= dwMaxSize + Size0'
    BY <1>0 DEF Apart
  <2>2. Since(m) >= dwMaxSize + Size0
    BY <2>1 DEF Counts, Apart
  <2>3. QED
    BY <1>0, <1>3, <1>4, <2>2, LoggerAssumption
<1>7. BeforeBase'
  <2>1. SUFFICES ASSUME NEW i \in Files \ {0}, NEW m \in Fresh(i) PROVE Since(m)' >= Size0'
    BY <1>0 DEF BeforeBase
  <2>2. Since(m) >= Size0
    BY <2>1 DEF Counts, BeforeBase
  <2>3. QED
    BY <1>0, <1>3, <1>4, <2>2
<1>8. LostLate'
  <2>1. FilesKept' = FilesKept /\ FilesKept * dwMaxSize \in Nat
    BY <1>1, FilesKeptType, Times DEF FilesKept
  <2>2. SUFFICES ASSUME NEW m \in 1 .. (written + 1), m \notin late
                 PROVE  \/ \E i \in Files : m \in Ids(i)'
                        \/ Since(m)' >= FilesKept * dwMaxSize
    BY <1>0, <2>1 DEF LostLate
  <2>3. CASE m = written + 1
    <3>1. m \in Fresh(0)' /\ 0 \in Files
      BY <1>0, <2>3, LoggerAssumption DEF Files
    <3>2. QED
      BY <3>1 DEF Fresh
  <2>4. CASE m \in 1 .. written
    <3>1. (\E i \in Files : m \in Ids(i)) \/ Since(m) >= FilesKept * dwMaxSize
      BY <2>2, <2>4 DEF Counts, LostLate
    <3>2. QED
      BY <1>0, <1>4, <2>1, <2>4, <3>1
  <2>5. QED
    BY <1>3, <2>2, <2>3, <2>4
<1>9. QED
  BY <1>5, <1>6, <1>7, <1>8 DEF Counts

\* An excepted message changes nothing for the others.
LEMMA LateCounts ==
  ASSUME Base, Counts, NEW p \in Procs, Write(p), excused[p]
  PROVE  Counts'
<1> USE DEF Base
<1>0. /\ written' = written + 1 /\ late' = late \cup {written + 1} /\ Size0' = Size0
      /\ \A i \in Files : Fresh(i)' = Fresh(i) /\ Ids(i) \subseteq Ids(i)'
      /\ \A m \in 1 .. written : Since(m)' = Since(m)
  BY WriteFresh
<1>1. UNCHANGED <<torn, szLogFileName>> /\ pc[p] = "write" /\ pc' = [pc EXCEPT ![p] = "stat"]
  BY DEF Write, struct
<1>2. \A i : Rank(i)' = Rank(i)
  <2>1. \A q \in Procs : Turning(q)' <=> Turning(q)
    BY <1>1, ShapeIs DEF Shape, Turning
  <2>2. QED
    BY <1>1, <2>1 DEF Rank
<1>3. \A i \in Files : Fresh(i) \subseteq 1 .. written
  BY FreshType
<1>4. Ranked' /\ Apart' /\ BeforeBase'
  BY <1>0, <1>1, <1>2, <1>3 DEF Counts, Ranked, Apart, BeforeBase
<1>5. LostLate'
  <2>1. FilesKept' = FilesKept /\ written \in Nat
    BY <1>1, Numbers DEF FilesKept
  <2>2. (1 .. written') \ late' \subseteq (1 .. written) \ late
    BY <1>0, <2>1
  <2>3. QED
    BY <1>0, <2>1, <2>2 DEF Counts, LostLate
<1>6. QED
  BY <1>4, <1>5 DEF Counts

\* While one process turns, the rank of a file depends on where it has got to.
LEMMA RankWhenTurned ==
  ASSUME Alone, NEW p \in Procs, Turning(p)
  PROVE  \A i : Rank(i) = IF szLogFileName[p] + 2 <= i THEN i - 2 ELSE i - 1
<1>1. \A q \in Procs : Turning(q) => q = p
  BY DEF Alone, Turning, Rotating
<1>2. QED
  BY <1>1 DEF Rank

LEMMA RankWhenIdle ==
  ASSUME \A q \in Procs : ~Turning(q)
  PROVE  \A i : Rank(i) = i - 1
BY DEF Rank

LEMMA RanksNext ==
  /\ Alone' => \A p \in Procs : Turning(p)' =>
       \A i : Rank(i)' = IF szLogFileName'[p] + 2 <= i THEN i - 2 ELSE i - 1
  /\ (\A q \in Procs : ~Turning(q)') => \A i : Rank(i)' = i - 1
<1>1. ASSUME Alone', NEW p \in Procs, Turning(p)'
      PROVE  \A i : Rank(i)' = IF szLogFileName'[p] + 2 <= i THEN i - 2 ELSE i - 1
  <2>1. \A q \in Procs : Turning(q)' => q = p
    BY <1>1 DEF Alone, Turning, Rotating
  <2>2. QED
    BY <1>1, <2>1 DEF Rank
<1>2. ASSUME \A q \in Procs : ~Turning(q)' PROVE \A i : Rank(i)' = i - 1
  BY <1>2 DEF Rank
<1>3. QED
  BY <1>1, <1>2

\* What the process that turns leaves behind: a file less, where it has been.
LEMMA RenamePlaces ==
  ASSUME Base, Front, Places, NEW p \in Procs, Rename(p)
  PROVE  /\ Places'
         /\ \A i \in Files : Rank(i) = IF szLogFileName[p] + 2 <= i THEN i - 2 ELSE i - 1
         /\ \A i \in Files : Rank(i)' = IF szLogFileName[p] # 0 /\ szLogFileName[p] + 1 <= i
                                        THEN i - 2 ELSE i - 1
<1> USE DEF Base
<1>0. PICK s : s = szLogFileName[p] /\ s \in 0 .. dwMaxNum - 2
  BY Numbers
<1>1. /\ pc[p] = "rename" /\ Exists(s) /\ Turning(p) /\ Rotating(p)
      /\ pc' = [pc EXCEPT ![p] = IF s = 0 THEN "time" ELSE "access"]
      /\ szLogFileName' = [szLogFileName EXCEPT ![p] = IF @ = 0 THEN 0 ELSE @ - 1]
  BY <1>0, NextFileEffect DEF Rename, Turning, Rotating
<1>2. /\ pc \in [Procs -> {"idle", "write", "stat", "access", "rename", "time"}]
      /\ szLogFileName \in [Procs -> 0 .. dwMaxNum - 2]
      /\ dwMaxNum \in Nat \ {0, 1} /\ 0 \in Files /\ s \in Files /\ s + 1 \in Files
  BY <1>0, ShapeIs, LoggerAssumption DEF Shape, Files
<1>3. \A q \in Procs \ {p} : ~Rotating(q) /\ ~Rotating(q)' /\ ~Turning(q)'
  BY <1>1, <1>2 DEF Places, Alone, Rotating, Turning
<1>4. Alone'
  BY <1>3 DEF Alone
<1>5. /\ s = 0 => pc'[p] = "time" /\ ~Turning(p)'
      /\ s # 0 => Turning(p)' /\ szLogFileName'[p] = s - 1
  BY <1>0, <1>1, <1>2 DEF Turning
<1>6. \A i \in Files : Rank(i) = IF s + 2 <= i THEN i - 2 ELSE i - 1
  BY <1>0, <1>1, RankWhenTurned DEF Places
<1>7. \A i \in Files : Rank(i)' = IF s # 0 /\ s + 1 <= i THEN i - 2 ELSE i - 1
  <2>1. CASE s = 0
    <3>1. \A q \in Procs : ~Turning(q)'
      BY <1>3, <1>5, <2>1
    <3>2. QED
      BY <2>1, <3>1, RanksNext
  <2>2. CASE s # 0
    <3>1. Alone' /\ Turning(p)' /\ szLogFileName'[p] = s - 1
      BY <1>4, <1>5, <2>2
    <3>2. \A i : Rank(i)' = IF (s - 1) + 2 <= i THEN i - 2 ELSE i - 1
      BY <3>1, RanksNext
    <3>3. \A i \in Files : (s - 1) + 2 <= i <=> s + 1 <= i
      BY <1>0 DEF Files
    <3>4. QED
      BY <2>2, <3>2, <3>3
  <2>3. QED
    BY <2>1, <2>2
<1>8. /\ late' = late
      /\ Size0' = IF s = 0 THEN 0 ELSE Size0
      /\ \A i \in Files :
           /\ i = s + 1 => Fresh(i)' = Fresh(i - 1) /\ (Exists(i)' <=> Exists(i - 1))
           /\ i = s => Fresh(i)' = {} /\ ~Exists(i)'
           /\ i \notin {s, s + 1} => Fresh(i)' = Fresh(i) /\ (Exists(i)' <=> Exists(i))
  BY <1>0, RenameFresh
<1>9. Exists(0) /\ Size0 >= dwMaxSize /\ Size0 \in Nat
  BY <1>1, Size0Type DEF Places, FullWhenTurned
<1>10. FullWhenTurned'
  <2>1. s # 0 => Exists(0)' /\ Size0' >= dwMaxSize
    BY <1>0, <1>2, <1>8, <1>9
  <2>2. QED
    BY <1>3, <1>5, <2>1 DEF FullWhenTurned
<1>11. Gap'
  <2>1. SUFFICES ASSUME s # 0, szLogFileName'[p] < LastShifted
                 PROVE  Fresh(szLogFileName[p] + 1)' = {}
    BY <1>3, <1>5 DEF Gap, LastShifted
  <2>2. szLogFileName'[p] + 1 = s
    BY <1>0, <1>5, <2>1
  <2>3. Fresh(s)' = {}
    BY <1>2, <1>8
  <2>4. QED
    BY <2>2, <2>3 DEF Fresh, Ids, Messages
<1>12. ArchivesFresh'
  <2>1. Fresh(s) # {}
    <3>1. CASE s = 0
      <4>1. Size0 # 0
        BY <1>9, LoggerAssumption
      <4>2. Ids(0) # {} /\ Fresh(0) = Ids(0)
        BY <4>1, Size0Type DEF Front, Fresh
      <4>3. QED
        BY <3>1, <4>2
    <3>2. CASE s # 0
      BY <1>1, <1>2, <3>2 DEF Places, ArchivesFresh
    <3>3. QED
      BY <3>1, <3>2
  <2>2. SUFFICES ASSUME NEW i \in Files \ {0}, Exists(i)' PROVE Fresh(i)' # {}
    BY DEF ArchivesFresh
  <2>3. CASE i = s + 1
    <3>1. i - 1 = s
      BY <1>0, <2>3
    <3>2. QED
      BY <1>8, <2>1, <2>3, <3>1
  <2>4. CASE i # s + 1
    BY <1>8, <2>2, <2>4 DEF Places, ArchivesFresh
  <2>5. QED
    BY <2>3, <2>4
<1>13. QED
  BY <1>0, <1>4, <1>6, <1>7, <1>10, <1>11, <1>12 DEF Places

\* The messages that are lost are those of the last file, when the rotation
\* begins; the others find as much before them as their place asks for.
LEMMA RenameCounts ==
  ASSUME Base, Front, Places, Counts, NEW p \in Procs, Rename(p)
  PROVE  Counts'
<1> USE DEF Base
<1>0. PICK s : s = szLogFileName[p] /\ s \in 0 .. dwMaxNum - 2
  BY Numbers
<1>1. /\ UNCHANGED <<written, late, torn>>
      /\ \A m : Since(m)' = Since(m)
      /\ Size0' = IF s = 0 THEN 0 ELSE Size0
      /\ \A i \in Files :
           /\ i = s + 1 => Fresh(i)' = Fresh(i - 1) /\ Ids(i)' = Ids(i - 1)
           /\ i = s => Fresh(i)' = {} /\ Ids(i)' = {}
           /\ i \notin {s, s + 1} => Fresh(i)' = Fresh(i) /\ Ids(i)' = Ids(i)
  BY <1>0, RenameFresh
<1>2. /\ \A i \in Files : Rank(i) = IF s + 2 <= i THEN i - 2 ELSE i - 1
      /\ \A i \in Files : Rank(i)' = IF s # 0 /\ s + 1 <= i THEN i - 2 ELSE i - 1
  BY <1>0, RenamePlaces
<1>3. Turning(p) /\ Exists(s)
  BY <1>0 DEF Rename, Turning
<1>4. /\ Size0 >= dwMaxSize /\ Size0 \in Nat /\ dwMaxSize \in Nat \ {0}
      /\ dwMaxNum \in Nat \ {0, 1} /\ s \in Files /\ s + 1 \in Files /\ (s + 1) - 1 = s
  BY <1>0, <1>3, Size0Type, LoggerAssumption DEF Places, FullWhenTurned, Files
<1>5. \A i \in Files : \A m \in Fresh(i) : Since(m) \in Nat
  <2>1. SUFFICES ASSUME NEW i \in Files, NEW m \in Fresh(i) PROVE Since(m) \in Nat
    OBVIOUS
  <2>2. m \in Nat
    BY FreshType, Numbers
  <2>3. QED
    BY <2>2, SinceType
<1>6. ASSUME NEW i \in Files, NEW m \in Fresh(i)'
      PROVE  \E k \in Files : k = (IF i = s + 1 THEN s ELSE i) /\ m \in Fresh(k) /\ i # s
  BY <1>1, <1>4
<1>7. Ranked'
  <2>1. SUFFICES ASSUME ~torn, NEW i \in Files \ {0}, NEW m \in Fresh(i)'
                 PROVE  Since(m) >= Rank(i)' * dwMaxSize + Size0'
    BY <1>1 DEF Ranked
  <2>2. PICK k \in Files : k = (IF i = s + 1 THEN s ELSE i) /\ m \in Fresh(k) /\ i # s
    BY <1>6
  <2>3. k # 0 => Since(m) >= Rank(k) * dwMaxSize + Size0
    BY <2>1, <2>2 DEF Counts, Ranked
  <2>4. CASE s = 0
    <3>1. Size0' = 0 /\ Rank(i)' = i - 1
      BY <1>1, <1>2, <2>4
    <3>2. CASE i = 1
      <4>1. Rank(i)' = 0 /\ 0 * dwMaxSize = 0
        BY <3>1, <3>2, Times
      <4>2. Since(m) \in Nat /\ Since(m) >= 0 * dwMaxSize + 0
        BY <1>5, <2>2, <4>1
      <4>3. QED
        BY <3>1, <4>1, <4>2
    <3>3. CASE i # 1
      <4>1. PICK r \in Nat : r = i - 2
        BY <2>1, <2>4, <3>3 DEF Files
      <4>2. k = i /\ k # 0 /\ Rank(k) = r /\ i - 1 = r + 1
        BY <1>2, <2>1, <2>2, <2>4, <3>3, <4>1 DEF Files
      <4>3. /\ Since(m) >= r * dwMaxSize + Size0
            /\ (r + 1) * dwMaxSize = r * dwMaxSize + dwMaxSize /\ r * dwMaxSize \in Nat
        BY <2>3, <4>2, Times
      <4>4. Since(m) \in Nat /\ Since(m) >= (r + 1) * dwMaxSize + 0
        BY <1>4, <1>5, <2>2, <4>3
      <4>5. QED
        BY <3>1, <4>2, <4>4
    <3>4. QED
      BY <3>2, <3>3
  <2>5. CASE s # 0
    <3>1. k # 0 /\ Size0' = Size0
      BY <1>1, <2>2, <2>5
    <3>2. Rank(i)' = Rank(k)
      BY <1>0, <1>2, <2>2, <2>5 DEF Files
    <3>3. QED
      BY <2>3, <3>1, <3>2
  <2>6. QED
    BY <2>4, <2>5
<1>8. Apart'
  <2>1. SUFFICES ASSUME NEW i \in Files \ {0}, NEW j \in Files \ {0}, i < j,
                        Fresh(i)' # {}, NEW m \in Fresh(j)'
                 PROVE  Since(m) >= dwMaxSize + Size0'
    BY <1>1 DEF Apart
  <2>2. PICK l \in Files : l = (IF j = s + 1 THEN s ELSE j) /\ m \in Fresh(l) /\ j # s
    BY <1>6
  <2>3. PICK k \in Files : k = (IF i = s + 1 THEN s ELSE i) /\ Fresh(k) # {} /\ i # s
    BY <1>6, <2>1
  <2>4. k < l
    BY <1>0, <2>1, <2>2, <2>3 DEF Files
  <2>5. CASE s = 0
    <3>1. Size0' = 0 /\ l # 0
      BY <1>1, <2>1, <2>2, <2>4, <2>5 DEF Files
    <3>2. Since(m) >= Size0 /\ Since(m) \in Nat
      BY <1>5, <2>2, <3>1 DEF Counts, BeforeBase
    <3>3. QED
      BY <1>4, <3>1, <3>2
  <2>6. CASE s # 0
    <3>1. Size0' = Size0 /\ k # 0 /\ l # 0
      BY <1>1, <2>1, <2>2, <2>3, <2>6
    <3>2. QED
      BY <2>2, <2>3, <2>4, <3>1 DEF Counts, Apart
  <2>7. QED
    BY <2>5, <2>6
<1>9. BeforeBase'
  <2>1. SUFFICES ASSUME NEW i \in Files \ {0}, NEW m \in Fresh(i)' PROVE Since(m) >= Size0'
    BY <1>1 DEF BeforeBase
  <2>2. PICK k \in Files : k = (IF i = s + 1 THEN s ELSE i) /\ m \in Fresh(k) /\ i # s
    BY <1>6
  <2>3. CASE s = 0
    BY <1>1, <1>5, <2>2, <2>3
  <2>4. CASE s # 0
    BY <1>1, <2>2, <2>4 DEF Counts, BeforeBase
  <2>5. QED
    BY <2>3, <2>4
<1>10. LostLate'
  <2>1. FilesKept' = FilesKept /\ FilesKept \in Nat
    BY <1>1, FilesKeptType DEF FilesKept
  <2>2. SUFFICES ASSUME NEW m \in (1 .. written) \ late, \A i \in Files : m \notin Ids(i)'
                 PROVE  Since(m) >= FilesKept * dwMaxSize
    BY <1>1, <2>1 DEF LostLate
  <2>3. CASE \A i \in Files : m \notin Ids(i)
    BY <2>3 DEF Counts, LostLate
  <2>4. CASE m \in Fresh(s + 1)
    <3>1. s = dwMaxNum - 2
      <4>1. ~(s < dwMaxNum - 2)
        BY <1>0, <1>3, <2>4 DEF Places, Gap, LastShifted
      <4>2. QED
        BY <1>0, <1>4, <4>1
    <3>2. CASE ~torn
      <4>1. Since(m) >= Rank(s + 1) * dwMaxSize + Size0 /\ Rank(s + 1) = s
        BY <1>0, <1>2, <1>4, <2>4, <3>2 DEF Counts, Ranked
      <4>2. FilesKept = s + 1
        BY <1>0, <3>1, <3>2, FilesKeptType, LoggerAssumption
      <4>3. (s + 1) * dwMaxSize = s * dwMaxSize + dwMaxSize /\ s * dwMaxSize \in Nat
        <5>1. s \in Nat
          BY <1>0, <1>4
        <5>2. QED
          BY <5>1, Times
      <4>4. QED
        BY <1>4, <1>5, <2>4, <4>1, <4>2, <4>3
    <3>3. CASE torn /\ s # 0
      <4>1. Fresh(s) # {}
        BY <1>3, <1>4, <3>3 DEF Places, ArchivesFresh
      <4>2. Since(m) >= dwMaxSize + Size0
        BY <1>0, <1>4, <2>4, <3>3, <4>1 DEF Counts, Apart
      <4>3. FilesKept * dwMaxSize <= 2 * dwMaxSize /\ FilesKept * dwMaxSize \in Nat
            /\ 2 * dwMaxSize = dwMaxSize + dwMaxSize
        BY <2>1, <3>3, FilesKeptType, Times
      <4>4. QED
        BY <1>4, <1>5, <2>4, <4>2, <4>3
    <3>4. CASE s = 0
      <4>1. FilesKept <= 1
        BY <3>1, <3>4, FilesKeptType, LoggerAssumption
      <4>2. FilesKept * dwMaxSize <= 1 * dwMaxSize /\ FilesKept * dwMaxSize \in Nat
            /\ 1 * dwMaxSize = dwMaxSize
        BY <2>1, <4>1, Times
      <4>3. Since(m) >= Size0
        BY <1>0, <1>4, <2>4 DEF Counts, BeforeBase
      <4>4. QED
        BY <1>4, <1>5, <2>4, <4>2, <4>3
    <3>5. QED
      BY <3>2, <3>3, <3>4
  <2>5. CASE \E i \in Files : m \in Ids(i)
    <3>1. PICK i \in Files : m \in Ids(i)
      BY <2>5
    <3>2. i = s + 1
      <4>1. i = s => m \in Ids(s + 1)'
        BY <1>1, <1>4, <3>1
      <4>2. i \notin {s, s + 1} => m \in Ids(i)'
        BY <1>1, <3>1
      <4>3. QED
        BY <1>4, <2>2, <3>1, <4>1, <4>2
    <3>3. m \in Fresh(s + 1)
      BY <2>2, <3>1, <3>2 DEF Fresh
    <3>4. QED
      BY <2>4, <3>3
  <2>6. QED
    BY <2>3, <2>5
<1>11. QED
  BY <1>7, <1>8, <1>9, <1>10 DEF Counts

\* A call that leaves the messages and the rotations as they are.
LEMMA QuietStep ==
  ASSUME Base, Places, Counts, UNCHANGED <<written, late>>, torn' <=> torn, Size0' = Size0,
         \A m : Since(m)' = Since(m),
         \A i \in Files : Fresh(i)' = Fresh(i) /\ Ids(i)' = Ids(i),
         \A i \in Files \ {0} : Exists(i)' => Exists(i),
         Exists(0) => Exists(0)',
         \A q \in Procs : /\ Turning(q)' <=> Turning(q)
                          /\ Turning(q) => szLogFileName'[q] = szLogFileName[q]
                          /\ Rotating(q)' => Rotating(q)
  PROVE  Places' /\ Counts'
<1> USE DEF Base
<1>1. \A i : Rank(i)' = Rank(i)
  BY DEF Rank
<1>2. Counts'
  <2>1. \A i \in Files \ {0} : Rank(i) \in Nat /\ Rank(i) <= Rank(i)
    BY RankType
  <2>2. QED
    BY <1>1, <2>1, CountsStay
<1>3. Alone' /\ FullWhenTurned' /\ ArchivesFresh'
  BY DEF Places, Alone, FullWhenTurned, ArchivesFresh
<1>4. Gap'
  <2>1. SUFFICES ASSUME NEW q \in Procs, Turning(q)', szLogFileName'[q] < LastShifted
                 PROVE  Fresh(szLogFileName[q] + 1)' = {}
    BY DEF Gap, LastShifted
  <2>2. PICK f : f = szLogFileName[q] + 1
    OBVIOUS
  <2>3. szLogFileName'[q] + 1 = f /\ f \in Files /\ Fresh(f) = {}
    BY <2>1, <2>2, Numbers DEF Places, Gap, LastShifted, Files
  <2>4. Fresh(f)' = {}
    BY <2>3
  <2>5. QED
    BY <2>3, <2>4 DEF Fresh, Ids, Messages
<1>5. QED
  BY <1>2, <1>3, <1>4 DEF Places

\* A file of its own name is opened, or an archive that is there.
LEMMA OpenLatest ==
  ASSUME Base, Places, Counts, NEW p \in Procs, Open(p), ~disturbed'
  PROVE  Places' /\ Counts'
<1> USE DEF Base
<1>1. PICK f : f = szLogFileName[p]
  OBVIOUS
<1>2. /\ pc[p] = "idle" /\ pc' = [pc EXCEPT ![p] = "write"]
      /\ UNCHANGED <<torn, szLogFileName>> /\ (f # 0 => Exists(f))
  <2>1. disturbed' = (disturbed \/ (f # 0 /\ ~Exists(f)))
    BY <1>1, Zenon DEF Open
  <2>2. QED
    BY <2>1 DEF Open, struct
<1>3. /\ \A i \in Files : Exists(i) => Exists(i)'
      /\ \A i \in Files : i # f => file'[i] = file[i]
      /\ 0 \in Files
  BY <1>1, OpenEffect, LoggerAssumption DEF Files
<1>4. \A i \in Files \ {0} : Exists(i)' => Exists(i)
  BY <1>2, <1>3 DEF Exists
<1>5. \A q \in Procs : (Turning(q)' <=> Turning(q)) /\ (Rotating(q)' <=> Rotating(q))
  BY <1>2, ShapeIs DEF Turning, Rotating, Shape
<1>6. /\ UNCHANGED <<written, late>> /\ Size0' = Size0 /\ \A m : Since(m)' = Since(m)
      /\ \A i \in Files : Fresh(i)' = Fresh(i) /\ Ids(i)' = Ids(i)
  BY FreshStays
<1>7. QED
  BY <1>2, <1>3, <1>4, <1>5, <1>6, QuietStep

\* A rotation begins only when no other is under way, and base.log is full.
LEMMA StatLatest ==
  ASSUME Base, Places, Counts, NEW p \in Procs, Stat(p), iType = "T_LOG_LOOP", ~disturbed'
  PROVE  Places' /\ Counts'
<1> USE DEF Base
<1>1. /\ UNCHANGED <<file, torn>> /\ pc[p] = "stat"
      /\ \A i : Exists(i)' <=> Exists(i)
  BY DEF Stat, Exists
<1>2. /\ UNCHANGED <<written, late>> /\ Size0' = Size0 /\ \A m : Since(m)' = Since(m)
      /\ \A i \in Files : Fresh(i)' = Fresh(i) /\ Ids(i)' = Ids(i)
  BY FreshStays
<1>3. CASE ~Exists(0) \/ Keeps(p)
  <2>1. /\ pc' = [pc EXCEPT ![p] = "idle"]
        /\ \A q \in Procs \ {p} : szLogFileName'[q] = szLogFileName[q]
    BY <1>3, Numbers DEF Stat, BaseName
  <2>2. \A q \in Procs : /\ Turning(q)' <=> Turning(q)
                         /\ Turning(q) => szLogFileName'[q] = szLogFileName[q]
                         /\ Rotating(q)' => Rotating(q)
    BY <1>1, <2>1, ShapeIs DEF Turning, Rotating, Shape
  <2>3. QED
    BY <1>1, <1>2, <2>2, QuietStep
<1>4. CASE Exists(0) /\ ~Keeps(p)
  <2>1. /\ szLogFileName' = [szLogFileName EXCEPT ![p] = LastShifted]
        /\ pc' = [pc EXCEPT ![p] = "access"]
        /\ \A q \in Procs : ~Rotating(q)
    BY <1>4 DEF Stat
  <2>2. \A q \in Procs \ {p} : ~Rotating(q)' /\ ~Turning(q)'
    BY <2>1, ShapeIs DEF Rotating, Turning, Shape
  <2>3. Turning(p)' /\ szLogFileName'[p] = LastShifted
    BY <2>1, ShapeIs, Numbers DEF Turning, Shape
  <2>4. Alone'
    BY <2>2 DEF Alone
  <2>5. \A i \in Files \ {0} : Rank(i) = i - 1 /\ Rank(i)' = i - 1
    <3>1. \A i : Rank(i) = i - 1
      BY <2>1, RankWhenIdle DEF Rotating, Turning
    <3>2. \A i : Rank(i)' = IF LastShifted + 2 <= i THEN i - 2 ELSE i - 1
      BY <2>3, <2>4, RanksNext
    <3>3. \A i \in Files : ~(LastShifted + 2 <= i)
      BY LoggerAssumption DEF Files, LastShifted
    <3>4. QED
      BY <3>1, <3>2, <3>3
  <2>6. Counts'
    <3>1. \A i \in Files \ {0} : Rank(i)' \in Nat /\ Rank(i)' <= Rank(i)
      BY <2>5, LoggerAssumption DEF Files
    <3>2. QED
      BY <1>1, <1>2, <3>1, CountsStay
  <2>7. FullWhenTurned'
    <3>1. Size0 >= dwMaxSize
      BY <1>4, Size0Type, LoggerAssumption DEF Keeps, Size0
    <3>2. QED
      BY <1>1, <1>2, <1>4, <3>1 DEF FullWhenTurned
  <2>8. Gap'
    <3>1. ~(LastShifted < LastShifted) /\ LastShifted' = LastShifted
      BY LoggerAssumption DEF LastShifted
    <3>2. QED
      BY <2>2, <2>3, <3>1 DEF Gap
  <2>9. ArchivesFresh'
    BY <1>1, <1>2 DEF Places, ArchivesFresh
  <2>10. QED
    BY <2>4, <2>6, <2>7, <2>8, <2>9 DEF Places
<1>5. QED
  BY <1>3, <1>4

\* The rotation goes on to the file before one that is not there.
LEMMA AccessLatest ==
  ASSUME Base, Places, Counts, NEW p \in Procs, Access(p)
  PROVE  Places' /\ Counts'
<1> USE DEF Base
<1>0. PICK s : s = szLogFileName[p] /\ s \in 0 .. dwMaxNum - 2
  BY Numbers
<1>1. /\ UNCHANGED <<file, torn>> /\ pc[p] = "access" /\ Turning(p) /\ Rotating(p)
      /\ \A i : Exists(i)' <=> Exists(i)
  BY DEF Access, Exists, history, Turning, Rotating
<1>2. /\ UNCHANGED <<written, late>> /\ Size0' = Size0 /\ \A m : Since(m)' = Since(m)
      /\ \A i \in Files : Fresh(i)' = Fresh(i) /\ Ids(i)' = Ids(i)
  BY FreshStays
<1>3. CASE Exists(s)
  <2>1. pc' = [pc EXCEPT ![p] = "rename"] /\ UNCHANGED szLogFileName
    BY <1>0, <1>3 DEF Access
  <2>2. \A q \in Procs : (Turning(q)' <=> Turning(q)) /\ (Rotating(q)' <=> Rotating(q))
    BY <1>1, <2>1, ShapeIs DEF Turning, Rotating, Shape
  <2>3. QED
    BY <1>1, <1>2, <2>1, <2>2, QuietStep
<1>4. CASE ~Exists(s)
  <2>1. s # 0
    BY <1>1, <1>4 DEF Places, FullWhenTurned
  <2>2. /\ pc' = [pc EXCEPT ![p] = "access"]
        /\ szLogFileName' = [szLogFileName EXCEPT ![p] = s - 1]
    BY <1>0, <1>4, <2>1, NextFileEffect DEF Access
  <2>3. \A q \in Procs \ {p} : ~Rotating(q)' /\ ~Turning(q)'
    BY <1>1, <2>2, ShapeIs DEF Places, Alone, Rotating, Turning, Shape
  <2>4. Turning(p)' /\ szLogFileName'[p] = s - 1
    BY <2>2, ShapeIs DEF Turning, Shape
  <2>5. Alone'
    BY <2>3 DEF Alone
  <2>6. \A i \in Files \ {0} : Rank(i)' \in Nat /\ Rank(i)' <= Rank(i)
    <3>1. \A i : Rank(i) = IF s + 2 <= i THEN i - 2 ELSE i - 1
      BY <1>0, <1>1, RankWhenTurned DEF Places
    <3>2. \A i : Rank(i)' = IF (s - 1) + 2 <= i THEN i - 2 ELSE i - 1
      BY <2>4, <2>5, RanksNext
    <3>3. QED
      BY <1>0, <2>1, <3>1, <3>2, LoggerAssumption DEF Files
  <2>7. Counts'
    BY <1>1, <1>2, <2>6, CountsStay
  <2>8. FullWhenTurned' /\ ArchivesFresh'
    BY <1>1, <1>2 DEF Places, FullWhenTurned, ArchivesFresh
  <2>9. Gap'
    <3>1. Fresh(s) = {} /\ s \in Files
      <4>1. s \in Files
        BY <1>0, LoggerAssumption DEF Files
      <4>2. QED
        BY <1>4, <4>1 DEF Fresh, Ids, Messages, Exists, NoFile
    <3>2. Fresh(s)' = {}
      BY <1>2, <3>1
    <3>3. szLogFileName'[p] + 1 = s
      BY <1>0, <2>4
    <3>4. Fresh(szLogFileName[p] + 1)' = {}
      BY <3>2, <3>3 DEF Fresh, Ids, Messages
    <3>5. QED
      BY <2>3, <3>4 DEF Gap
  <2>10. QED
    BY <2>5, <2>7, <2>8, <2>9 DEF Places
<1>5. QED
  BY <1>3, <1>4

\* A rotation that ends too soon has moved the last file at most, or is torn.
LEMMA LeaveLatest ==
  ASSUME Base, Places, Counts, NEW p \in Procs, RenameFails(p) \/ TakeTime(p) \/ Restart(p)
  PROVE  Places' /\ Counts'
<1> USE DEF Base
<1>1. /\ pc' = [pc EXCEPT ![p] = "idle"] /\ UNCHANGED file
      /\ torn' <=> torn \/ (Turning(p) /\ szLogFileName[p] # LastShifted)
      /\ \A q \in Procs \ {p} : szLogFileName'[q] = szLogFileName[q]
  <2>1. CASE RenameFails(p)
    BY <2>1 DEF RenameFails, Turning
  <2>2. CASE TakeTime(p)
    BY <2>2 DEF TakeTime, Turning, history
  <2>3. CASE Restart(p)
    BY <2>3, Numbers DEF Restart, Turning
  <2>4. QED
    BY <2>1, <2>2, <2>3
<1>2. /\ UNCHANGED <<written, late>> /\ Size0' = Size0 /\ \A m : Since(m)' = Since(m)
      /\ \A i \in Files : Fresh(i)' = Fresh(i) /\ Ids(i)' = Ids(i)
  BY FreshStays
<1>3. \A i : Exists(i)' <=> Exists(i)
  BY <1>1 DEF Exists
<1>4. /\ ~Turning(p)' /\ ~Rotating(p)'
      /\ \A q \in Procs \ {p} : (Turning(q)' <=> Turning(q)) /\ (Rotating(q)' <=> Rotating(q))
  BY <1>1, ShapeIs DEF Turning, Rotating, Shape
<1>5. CASE ~Turning(p)
  <2>1. torn' <=> torn
    BY <1>1, <1>5
  <2>2. QED
    BY <1>1, <1>2, <1>3, <1>4, <1>5, <2>1, QuietStep
<1>6. CASE Turning(p)
  <2>1. \A q \in Procs \ {p} : ~Rotating(q) /\ ~Turning(q)
    BY <1>6 DEF Places, Alone, Turning, Rotating
  <2>2. \A q \in Procs : ~Rotating(q)' /\ ~Turning(q)'
    BY <1>4, <2>1
  <2>3. Alone' /\ FullWhenTurned' /\ Gap' /\ ArchivesFresh'
    BY <1>2, <1>3, <2>2 DEF Places, Alone, FullWhenTurned, Gap, ArchivesFresh
  <2>4. ~torn' => \A i \in Files \ {0} : Rank(i)' \in Nat /\ Rank(i)' <= Rank(i)
    <3>1. SUFFICES ASSUME szLogFileName[p] = LastShifted, NEW i \in Files \ {0}
                   PROVE  Rank(i)' \in Nat /\ Rank(i)' <= Rank(i)
      BY <1>1, <1>6
    <3>2. Rank(i) = IF LastShifted + 2 <= i THEN i - 2 ELSE i - 1
      BY <1>6, <3>1, RankWhenTurned DEF Places
    <3>3. Rank(i)' = i - 1
      BY <2>2, RanksNext
    <3>4. QED
      BY <3>2, <3>3, LoggerAssumption DEF Files, LastShifted
  <2>5. Counts'
    BY <1>1, <1>2, <2>4, CountsStay
  <2>6. QED
    BY <2>3, <2>5 DEF Places
<1>7. QED
  BY <1>5, <1>6

\* A message takes no part in a rotation.
LEMMA WritePlaces ==
  ASSUME Base, Places, NEW p \in Procs, Write(p)
  PROVE  Places'
<1> USE DEF Base
<1>1. /\ pc[p] = "write" /\ pc' = [pc EXCEPT ![p] = "stat"] /\ UNCHANGED szLogFileName
  BY DEF Write, struct
<1>2. \A q \in Procs : (Turning(q)' <=> Turning(q)) /\ (Rotating(q)' <=> Rotating(q))
  BY <1>1, ShapeIs DEF Turning, Rotating, Shape
<1>3. /\ \A i \in Files : Exists(i)' <=> Exists(i)
      /\ \A i \in Files \ {0} : Fresh(i)' = Fresh(i)
      /\ Size0' \in {Size0, Size0 + 1} /\ Size0 \in Nat /\ 0 \in Files
  BY WriteFresh, Size0Type, LoggerAssumption DEF Files
<1>4. Alone' /\ ArchivesFresh'
  BY <1>2, <1>3 DEF Places, Alone, ArchivesFresh
<1>5. FullWhenTurned'
  <2>1. Size0 >= dwMaxSize => Size0' >= dwMaxSize
    BY <1>3, LoggerAssumption
  <2>2. QED
    BY <1>2, <1>3, <2>1 DEF Places, FullWhenTurned
<1>6. Gap'
  <2>1. SUFFICES ASSUME NEW q \in Procs, Turning(q), szLogFileName[q] < LastShifted
                 PROVE  Fresh(szLogFileName[q] + 1)' = {}
    BY <1>1, <1>2 DEF Gap, LastShifted
  <2>2. PICK f : f = szLogFileName[q] + 1
    OBVIOUS
  <2>3. szLogFileName'[q] + 1 = f /\ f \in Files \ {0} /\ Fresh(f) = {}
    BY <1>1, <2>1, <2>2, Numbers DEF Places, Gap, LastShifted, Files
  <2>4. Fresh(f)' = {}
    BY <1>3, <2>3
  <2>5. QED
    BY <2>3, <2>4 DEF Fresh, Ids, Messages
<1>7. QED
  BY <1>4, <1>5, <1>6 DEF Places

\* No file and no message: nothing is asked.
LEMMA EmptyLatest ==
  ASSUME written = 0, late = {}, \A i \in Files : file[i] = NoFile,
         \A p \in Procs : pc[p] = "idle"
  PROVE  Latest
<1>1. \A i \in Files : Fresh(i) = {} /\ Ids(i) = {} /\ ~Exists(i)
  BY DEF Fresh, Ids, Messages, Exists, NoFile
<1>2. \A p \in Procs : ~Turning(p) /\ ~Rotating(p)
  BY DEF Turning, Rotating
<1>3. Places
  BY <1>1, <1>2 DEF Places, Alone, FullWhenTurned, Gap, ArchivesFresh
<1>4. Counts
  BY <1>1 DEF Counts, Ranked, Apart, BeforeBase, LostLate
<1>5. QED
  BY <1>3, <1>4 DEF Latest, Front

LEMMA EmptyLatestNext ==
  written' = 0 /\ late' = {} /\ (\A i \in Files : file'[i] = NoFile)
    /\ (\A p \in Procs : pc'[p] = "idle") => Latest'
<1>1. written = 0 /\ late = {} /\ (\A i \in Files : file[i] = NoFile)
        /\ (\A p \in Procs : pc[p] = "idle") => Latest
  BY EmptyLatest
<1>2. (written = 0 /\ late = {} /\ (\A i \in Files : file[i] = NoFile)
        /\ (\A p \in Procs : pc[p] = "idle") => Latest)'
  BY <1>1, PTL
<1>3. Files' = Files /\ NoFile' = NoFile
  BY DEF Files, NoFile
<1>4. QED
  BY <1>2, <1>3

LEMMA StepLatest ==
  ASSUME Base, Latest, [Next]_vars
  PROVE  Latest'
<1>0. Front /\ Front'
  BY StepFront DEF Latest
<1>1. ASSUME NEW p \in Procs,
             \/ Open(p) \/ Write(p) \/ Stat(p) \/ Access(p)
             \/ Rename(p) \/ RenameFails(p) \/ TakeTime(p) \/ Restart(p)
      PROVE  Latest'
  <2>1. iType' = iType /\ (~disturbed' => ~disturbed)
    <3>0. CASE Open(p)
      BY <3>0 DEF Open
    <3>1. CASE Write(p) \/ Rename(p) \/ RenameFails(p) \/ Restart(p)
      <4>1. UNCHANGED <<iType, disturbed>>
        BY <3>1 DEF Write, Rename, RenameFails, Restart
      <4>2. QED
        BY <4>1
    <3>2. CASE Stat(p)
      <4>1. CASE ~Exists(0) \/ Keeps(p)
        BY <3>2, <4>1 DEF Stat
      <4>2. CASE Exists(0) /\ ~Keeps(p)
        BY <3>2, <4>2 DEF Stat
      <4>3. QED
        BY <4>1, <4>2
    <3>3. CASE Access(p) \/ TakeTime(p)
      BY <3>3 DEF Access, TakeTime, history
    <3>4. QED
      BY <1>1, <3>0, <3>1, <3>2, <3>3
  <2>2. SUFFICES ASSUME iType = "T_LOG_LOOP", ~disturbed', Places, Counts
                 PROVE  Places' /\ Counts'
    BY <1>0, <2>1 DEF Latest, Undisturbed
  <2>3. CASE Write(p)
    BY <2>2, <2>3, WritePlaces, WriteCounts, LateCounts
  <2>4. CASE Rename(p)
    BY <1>0, <2>2, <2>4, RenamePlaces, RenameCounts
  <2>5. QED
    BY <1>1, <2>2, <2>3, <2>4, OpenLatest, StatLatest, AccessLatest, LeaveLatest
<1>2. CASE Clock
  <2>1. ~Undisturbed'
    BY <1>2 DEF Clock, Undisturbed
  <2>2. QED
    BY <1>0, <2>1 DEF Latest
<1>3. CASE StartOver
  <2>1. /\ written' = 0 /\ late' = {} /\ \A i \in Files : file'[i] = NoFile
        /\ \A p \in Procs : pc'[p] = "idle"
    BY <1>3 DEF StartOver, Files
  <2>2. QED
    BY <2>1, EmptyLatestNext
<1>4. CASE UNCHANGED vars
  <2>1. UNCHANGED <<iType, file, now, pc, szLogFileName, written, late, disturbed, torn>>
    BY <1>4 DEF vars, struct, history
  <2>2. SUFFICES ASSUME Undisturbed, Places, Counts PROVE Places' /\ Counts'
    BY <1>0, <2>1 DEF Latest, Undisturbed
  <2>3. /\ Size0' = Size0 /\ \A m : Since(m)' = Since(m)
        /\ \A i \in Files : /\ Fresh(i)' = Fresh(i) /\ Ids(i)' = Ids(i)
                            /\ Exists(i)' <=> Exists(i)
    BY <2>1 DEF Size0, Since, Fresh, Ids, Messages, Exists
  <2>4. \A q \in Procs : (Turning(q)' <=> Turning(q)) /\ (Rotating(q)' <=> Rotating(q))
    BY <2>1 DEF Turning, Rotating
  <2>5. QED
    BY <2>1, <2>2, <2>3, <2>4, QuietStep, LoggerAssumption DEF Files
<1>5. QED
  BY <1>1, <1>2, <1>3, <1>4 DEF Next

\* A log by size gives up a message only for as many later ones as all the files
\* but one hold, for any number of processes and files of any size, as long as no
\* two rotations overlap; and for two files of them once a rotation was cut short.
\* (Logger_ShiftFile unlinks the last file, and makes room in the others in turn.)
THEOREM LatestAreKept == Spec => []KeepsLatest
<1>1. Init => Latest
  <2>1. SUFFICES ASSUME Init PROVE Latest
    OBVIOUS
  <2>2. /\ written = 0 /\ late = {} /\ \A i \in Files : file[i] = NoFile
        /\ \A p \in Procs : pc[p] = "idle"
    BY <2>1 DEF Init, Files
  <2>3. QED
    BY <2>2, EmptyLatest
<1>2. Base /\ Latest /\ [Next]_vars => Latest'
  BY StepLatest
<1>3. Latest => KeepsLatest
  BY DEF Latest, Undisturbed, Counts, LostLate, KeepsLatest, Since, Ids, Files
<1>4. QED
  BY <1>1, <1>2, <1>3, LoggerInvariance, PTL DEF Spec
=============================================================================
