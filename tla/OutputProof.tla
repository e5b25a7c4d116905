---------------------------- MODULE OutputProof ----------------------------
(***************************************************************************)
(* SocketOutputStream holds the last bytes written, in order, whatever was *)
(* skipped and however Flush was interrupted, when its caller asks IsEmpty *)
(* before it skips: for every length of the buffer and of the stream.      *)
(***************************************************************************)
EXTENDS OutputStream, SequenceTheorems, TLAPS

\* Where byte k of those held lies.
Place(k) == IF dwHead + k <= STREAM_SIZE THEN dwHead + k - 1 ELSE dwHead + k - 1 - STREAM_SIZE

\* The ring holds the last bytes written, one after the other.
LastWritten ==
  /\ Held(dwHead, dwTail) <= written
  /\ \A k \in 1 .. Held(dwHead, dwTail) :
       cBuf[Place(k)] = written - Held(dwHead, dwTail) + k

\* Flush stays in its loop only while there is something to send.
IInv == TypeOK /\ LastWritten /\ (flushing => dwHead # dwTail)

(***************************************************************************)
(* The arithmetic of the ring.                                             *)
(***************************************************************************)
\* An index computed modulo the length of the buffer.
LEMMA Wraps ==
  ASSUME NEW i \in Cells, NEW n \in 0 .. STREAM_SIZE
  PROVE  /\ (i + n) % STREAM_SIZE = IF i + n < STREAM_SIZE THEN i + n ELSE i + n - STREAM_SIZE
         /\ (i + n) % STREAM_SIZE \in Cells
<1>1. PICK x \in 0 .. (2 * STREAM_SIZE - 1) : x = i + n
  BY StreamAssumption DEF Cells
<1>2. x % STREAM_SIZE = IF x < STREAM_SIZE THEN x ELSE x - STREAM_SIZE
  BY StreamAssumption
<1>3. QED
  BY <1>1, <1>2, StreamAssumption DEF Cells

\* The bytes held leave a cell free, and lie inside the buffer.
LEMMA HeldType ==
  ASSUME TypeOK
  PROVE  /\ Held(dwHead, dwTail) \in 0 .. (STREAM_SIZE - 1)
         /\ Held(dwHead, dwTail) = 0 <=> dwHead = dwTail
         /\ \A k \in 1 .. Held(dwHead, dwTail) : Place(k) \in Cells
BY StreamAssumption DEF TypeOK, Held, Cells, Place

\* The sequence of the bytes held, by numbers alone.
LEMMA PendingIs ==
  IInv => Pending = [k \in 1 .. Held(dwHead, dwTail) |-> written - Held(dwHead, dwTail) + k]
<1> SUFFICES ASSUME IInv
             PROVE  Pending = [k \in 1 .. Held(dwHead, dwTail) |->
                                 written - Held(dwHead, dwTail) + k]
  OBVIOUS
<1> DEFINE h == Held(dwHead, dwTail)
<1>1. h \in 0 .. (STREAM_SIZE - 1) /\ dwHead \in Cells
  BY HeldType DEF IInv, TypeOK
<1>2. \A k \in 1 .. h : (IF k <= STREAM_SIZE - dwHead THEN cBuf[dwHead + k - 1]
                         ELSE cBuf[dwHead + k - 1 - STREAM_SIZE]) = cBuf[Place(k)]
  BY <1>1, StreamAssumption DEF Place, Cells
<1>3. \A k \in 1 .. h : cBuf[Place(k)] = written - h + k
  BY DEF IInv, LastWritten
<1>4. Pending = [k \in 1 .. h |-> IF k <= STREAM_SIZE - dwHead THEN cBuf[dwHead + k - 1]
                                  ELSE cBuf[dwHead + k - 1 - STREAM_SIZE]]
  BY DEF Pending, CopyOut
<1> HIDE DEF h
<1>5. QED
  BY <1>2, <1>3, <1>4 DEF h

(***************************************************************************)
(* The invariant.                                                          *)
(***************************************************************************)
\* A new ring is empty.
LEMMA InitInv == ASSUME Init PROVE IInv
<1>1. TypeOK
  <2>1. 0 \in Cells /\ 0 \in 0 .. StreamLen
    BY StreamAssumption, OutputAssumption DEF Cells
  <2>2. QED
    BY <2>1 DEF Init, TypeOK
<1>2. Held(dwHead, dwTail) = 0
  BY DEF Init, Held
<1>3. LastWritten
  BY <1>2 DEF Init, LastWritten
<1>4. QED
  BY <1>1, <1>3 DEF Init, IInv

\* What Write does to the indices and to each cell.
LEMMA WriteEffect ==
  ASSUME IInv, NEW n \in Lens, Write(n)
  PROVE  /\ n \in 1 .. STREAM_SIZE /\ dwTail' \in Cells
         /\ Held(dwHead, dwTail)' = Held(dwHead, dwTail) + n
         /\ cBuf' \in [Cells -> Nat]
         /\ \A k \in 1 .. Held(dwHead, dwTail) : cBuf'[Place(k)] = cBuf[Place(k)]
         /\ \A k \in 1 .. n : cBuf'[Place(Held(dwHead, dwTail) + k)] = written + k
<1> DEFINE h == Held(dwHead, dwTail)
<1>1. /\ dwHead \in Cells /\ dwTail \in Cells /\ cBuf \in [Cells -> Nat] /\ written \in Nat
      /\ n \in 1 .. STREAM_SIZE /\ n < Free
  BY OutputAssumption DEF IInv, TypeOK, Write
<1>2. h + n < STREAM_SIZE /\ h \in Nat
  BY <1>1, StreamAssumption DEF Free, Held, Cells
<1>3. /\ dwTail' = IF dwTail + n < STREAM_SIZE THEN dwTail + n ELSE dwTail + n - STREAM_SIZE
      /\ dwTail' \in Cells
  BY <1>1, Wraps DEF Write, WrittenTail
<1>4. Held(dwHead, dwTail)' = h + n
  BY <1>1, <1>2, <1>3, StreamAssumption DEF Write, Held, Cells
<1>5. cBuf' = PutIn(cBuf, dwTail, n, written)
  BY DEF Write
<1>6. cBuf' \in [Cells -> Nat]
  BY <1>1, <1>5, StreamAssumption DEF PutIn, Cells
<1>7. ASSUME NEW k \in 1 .. h PROVE cBuf'[Place(k)] = cBuf[Place(k)]
  <2>1. /\ Place(k) \in Cells
        /\ ~(Place(k) >= dwTail /\ Place(k) < dwTail + n)
        /\ ~(Place(k) + STREAM_SIZE < dwTail + n)
    BY <1>1, <1>2, StreamAssumption DEF Place, Cells, Held
  <2>2. QED
    BY <1>5, <2>1 DEF PutIn
<1>8. ASSUME NEW k \in 1 .. n PROVE cBuf'[Place(h + k)] = written + k
  <2>1. /\ Place(h + k) \in Cells
        /\ \/ /\ Place(h + k) = dwTail + k - 1
              /\ Place(h + k) >= dwTail /\ Place(h + k) < dwTail + n
           \/ /\ Place(h + k) = dwTail + k - 1 - STREAM_SIZE
              /\ ~(Place(h + k) >= dwTail)
              /\ Place(h + k) + STREAM_SIZE < dwTail + n
    BY <1>1, <1>2, StreamAssumption DEF Place, Cells, Held
  <2>2. Place(h + k) = dwTail + k - 1 => written + Place(h + k) - dwTail + 1 = written + k
    BY <1>1 DEF Cells
  <2>3. Place(h + k) = dwTail + k - 1 - STREAM_SIZE =>
          written + Place(h + k) + STREAM_SIZE - dwTail + 1 = written + k
    BY <1>1, StreamAssumption DEF Cells
  <2> HIDE DEF h
  <2>4. QED
    BY <1>5, <2>1, <2>2, <2>3 DEF PutIn
<1>9. QED
  BY <1>1, <1>3, <1>4, <1>6, <1>7, <1>8

\* What leaves at the front moves the places, not the bytes.
LEMMA SkipEffect ==
  ASSUME IInv, NEW n \in 0 .. Held(dwHead, dwTail),
         dwHead' = (dwHead + n) % STREAM_SIZE, UNCHANGED dwTail
  PROVE  /\ dwHead' \in Cells
         /\ Held(dwHead, dwTail)' = Held(dwHead, dwTail) - n
         /\ \A k \in 1 .. (Held(dwHead, dwTail) - n) : Place(k)' = Place(n + k)
<1>1. dwHead \in Cells /\ dwTail \in Cells /\ n \in 0 .. STREAM_SIZE
  BY HeldType, StreamAssumption DEF IInv, TypeOK
<1>2. /\ dwHead' = IF dwHead + n < STREAM_SIZE THEN dwHead + n ELSE dwHead + n - STREAM_SIZE
      /\ dwHead' \in Cells
  BY <1>1, Wraps
<1>3. Held(dwHead, dwTail)' = Held(dwHead, dwTail) - n
  BY <1>1, <1>2, StreamAssumption DEF Held, Cells
<1>4. ASSUME NEW k \in 1 .. (Held(dwHead, dwTail) - n) PROVE Place(k)' = Place(n + k)
  <2>1. Held(dwHead, dwTail) \in 0 .. (STREAM_SIZE - 1)
    BY HeldType DEF IInv
  <2>2. k \in Nat /\ n \in Nat /\ n + k < STREAM_SIZE /\ k >= 1
    BY <1>1, <2>1, StreamAssumption
  <2>3. Place(k)' = IF dwHead' + k <= STREAM_SIZE THEN dwHead' + k - 1
                    ELSE dwHead' + k - 1 - STREAM_SIZE
    BY DEF Place
  <2>4. QED
    BY <1>1, <1>2, <2>2, <2>3, StreamAssumption DEF Cells, Place
<1>5. QED
  BY <1>2, <1>3, <1>4

\* A caller that saw IsEmpty answer FALSE skips no more than is held.
LEMMA SkipsHeld ==
  ASSUME CheckEmpty = TRUE, IInv, NEW n \in Lens, Skip(n)
  PROVE  n \in 0 .. Held(dwHead, dwTail)
BY StreamAssumption, OutputAssumption DEF IInv, TypeOK, Cells, Skip, Length, Held

\* An empty ring satisfies the invariant, wherever its indices are.
LEMMA EmptiedInv ==
  ASSUME IInv, dwHead' = 0, dwTail' = 0, ret' \in {0, -1, -2, -3}, ~flushing,
         UNCHANGED <<cBuf, flushing, history>>
  PROVE  IInv'
<1>1. 0 \in Cells /\ Held(0, 0) = 0
  BY StreamAssumption DEF Cells, Held
<1>2. QED
  BY <1>1, OutputAssumption DEF IInv, TypeOK, LastWritten, history

\* A call that leaves the ring alone keeps the invariant.
LEMMA SameRing ==
  ASSUME IInv, UNCHANGED <<dwHead, dwTail, cBuf, history>>, ret' \in {0, -1, -2, -3},
         flushing' \in BOOLEAN, flushing' => dwHead # dwTail
  PROVE  IInv'
<1>1. TypeOK'
  BY DEF IInv, TypeOK, history
<1>2. LastWritten'
  BY DEF IInv, LastWritten, Place, history
<1>3. QED
  BY <1>1, <1>2 DEF IInv

\* What send takes is a run of the bytes held.
LEMMA SendEffect ==
  ASSUME IInv, NEW n \in 1 .. STREAM_SIZE, FlushSend(n)
  PROVE  /\ cBuf[dwHead] = written - Held(dwHead, dwTail) + 1
         /\ wire' \in 0 .. written
<1>1. dwHead \in Cells /\ dwTail \in Cells /\ dwHead # dwTail /\ written \in Nat
  BY OutputAssumption DEF IInv, TypeOK, FlushSend
<1>2. n <= Held(dwHead, dwTail) /\ Held(dwHead, dwTail) \in Nat
  BY <1>1, StreamAssumption DEF FlushSend, nLeft, Held, Cells
<1>3. Place(1) = dwHead
  BY <1>1, StreamAssumption DEF Place, Cells
<1>4. cBuf[Place(1)] = written - Held(dwHead, dwTail) + 1
  BY <1>2 DEF IInv, LastWritten
<1>5. Held(dwHead, dwTail) <= written
  BY DEF IInv, LastWritten
<1>6. wire' = cBuf[dwHead] + n - 1
  BY DEF FlushSend
<1>7. QED
  BY <1>1, <1>2, <1>3, <1>4, <1>5, <1>6

\* Every call, and every send of Flush, keeps the invariant.
LEMMA StepInv ==
  ASSUME CheckEmpty = TRUE, IInv, [Next]_vars
  PROVE  IInv'
<1> USE OutputAssumption
<1>1. ASSUME NEW n \in Lens, WriteRefused(n) PROVE IInv'
  <2>1. UNCHANGED <<dwHead, dwTail, cBuf, history>> /\ ret' = -2 /\ flushing' = flushing
    BY <1>1 DEF WriteRefused
  <2>2. QED
    BY <2>1, SameRing DEF IInv, TypeOK
<1>2. ASSUME NEW n \in Lens, Write(n) PROVE IInv'
  <2> DEFINE h == Held(dwHead, dwTail)
  <2>1. /\ n \in 1 .. STREAM_SIZE /\ dwTail' \in Cells /\ Held(dwHead, dwTail)' = h + n
        /\ cBuf' \in [Cells -> Nat]
        /\ \A k \in 1 .. h : cBuf'[Place(k)] = cBuf[Place(k)]
        /\ \A k \in 1 .. n : cBuf'[Place(h + k)] = written + k
    BY <1>2, WriteEffect
  <2>2. /\ written' = written + n /\ written' <= StreamLen /\ ret' = 0
        /\ ~flushing /\ UNCHANGED <<dwHead, flushing, wire, sentTwice>>
    BY <1>2 DEF Write
  <2>3. h \in Nat /\ h <= written /\ \A k \in 1 .. h : cBuf[Place(k)] = written - h + k
    BY HeldType, StreamAssumption DEF IInv, LastWritten
  <2>4. written \in Nat /\ n \in Nat
    BY <2>1, StreamAssumption DEF IInv, TypeOK
  <2>5. TypeOK'
    BY <2>1, <2>2, <2>4 DEF IInv, TypeOK
  <2>6. \A k \in 1 .. (h + n) : Place(k)' = Place(k)
    BY <2>2 DEF Place
  <2> HIDE DEF h
  <2>7. \A k \in 1 .. (h + n) : cBuf'[Place(k)] = written - h + k
    <3>1. ASSUME NEW k \in 1 .. (h + n), k \notin 1 .. h PROVE cBuf'[Place(k)] = written - h + k
      <4>1. PICK j \in 1 .. n : k = h + j
        BY <2>3, <2>4, <3>1
      <4>2. QED
        BY <2>1, <2>3, <2>4, <4>1
    <3>2. QED
      BY <2>1, <2>3, <3>1
  <2>8. LastWritten'
    BY <2>1, <2>2, <2>3, <2>4, <2>6, <2>7 DEF LastWritten
  <2>9. QED
    BY <2>2, <2>5, <2>8 DEF IInv
<1>3. ASSUME NEW n \in Lens, SkipTooLong(n) PROVE IInv'
  <2>1. UNCHANGED <<dwHead, dwTail, cBuf, history>> /\ ret' = -2 /\ flushing' = flushing
    BY <1>3 DEF SkipTooLong
  <2>2. QED
    BY <2>1, SameRing DEF IInv, TypeOK
<1>4. ASSUME NEW n \in Lens, Skip(n) PROVE IInv'
  <2> DEFINE h == Held(dwHead, dwTail)
  <2>1. n \in 0 .. h
    BY <1>4, SkipsHeld
  <2>2. /\ dwHead' = (dwHead + n) % STREAM_SIZE /\ ret' = 0 /\ ~flushing
        /\ UNCHANGED <<dwTail, cBuf, flushing, written, wire, sentTwice>>
    BY <1>4 DEF Skip, history
  <2>3. /\ dwHead' \in Cells /\ Held(dwHead, dwTail)' = h - n
        /\ \A k \in 1 .. (h - n) : Place(k)' = Place(n + k)
    BY <2>1, <2>2, SkipEffect
  <2>4. h \in Nat /\ h <= written /\ \A k \in 1 .. h : cBuf[Place(k)] = written - h + k
    BY HeldType, StreamAssumption DEF IInv, LastWritten
  <2>5. TypeOK'
    BY <2>2, <2>3 DEF IInv, TypeOK
  <2>6. written \in Nat
    BY DEF IInv, TypeOK
  <2> HIDE DEF h
  <2>7. \A k \in 1 .. (h - n) : cBuf[Place(n + k)] = written - (h - n) + k
    <3>1. \A k \in 1 .. (h - n) : n + k \in 1 .. h /\ written - h + (n + k) = written - (h - n) + k
      BY <2>1, <2>4, <2>6
    <3>2. QED
      BY <2>4, <3>1
  <2>8. LastWritten'
    BY <2>1, <2>2, <2>3, <2>4, <2>6, <2>7 DEF LastWritten
  <2>9. QED
    BY <2>2, <2>5, <2>8 DEF IInv
<1>5. CASE CleanUp
  BY <1>5, EmptiedInv DEF CleanUp, IInv, TypeOK
<1>6. CASE FlushEmpty
  BY <1>6, EmptiedInv DEF FlushEmpty
<1>7. CASE FlushBegin
  <2>1. UNCHANGED <<dwHead, dwTail, cBuf, ret, history>> /\ flushing' = TRUE /\ dwHead # dwTail
    BY <1>7 DEF FlushBegin
  <2>2. QED
    BY <2>1, SameRing DEF IInv, TypeOK
<1>8. ASSUME NEW n \in 1 .. STREAM_SIZE, FlushSend(n) PROVE IInv'
  <2>1. wire' \in 0 .. written /\ written \in 0 .. StreamLen
    BY <1>8, SendEffect DEF IInv, TypeOK
  <2>2. /\ dwHead' = dwHead /\ sentTwice' \in BOOLEAN
        /\ UNCHANGED <<dwTail, cBuf, flushing, ret, written>>
    BY <1>8 DEF FlushSend, nSent, IInv, TypeOK, Cells
  <2>3. wire' \in 0 .. StreamLen
    BY <2>1
  <2>4. TypeOK'
    BY <2>2, <2>3 DEF IInv, TypeOK
  <2>5. LastWritten'
    BY <2>2 DEF IInv, LastWritten, Place
  <2>6. QED
    BY <2>2, <2>4, <2>5 DEF IInv
<1>9. CASE FlushNothing \/ FlushError
  <2>1. UNCHANGED <<dwHead, dwTail, cBuf, history>> /\ ret' \in {0, -1, -3} /\ flushing' = FALSE
    BY <1>9 DEF FlushNothing, FlushError, FlushReturn
  <2>2. QED
    BY <2>1, SameRing
<1>10. CASE FlushAgain \/ UNCHANGED vars
  <2>1. UNCHANGED vars
    BY <1>10 DEF FlushAgain
  <2>2. QED
    BY <2>1, SameRing DEF IInv, TypeOK, vars, history
<1>11. QED
  BY <1>1, <1>2, <1>3, <1>4, <1>5, <1>6, <1>7, <1>8, <1>9, <1>10 DEF Next

\* The invariant holds in every behaviour whose caller asks IsEmpty first.
THEOREM OutputInvariance ==
  ASSUME CheckEmpty = TRUE
  PROVE  Spec => []IInv
<1>1. Init => IInv
  BY InitInv
<1>2. IInv /\ [Next]_vars => IInv'
  BY StepInv
<1>3. QED
  BY <1>1, <1>2, PTL DEF Spec

\* Types and bounds: both indices of SocketOutputStream stay inside its buffer,
\* and its cells, counters and locals keep their types.
THEOREM OutputTypeCorrect ==
  ASSUME CheckEmpty = TRUE
  PROVE  Spec => []TypeOK
<1>1. IInv => TypeOK
  BY DEF IInv
<1>2. QED
  BY <1>1, OutputInvariance, PTL

\* Flush offers the socket the oldest bytes held, in order and no others, for
\* every size of the buffer and whatever was written and skipped before.
THEOREM FlushOffersHeld ==
  ASSUME CheckEmpty = TRUE
  PROVE  Spec => []OffersHeld
<1>1. IInv => OffersHeld
  <2> SUFFICES ASSUME IInv, flushing PROVE OffersHeld
    BY DEF OffersHeld
  <2> DEFINE h == Held(dwHead, dwTail)
  <2>1. dwHead \in Cells /\ dwTail \in Cells /\ dwHead # dwTail
    BY DEF IInv, TypeOK
  <2>2. /\ nLeft \in 1 .. h
        /\ \A k \in 1 .. nLeft : k <= STREAM_SIZE - dwHead
    BY <2>1, StreamAssumption DEF nLeft, Held, Cells
  <2>3. \A k \in 1 .. nLeft : k \in 1 .. h /\ Place(k) = dwHead + k - 1
    BY <2>1, <2>2, StreamAssumption DEF Place, Cells, Held
  <2>4. QED
    BY <2>2, <2>3 DEF OffersHeld, IInv, LastWritten
<1>2. QED
  BY <1>1, OutputInvariance, PTL

(***************************************************************************)
(* The ring implements the byte stream.                                    *)
(***************************************************************************)
\* A call that leaves the ring alone leaves the bytes held alone.
LEMMA SamePending ==
  ASSUME UNCHANGED <<dwHead, dwTail, cBuf>>
  PROVE  Pending' = Pending
BY DEF Pending

\* An empty ring is the empty stream.
LEMMA EmptyPending ==
  ASSUME Held(dwHead, dwTail) = 0
  PROVE  Pending = <<>>
BY DEF Pending, CopyOut

\* What is left of a run of numbers when its first n are taken.
LEMMA RestOfRun ==
  ASSUME NEW h \in Nat, NEW n \in 0 .. h, NEW first \in Int
  PROVE  SubSeq([k \in 1 .. h |-> first + k], n + 1, Len([k \in 1 .. h |-> first + k]))
           = [k \in 1 .. (h - n) |-> first + n + k]
<1> DEFINE run == [k \in 1 .. h |-> first + k]
           rest == [k \in 1 .. (h - n) |-> first + n + k]
<1>1. run \in Seq(Int) /\ Len(run) = h /\ \A k \in 1 .. h : run[k] = first + k
  OBVIOUS
<1>2. rest \in Seq(Int) /\ Len(rest) = h - n /\ \A k \in 1 .. (h - n) : rest[k] = first + n + k
  OBVIOUS
<1> HIDE DEF run, rest
<1>3. /\ SubSeq(run, n + 1, h) \in Seq(Int)
      /\ Len(SubSeq(run, n + 1, h)) = IF n + 1 <= h THEN h - (n + 1) + 1 ELSE 0
      /\ \A k \in 1 .. (h - (n + 1) + 1) : SubSeq(run, n + 1, h)[k] = run[(n + 1) + k - 1]
  <2>1. n + 1 \in Int /\ h \in Int /\ \A k \in (n + 1) .. h : run[k] \in Int
    BY <1>1
  <2>2. QED
    BY <2>1, SubSeqProperties
<1>4. Len(SubSeq(run, n + 1, h)) = h - n
  BY <1>3
<1>5. \A k \in 1 .. (h - n) :
        k \in 1 .. (h - (n + 1) + 1) /\ (n + 1) + k - 1 \in 1 .. h /\ (n + 1) + k - 1 = n + k
  OBVIOUS
<1>6. \A k \in 1 .. (h - n) : SubSeq(run, n + 1, h)[k] = first + (n + k)
  BY <1>1, <1>3, <1>5
<1>7. \A k \in 1 .. (h - n) : SubSeq(run, n + 1, h)[k] = rest[k]
  BY <1>2, <1>6
<1>8. SubSeq(run, n + 1, h) = rest
  BY <1>2, <1>3, <1>4, <1>7, SeqEqual
<1>9. QED
  BY <1>1, <1>8 DEF run, rest

\* A run of numbers and the numbers that follow it.
LEMMA RunAndMore ==
  ASSUME NEW h \in Nat, NEW n \in Nat, NEW first \in Int
  PROVE  [k \in 1 .. h |-> first + k] \o [k \in 1 .. n |-> first + h + k]
           = [k \in 1 .. (h + n) |-> first + k]
OBVIOUS

\* Every call is one step of the byte stream, or none.
LEMMA StepRefines ==
  ASSUME CheckEmpty = TRUE, IInv, IInv', [Next]_vars
  PROVE  [Stream!StreamNext]_(Stream!streamVars)
<1> DEFINE h == Held(dwHead, dwTail)
<1> USE DEF Stream!streamVars
<1>0. (IInv => Pending = [k \in 1 .. Held(dwHead, dwTail) |->
                            written - Held(dwHead, dwTail) + k])'
  BY PendingIs, PTL
<1>1. ASSUME NEW n \in Lens, Write(n) PROVE Stream!StreamNext
  <2>1. h' = h + n /\ n \in 1 .. STREAM_SIZE /\ written' = written + n /\ written' <= StreamLen
    BY <1>1, WriteEffect DEF Write
  <2>2. h \in Nat /\ written \in Nat
    BY HeldType, StreamAssumption DEF IInv, TypeOK
  <2>3. Pending = [k \in 1 .. h |-> written - h + k]
    BY PendingIs
  <2>4. Pending' = [k \in 1 .. h' |-> written' - h' + k]
    BY <1>0
  <2> HIDE DEF h
  <2>5. written - h \in Int /\ h \in Nat /\ n \in Nat
    BY <2>1, <2>2
  <2>6. Pending' = [k \in 1 .. (h + n) |-> (written - h) + k]
    BY <2>1, <2>2, <2>4
  <2>7. [k \in 1 .. n |-> written + k] = [k \in 1 .. n |-> (written - h) + h + k]
    BY <2>1, <2>2
  <2>8. Pending' = Pending \o [k \in 1 .. n |-> written + k]
    BY <2>3, <2>5, <2>6, <2>7, RunAndMore
  <2>9. n \in 1 .. StreamLen /\ Stream!Arrive(n)
    BY <2>1, <2>2, <2>8, OutputAssumption DEF Stream!Arrive
  <2>10. QED
    BY <2>9 DEF Stream!StreamNext
<1>2. ASSUME NEW n \in Lens, Skip(n) PROVE Stream!StreamNext
  <2>1. n \in 0 .. h
    BY <1>2, SkipsHeld
  <2>2. h' = h - n /\ written' = written
    BY <1>2, <2>1, SkipEffect DEF Skip, history
  <2>3. h \in Nat /\ written \in Nat
    BY HeldType, StreamAssumption DEF IInv, TypeOK
  <2>4. Pending = [k \in 1 .. h |-> written - h + k]
    BY PendingIs
  <2>5. Pending' = [k \in 1 .. h' |-> written' - h' + k]
    BY <1>0
  <2> HIDE DEF h
  <2>6. Pending' = [k \in 1 .. (h - n) |-> (written - h) + n + k]
    BY <2>1, <2>2, <2>3, <2>5
  <2>7. Pending' = SubSeq(Pending, n + 1, Len(Pending))
    BY <2>1, <2>3, <2>4, <2>6, RestOfRun
  <2>8. n <= Len(Pending)
    BY <2>1, <2>3, <2>4
  <2>9. Stream!Discard(n)
    BY <2>2, <2>7, <2>8 DEF Stream!Discard, Stream!Rest
  <2>10. QED
    BY <2>9 DEF Stream!StreamNext
<1>3. CASE CleanUp
  <2>1. Pending' = <<>> /\ written' = written
    BY <1>3, EmptyPending DEF CleanUp, history, Held, Pending, CopyOut
  <2>2. QED
    BY <2>1 DEF Stream!StreamNext, Stream!Clear
<1>4. CASE FlushEmpty
  <2>1. h = 0
    BY <1>4, HeldType DEF FlushEmpty, IInv
  <2>2. Pending' = <<>> /\ Pending = <<>> /\ written' = written
    BY <1>4, <2>1, EmptyPending DEF FlushEmpty, history, Held, Pending, CopyOut
  <2>3. QED
    BY <2>2
<1>5. ASSUME NEW n \in 1 .. STREAM_SIZE, FlushSend(n) PROVE UNCHANGED Stream!streamVars
  <2>1. UNCHANGED <<dwHead, dwTail, cBuf, written>>
    BY <1>5 DEF FlushSend, nSent, IInv, TypeOK, Cells
  <2>2. QED
    BY <2>1, SamePending
<1>6. ASSUME UNCHANGED <<dwHead, dwTail, cBuf, written>> PROVE UNCHANGED Stream!streamVars
  BY <1>6, SamePending
<1>7. CASE \/ \E n \in Lens : WriteRefused(n) \/ SkipTooLong(n)
           \/ FlushBegin \/ FlushNothing \/ FlushAgain \/ FlushError \/ UNCHANGED vars
  BY <1>6, <1>7 DEF WriteRefused, SkipTooLong, FlushBegin, FlushNothing, FlushAgain, FlushError,
                    FlushReturn, vars, history
<1>8. QED
  BY <1>1, <1>2, <1>3, <1>4, <1>5, <1>7 DEF Next

\* Refinement: with a caller that asks IsEmpty before it skips, the ring of
\* SocketOutputStream holds every byte written, once and in order, until it is
\* skipped or cleaned up; no Flush changes that.
THEOREM OutputImplementsStream ==
  ASSUME CheckEmpty = TRUE
  PROVE  Spec => ImplementsStream
<1>1. Init => Stream!StreamInit
  <2>1. Init => Pending = <<>>
    BY EmptyPending DEF Init, Held
  <2>2. QED
    BY <2>1 DEF Init, Stream!StreamInit
<1>2. IInv /\ IInv' /\ [Next]_vars => [Stream!StreamNext]_(Stream!streamVars)
  BY StepRefines
<1>3. QED
  BY <1>1, <1>2, OutputInvariance, PTL DEF Spec, ImplementsStream, Stream!StreamSpec
=============================================================================
