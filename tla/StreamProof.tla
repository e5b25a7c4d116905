---------------------------- MODULE StreamProof ----------------------------
(***************************************************************************)
(* SocketInputStream implements the byte stream, for every length of the   *)
(* buffer and of the stream, when its caller asks IsEmpty first.           *)
(***************************************************************************)
EXTENDS InputStream, SequenceTheorems, TLAPS

IInv == TypeOK /\ NothingLost

(***************************************************************************)
(* The arithmetic of the ring.                                             *)
(***************************************************************************)
\* An index computed modulo the length of the buffer.
LEMMA ModuloSize ==
  ASSUME NEW x \in 0 .. (2 * STREAM_SIZE - 1)
  PROVE  x % STREAM_SIZE = IF x < STREAM_SIZE THEN x ELSE x - STREAM_SIZE
BY StreamAssumption

\* Bytes taken at the head leave the ring with that many bytes less.
LEMMA HeldAfterTake ==
  ASSUME NEW head \in Cells, NEW tail \in Cells, NEW n \in Nat, n <= Held(head, tail)
  PROVE  /\ (head + n) % STREAM_SIZE \in Cells
         /\ Held((head + n) % STREAM_SIZE, tail) = Held(head, tail) - n
         /\ (head + n) % STREAM_SIZE =
              IF head + n < STREAM_SIZE THEN head + n ELSE head + n - STREAM_SIZE
<1>1. head + n \in 0 .. (2 * STREAM_SIZE - 1)
  BY StreamAssumption DEF Cells, Held
<1>2. PICK x \in 0 .. (2 * STREAM_SIZE - 1) : x = head + n
  BY <1>1
<1>3. x % STREAM_SIZE = IF x < STREAM_SIZE THEN x ELSE x - STREAM_SIZE
  BY ModuloSize
<1>4. QED
  BY <1>1, <1>2, <1>3, StreamAssumption DEF Cells, Held

\* The bytes held in order are read at these cells.
Cell(head, k) == IF k <= STREAM_SIZE - head THEN head + k - 1 ELSE head + k - 1 - STREAM_SIZE

\* The bytes held lie inside the buffer.
LEMMA CellType ==
  ASSUME NEW head \in Cells, NEW k \in 1 .. STREAM_SIZE
  PROVE  Cell(head, k) \in Cells
BY StreamAssumption DEF Cells, Cell

\* The bytes copied out, one by one.
LEMMA CopyOutType ==
  ASSUME NEW buf \in [Cells -> Nat], NEW head \in Cells, NEW n \in 0 .. STREAM_SIZE
  PROVE  /\ CopyOut(buf, head, n) \in Seq(Nat)
         /\ Len(CopyOut(buf, head, n)) = n
         /\ \A k \in 1 .. n : CopyOut(buf, head, n)[k] = buf[Cell(head, k)]
<1>1. \A k \in 1 .. n : k \in 1 .. STREAM_SIZE
  BY StreamAssumption
<1>a. \A k \in 1 .. n : buf[Cell(head, k)] \in Nat
  BY <1>1, CellType
<1>2. CopyOut(buf, head, n) = [k \in 1 .. n |-> buf[Cell(head, k)]]
  BY DEF CopyOut, Cell
<1>3. QED
  BY <1>a, <1>2

(***************************************************************************)
(* What one call does to the bytes held.                                   *)
(***************************************************************************)
LEMMA PendingType ==
  ASSUME IInv
  PROVE  /\ Held(dwHead, dwTail) \in 0 .. (STREAM_SIZE - 1)
         /\ Pending \in Seq(Nat) /\ Len(Pending) = Held(dwHead, dwTail)
         /\ \A k \in 1 .. Held(dwHead, dwTail) : Pending[k] = cBuf[Cell(dwHead, k)]
<1>1. Held(dwHead, dwTail) \in 0 .. (STREAM_SIZE - 1)
  BY StreamAssumption DEF IInv, TypeOK, Held, Cells
<1>2. Held(dwHead, dwTail) \in 0 .. STREAM_SIZE
  BY <1>1, StreamAssumption
<1>3. QED
  BY <1>1, <1>2, CopyOutType DEF IInv, TypeOK, Pending

\* Bytes that leave at the front: what is left is the rest of what was held.
LEMMA AdvancePending ==
  ASSUME IInv, NEW n \in Nat, n <= Held(dwHead, dwTail), Advance(n),
         UNCHANGED <<dwTail, cBuf>>
  PROVE  /\ dwHead' \in Cells
         /\ Held(dwHead, dwTail)' = Held(dwHead, dwTail) - n
         /\ Pending' = SubSeq(Pending, n + 1, Len(Pending))
<1> DEFINE h == Held(dwHead, dwTail)
<1>1. dwHead \in Cells /\ dwTail \in Cells /\ cBuf \in [Cells -> Nat]
  BY DEF IInv, TypeOK
<1>2. /\ dwHead' \in Cells /\ Held(dwHead', dwTail) = h - n
      /\ dwHead' = IF dwHead + n < STREAM_SIZE THEN dwHead + n ELSE dwHead + n - STREAM_SIZE
  BY <1>1, HeldAfterTake DEF Advance
<1>3. h \in 0 .. (STREAM_SIZE - 1) /\ Len(Pending) = h /\ Pending \in Seq(Nat)
      /\ \A k \in 1 .. h : Pending[k] = cBuf[Cell(dwHead, k)]
  BY PendingType
<1>4. h - n \in 0 .. STREAM_SIZE /\ h \in Nat /\ h - n \in Nat
  BY <1>3, StreamAssumption
<1>5. Pending' = CopyOut(cBuf, dwHead', h - n)
  BY <1>2 DEF Pending
<1>6. /\ Pending' \in Seq(Nat) /\ Len(Pending') = h - n
      /\ \A k \in 1 .. (h - n) : Pending'[k] = cBuf[Cell(dwHead', k)]
  BY <1>1, <1>2, <1>4, <1>5, CopyOutType
<1> HIDE DEF h
<1>7. \A k \in 1 .. (h - n) : Cell(dwHead', k) = Cell(dwHead, k + n) /\ k + n \in 1 .. h
  BY <1>1, <1>2, <1>3, StreamAssumption DEF Cell, Cells
<1>8. \A k \in 1 .. (h - n) : Pending'[k] = Pending[k + n]
  BY <1>3, <1>6, <1>7
<1> DEFINE rest == SubSeq(Pending, n + 1, Len(Pending))
<1>9. /\ rest \in Seq(Nat) /\ Len(rest) = h - n
      /\ \A k \in 1 .. (h - n) : rest[k] = Pending[k + n]
  <2>1. \A k \in (n + 1) .. h : Pending[k] \in Nat
    BY <1>3
  <2>2. n + 1 \in Int /\ h \in Int /\ rest = SubSeq(Pending, n + 1, h)
    BY <1>3, <1>4
  <2>3. /\ SubSeq(Pending, n + 1, h) \in Seq(Nat)
        /\ Len(SubSeq(Pending, n + 1, h)) = IF n + 1 <= h THEN h - (n + 1) + 1 ELSE 0
        /\ \A k \in 1 .. (h - (n + 1) + 1) :
              SubSeq(Pending, n + 1, h)[k] = Pending[(n + 1) + k - 1]
    BY <2>1, <2>2, SubSeqProperties
  <2>4. h - (n + 1) + 1 = h - n /\ (IF n + 1 <= h THEN h - (n + 1) + 1 ELSE 0) = h - n
    BY <1>4
  <2>5. \A k \in 1 .. (h - n) : (n + 1) + k - 1 = k + n
    BY <1>4
  <2>6. QED
    BY <2>2, <2>3, <2>4, <2>5
<1> HIDE DEF rest
<1>10. Pending' = rest
  BY <1>6, <1>8, <1>9, SeqEqual
<1>11. QED
  BY <1>2, <1>10 DEF h, rest

\* The front of what is held is what Read and Peek copy.
LEMMA CopyIsFront ==
  ASSUME IInv, NEW n \in Nat, n <= Held(dwHead, dwTail)
  PROVE  /\ CopyOut(cBuf, dwHead, n) = SubSeq(Pending, 1, n)
         /\ CopyOut(cBuf, dwHead, n) \in Seq(Nat)
<1> DEFINE h == Held(dwHead, dwTail)
           front == SubSeq(Pending, 1, n)
           copy == CopyOut(cBuf, dwHead, n)
<1>1. h \in 0 .. (STREAM_SIZE - 1) /\ Len(Pending) = h /\ Pending \in Seq(Nat)
      /\ \A k \in 1 .. h : Pending[k] = cBuf[Cell(dwHead, k)]
  BY PendingType
<1>2. n \in 0 .. STREAM_SIZE /\ n <= h
  BY <1>1, StreamAssumption
<1>3. copy \in Seq(Nat) /\ Len(copy) = n /\ \A k \in 1 .. n : copy[k] = cBuf[Cell(dwHead, k)]
  BY <1>2, CopyOutType DEF IInv, TypeOK
<1>4. front \in Seq(Nat) /\ Len(front) = n /\ \A k \in 1 .. n : front[k] = Pending[k]
  BY <1>1, <1>2
<1> HIDE DEF h, front, copy
<1>5. \A k \in 1 .. n : copy[k] = front[k]
  <2>1. \A k \in 1 .. n : k \in 1 .. h
    BY <1>1, <1>2, StreamAssumption
  <2>2. QED
    BY <1>1, <1>3, <1>4, <2>1
<1>6. copy = front
  BY <1>3, <1>4, <1>5, SeqEqual
<1>7. QED
  BY <1>3, <1>6 DEF copy, front

\* Bytes received go behind those held, which stay.
LEMMA FillPending ==
  ASSUME IInv, NEW n \in 1 .. STREAM_SIZE, Fill(n)
  PROVE  /\ dwTail' \in Cells
         /\ Held(dwHead, dwTail)' = Held(dwHead, dwTail) + n
         /\ cBuf' \in [Cells -> Nat]
         /\ Pending' = Pending \o [k \in 1 .. n |-> arrived + k]
<1> DEFINE h == Held(dwHead, dwTail)
           new == [k \in 1 .. n |-> arrived + k]
<1>1. dwHead \in Cells /\ dwTail \in Cells /\ cBuf \in [Cells -> Nat] /\ arrived \in Nat
  BY DEF IInv, TypeOK
<1>2. dwTail + n <= STREAM_SIZE /\ n <= RecvRoom /\ dwHead' = dwHead
  BY <1>1, StreamAssumption DEF Fill, FilledTail, RecvRoom, Cells
<1>3. dwTail' = IF dwTail + n = STREAM_SIZE THEN 0 ELSE dwTail + n
  <2>1. PICK x \in 0 .. (2 * STREAM_SIZE - 1) : x = dwTail + n
    BY <1>1, <1>2, StreamAssumption DEF Cells
  <2>2. x % STREAM_SIZE = IF x < STREAM_SIZE THEN x ELSE x - STREAM_SIZE
    BY ModuloSize
  <2>3. dwTail' = x % STREAM_SIZE \/ dwTail' = x
    BY <2>1 DEF Fill, FilledTail
  <2>4. x = STREAM_SIZE => dwTail' = x % STREAM_SIZE
    BY <1>1, <1>2, <2>1, StreamAssumption DEF Fill, FilledTail, RecvRoom, Cells
  <2>5. QED
    BY <1>1, <1>2, <2>1, <2>2, <2>3, <2>4, StreamAssumption DEF Cells
<1>4. dwTail' \in Cells /\ Held(dwHead', dwTail') = h + n
  BY <1>1, <1>2, <1>3, StreamAssumption DEF RecvRoom, Held, Cells
<1>5. cBuf' = PutIn(cBuf, dwTail, n, arrived)
  BY DEF Fill, FilledTail
<1>6. /\ cBuf' \in [Cells -> Nat]
      /\ \A c \in Cells : cBuf'[c] = IF c >= dwTail /\ c < dwTail + n
                                     THEN arrived + c - dwTail + 1 ELSE cBuf[c]
  BY <1>1, <1>2, <1>5, StreamAssumption DEF PutIn, Cells
<1>7. h \in 0 .. (STREAM_SIZE - 1) /\ Len(Pending) = h /\ Pending \in Seq(Nat)
      /\ \A k \in 1 .. h : Pending[k] = cBuf[Cell(dwHead, k)]
  BY PendingType
<1>8. h + n \in 0 .. STREAM_SIZE /\ h \in Nat /\ h + n \in Nat
  BY <1>1, <1>2, StreamAssumption DEF RecvRoom, Held, Cells
<1>9. Pending' = CopyOut(cBuf', dwHead, h + n)
  BY <1>2, <1>4 DEF Pending
<1>10. /\ Pending' \in Seq(Nat) /\ Len(Pending') = h + n
       /\ \A k \in 1 .. (h + n) : Pending'[k] = cBuf'[Cell(dwHead, k)]
  BY <1>1, <1>6, <1>8, <1>9, CopyOutType
<1>11. \A k \in 1 .. h : Pending'[k] = Pending[k]
  <2>1. ASSUME NEW k \in 1 .. h
        PROVE  /\ Cell(dwHead, k) \in Cells
               /\ ~(Cell(dwHead, k) >= dwTail /\ Cell(dwHead, k) < dwTail + n)
    BY <1>1, <1>2, StreamAssumption DEF Cell, Cells, Held, RecvRoom
  <2> HIDE DEF h
  <2>2. \A k \in 1 .. h : k \in 1 .. (h + n)
    BY <1>7
  <2>3. QED
    BY <1>6, <1>7, <1>10, <2>1, <2>2
<1>12. \A k \in 1 .. n : Pending'[h + k] = arrived + k
  <2>1. ASSUME NEW k \in 1 .. n
        PROVE  Cell(dwHead, h + k) \in Cells /\ Cell(dwHead, h + k) = dwTail + k - 1
    BY <1>1, <1>2, StreamAssumption DEF Cell, Cells, Held, RecvRoom
  <2> HIDE DEF h
  <2>2. \A k \in 1 .. n : h + k \in 1 .. (h + n)
    BY <1>7
  <2>3. ASSUME NEW k \in 1 .. n
        PROVE  cBuf'[Cell(dwHead, h + k)] = arrived + k
    <3>1. PICK c \in Cells : c = Cell(dwHead, h + k)
      BY <2>1
    <3>2. c = dwTail + k - 1
      BY <2>1, <3>1
    <3>3. cBuf'[c] = arrived + c - dwTail + 1
      BY <1>1, <1>6, <3>2 DEF Cells
    <3>4. arrived + c - dwTail + 1 = arrived + k
      BY <1>1, <3>2 DEF Cells
    <3>5. QED
      BY <3>1, <3>3, <3>4
  <2>4. QED
    BY <1>10, <2>2, <2>3
<1>13. Pending' = Pending \o new
  <2>1. new \in Seq(Nat) /\ Len(new) = n /\ \A k \in 1 .. n : new[k] = arrived + k
    BY <1>1
  <2> HIDE DEF h, new
  <2>2. /\ Pending \o new \in Seq(Nat) /\ Len(Pending \o new) = h + n
        /\ \A k \in 1 .. h : (Pending \o new)[k] = Pending[k]
        /\ \A k \in 1 .. n : (Pending \o new)[h + k] = new[k]
    <3>1. /\ Pending \o new \in Seq(Nat) /\ Len(Pending \o new) = Len(Pending) + Len(new)
          /\ \A i \in 1 .. Len(Pending) + Len(new) :
               (Pending \o new)[i] = IF i <= Len(Pending) THEN Pending[i]
                                     ELSE new[i - Len(Pending)]
      BY <1>7, <2>1, ConcatProperties
    <3>2. Len(Pending) = h /\ Len(new) = n /\ h \in Nat
      BY <1>7, <1>8, <2>1
    <3>3. \A k \in 1 .. h : k \in 1 .. h + n /\ k <= h
      BY <3>2
    <3>4. \A k \in 1 .. n : h + k \in 1 .. h + n /\ ~(h + k <= h) /\ (h + k) - h = k
      BY <3>2
    <3>5. QED
      BY <3>1, <3>2, <3>3, <3>4
  <2>3. ASSUME NEW k \in 1 .. (h + n)
        PROVE  Pending'[k] = (Pending \o new)[k]
    <3>1. CASE k \in 1 .. h
      BY <1>11, <2>2, <3>1
    <3>2. CASE k \notin 1 .. h
      <4>1. PICK j \in 1 .. n : k = h + j
        BY <1>8, <3>2
      <4>2. QED
        BY <1>12, <2>1, <2>2, <4>1
    <3>3. QED
      BY <3>1, <3>2
  <2>4. QED
    BY <1>10, <2>2, <2>3, SeqEqual
<1>14. QED
  BY <1>2, <1>4, <1>6, <1>13 DEF h, new

(***************************************************************************)
(* The invariant: a caller that saw IsEmpty answer FALSE asks for no more  *)
(* than is held, since the length is then the number of bytes held.        *)
(***************************************************************************)
LEMMA LengthIsHeld ==
  ASSUME IInv, ~IsEmpty
  PROVE  Length(dwHead, dwTail) = Held(dwHead, dwTail)
BY StreamAssumption DEF IInv, TypeOK, Cells, IsEmpty, Length, Held

\* With IsEmpty asked first, a length that passes the test is held.
LEMMA AskedIsHeld ==
  ASSUME IInv, CheckEmpty = TRUE, NEW n \in Lens, Asked(n), n <= Length(dwHead, dwTail)
  PROVE  n \in Nat /\ n <= Held(dwHead, dwTail)
BY LengthIsHeld, InputAssumption, StreamAssumption DEF Asked

\* An empty ring has lost nothing.
LEMMA InitInv == ASSUME Init PROVE IInv
BY StreamAssumption, InputAssumption DEF Init, IInv, TypeOK, NothingLost, Held, Cells

\* Bytes taken from the front leave the invariant, whatever the call hands out.
LEMMA AdvanceInv ==
  ASSUME IInv, NEW n \in Nat, n <= Held(dwHead, dwTail), Advance(n),
         UNCHANGED <<dwTail, cBuf, arrived>>, out' \in Seq(Nat), ret' \in Int
  PROVE  IInv'
<1>1. dwHead' \in Cells /\ Held(dwHead, dwTail)' = Held(dwHead, dwTail) - n
  BY AdvancePending
<1>2. Held(dwHead, dwTail) \in Nat
  BY PendingType, StreamAssumption
<1>3. taken' = taken + n /\ taken \in Nat
  BY DEF Advance, IInv, TypeOK
<1>4. TypeOK'
  BY <1>1, <1>3 DEF IInv, TypeOK
<1>5. NothingLost'
  BY <1>1, <1>2, <1>3, InputAssumption DEF IInv, TypeOK, NothingLost
<1>6. QED
  BY <1>4, <1>5 DEF IInv

\* Every call keeps the invariant.
LEMMA StepInv ==
  ASSUME CheckEmpty = TRUE, IInv, [Next]_vars
  PROVE  IInv'
<1>1. ASSUME NEW n \in 1 .. STREAM_SIZE, Fill(n) PROVE IInv'
  <2>1. /\ dwTail' \in Cells /\ cBuf' \in [Cells -> Nat]
        /\ Held(dwHead, dwTail)' = Held(dwHead, dwTail) + n
    BY <1>1, FillPending
  <2>2. Held(dwHead, dwTail) \in Nat
    BY PendingType, StreamAssumption
  <2>3. /\ arrived' = arrived + n /\ arrived + n <= StreamLen /\ ret' = n
        /\ UNCHANGED <<dwHead, out, taken>>
    BY <1>1 DEF Fill, FilledTail
  <2>4. TypeOK'
    BY <2>1, <2>3, StreamAssumption, InputAssumption DEF IInv, TypeOK
  <2>5. NothingLost'
    <3>1. taken \in Nat /\ arrived \in Nat /\ n \in Nat /\ taken' = taken /\ arrived' = arrived + n
      BY <2>3, InputAssumption, StreamAssumption DEF IInv, TypeOK
    <3>2. taken + Held(dwHead, dwTail) = arrived
      BY DEF IInv, NothingLost
    <3>3. taken' + Held(dwHead, dwTail)' = arrived'
      BY <2>1, <2>2, <3>1, <3>2
    <3>4. QED
      BY <3>3 DEF NothingLost
  <2>6. QED
    BY <2>4, <2>5 DEF IInv
<1>2. CASE FillNothing
  BY <1>2 DEF FillNothing, IInv, TypeOK, NothingLost
<1>3. CASE FillError
  BY <1>3 DEF FillError, IInv, TypeOK, NothingLost
<1>4. ASSUME NEW n \in Lens, TooLong(n) PROVE IInv'
  BY <1>4 DEF TooLong, IInv, TypeOK, NothingLost
<1>5. ASSUME NEW n \in Lens, Read(n) PROVE IInv'
  <2>1. n \in Nat /\ n <= Held(dwHead, dwTail)
    BY <1>5, AskedIsHeld DEF Read, Front
  <2>2. CopyOut(cBuf, dwHead, n) \in Seq(Nat)
    BY <2>1, CopyIsFront
  <2>3. Advance(n) /\ UNCHANGED <<dwTail, cBuf, arrived>> /\ out' \in Seq(Nat) /\ ret' \in Int
    BY <1>5, <2>1, <2>2 DEF Read, Front
  <2>4. QED
    BY <2>1, <2>3, AdvanceInv
<1>6. ASSUME NEW n \in Lens, Peek(n) PROVE IInv'
  <2>1. n \in Nat /\ n <= Held(dwHead, dwTail)
    BY <1>6, AskedIsHeld DEF Peek, Front
  <2>2. CopyOut(cBuf, dwHead, n) \in Seq(Nat)
    BY <2>1, CopyIsFront
  <2>3. QED
    BY <1>6, <2>2 DEF Peek, Front, IInv, TypeOK, NothingLost
<1>7. ASSUME NEW n \in Lens, Skip(n) PROVE IInv'
  <2>1. n \in Nat /\ n <= Held(dwHead, dwTail)
    BY <1>7, AskedIsHeld DEF Skip
  <2>2. Advance(n) /\ UNCHANGED <<dwTail, cBuf, arrived>> /\ out' \in Seq(Nat) /\ ret' \in Int
    BY <1>7 DEF Skip, IInv, TypeOK
  <2>3. QED
    BY <2>1, <2>2, AdvanceInv
<1>8. CASE CleanUp
  <2>1. dwHead' = 0 /\ dwTail' = 0 /\ taken' = arrived /\ UNCHANGED <<cBuf, out, ret, arrived>>
    BY <1>8 DEF CleanUp
  <2>2. 0 \in Cells /\ Held(0, 0) = 0
    BY StreamAssumption DEF Cells, Held
  <2>3. QED
    BY <2>1, <2>2, InputAssumption DEF IInv, TypeOK, NothingLost
<1>9. CASE UNCHANGED vars
  BY <1>9 DEF vars, IInv, TypeOK, NothingLost
<1>10. QED
  BY <1>1, <1>2, <1>3, <1>4, <1>5, <1>6, <1>7, <1>8, <1>9 DEF Next

\* The invariant holds in every behaviour whose caller asks IsEmpty first.
THEOREM InputInvariance ==
  ASSUME CheckEmpty = TRUE
  PROVE  Spec => []IInv
<1>1. Init => IInv
  BY InitInv
<1>2. IInv /\ [Next]_vars => IInv'
  BY StepInv
<1>3. QED
  BY <1>1, <1>2, PTL DEF Spec

\* Types and bounds: after any calls of Fill, Read, Peek, Skip and CleanUp both
\* indices stay inside the buffer of SocketInputStream.
THEOREM InputTypeCorrect ==
  ASSUME CheckEmpty = TRUE
  PROVE  Spec => []TypeOK
<1>1. IInv => TypeOK
  BY DEF IInv
<1>2. QED
  BY <1>1, InputInvariance, PTL

\* Every byte received was taken or is still held: Fill never writes over
\* unread bytes, whichever of its three branches it takes.
THEOREM InputNothingLost ==
  ASSUME CheckEmpty = TRUE
  PROVE  Spec => []NothingLost
<1>1. IInv => NothingLost
  BY DEF IInv
<1>2. QED
  BY <1>1, InputInvariance, PTL

(***************************************************************************)
(* The ring implements the byte stream.                                    *)
(***************************************************************************)
LEMMA EmptyPending ==
  ASSUME NEW buf, NEW i
  PROVE  CopyOut(buf, i, 0) = <<>>
BY DEF CopyOut

\* The new ring is the empty stream.
LEMMA InitRefines == ASSUME Init PROVE Stream!StreamInit
<1>1. Held(dwHead, dwTail) = 0
  BY DEF Init, Held
<1>2. Pending = <<>>
  BY <1>1, EmptyPending DEF Pending
<1>3. QED
  BY <1>2 DEF Init, Stream!StreamInit

\* The calls that leave the ring alone leave the bytes held alone.
LEMMA SamePending ==
  ASSUME UNCHANGED <<dwHead, dwTail, cBuf>>
  PROVE  Pending' = Pending
BY DEF Pending

\* Every call is one step of the byte stream, or none.
LEMMA StepRefines ==
  ASSUME CheckEmpty = TRUE, IInv, [Next]_vars
  PROVE  [Stream!StreamNext]_(Stream!streamVars)
<1> USE DEF Stream!streamVars
<1>1. ASSUME NEW n \in 1 .. STREAM_SIZE, Fill(n) PROVE Stream!StreamNext
  <2>1. Pending' = Pending \o [k \in 1 .. n |-> arrived + k]
    BY <1>1, FillPending
  <2>2. arrived' = arrived + n /\ arrived + n <= StreamLen /\ UNCHANGED out
    BY <1>1 DEF Fill, FilledTail
  <2>3. n \in 1 .. StreamLen
    BY <2>2, StreamAssumption, InputAssumption DEF IInv, TypeOK
  <2>4. Stream!Arrive(n)
    BY <2>1, <2>2 DEF Stream!Arrive
  <2>5. QED
    BY <2>3, <2>4 DEF Stream!StreamNext
<1>2. CASE FillNothing \/ FillError \/ (\E n \in Lens : TooLong(n)) \/ UNCHANGED vars
  <2>1. UNCHANGED <<dwHead, dwTail, cBuf, out, arrived>>
    BY <1>2 DEF FillNothing, FillError, TooLong, vars
  <2>2. QED
    BY <2>1, SamePending
<1>3. ASSUME NEW n \in Lens, Read(n) PROVE Stream!StreamNext
  <2>1. n \in Nat /\ n <= Held(dwHead, dwTail)
    BY <1>3, AskedIsHeld DEF Read, Front
  <2>2. out' = SubSeq(Pending, 1, n)
    BY <1>3, <2>1, CopyIsFront DEF Read, Front
  <2>3. Advance(n) /\ UNCHANGED <<dwTail, cBuf, arrived>>
    BY <1>3 DEF Read, Front
  <2>4. Pending' = SubSeq(Pending, n + 1, Len(Pending))
    BY <2>1, <2>3, AdvancePending
  <2>5. n <= Len(Pending)
    BY <2>1, PendingType
  <2>6. Stream!Take(n)
    BY <2>2, <2>3, <2>4, <2>5 DEF Stream!Take, Stream!Front, Stream!Rest
  <2>7. QED
    BY <2>6 DEF Stream!StreamNext
<1>4. ASSUME NEW n \in Lens, Peek(n) PROVE Stream!StreamNext
  <2>1. n \in Nat /\ n <= Held(dwHead, dwTail)
    BY <1>4, AskedIsHeld DEF Peek, Front
  <2>2. out' = SubSeq(Pending, 1, n)
    BY <1>4, <2>1, CopyIsFront DEF Peek, Front
  <2>3. UNCHANGED <<dwHead, dwTail, cBuf, arrived>>
    BY <1>4 DEF Peek, Front
  <2>4. n <= Len(Pending)
    BY <2>1, PendingType
  <2>5. Stream!Look(n)
    BY <2>2, <2>3, <2>4, SamePending DEF Stream!Look, Stream!Front
  <2>6. QED
    BY <2>5 DEF Stream!StreamNext
<1>5. ASSUME NEW n \in Lens, Skip(n) PROVE Stream!StreamNext
  <2>1. n \in Nat /\ n <= Held(dwHead, dwTail)
    BY <1>5, AskedIsHeld DEF Skip
  <2>2. Advance(n) /\ UNCHANGED <<dwTail, cBuf, out, arrived>>
    BY <1>5 DEF Skip
  <2>3. Pending' = SubSeq(Pending, n + 1, Len(Pending))
    BY <2>1, <2>2, AdvancePending
  <2>4. n <= Len(Pending)
    BY <2>1, PendingType
  <2>5. Stream!Discard(n)
    BY <2>2, <2>3, <2>4 DEF Stream!Discard, Stream!Rest
  <2>6. QED
    BY <2>5 DEF Stream!StreamNext
<1>6. CASE CleanUp
  <2>1. Held(dwHead', dwTail') = 0 /\ UNCHANGED <<out, arrived>>
    BY <1>6 DEF CleanUp, Held
  <2>2. Pending' = CopyOut(cBuf', dwHead', 0)
    BY <2>1 DEF Pending
  <2>3. Stream!Clear
    BY <2>1, <2>2, EmptyPending DEF Stream!Clear
  <2>4. QED
    BY <2>3 DEF Stream!StreamNext
<1>7. QED
  BY <1>1, <1>2, <1>3, <1>4, <1>5, <1>6 DEF Next

\* Refinement: with a caller that asks IsEmpty first, the ring of
\* SocketInputStream hands out every byte received once and in order.
THEOREM InputImplementsStream ==
  ASSUME CheckEmpty = TRUE
  PROVE  Spec => ImplementsStream
<1>1. Init => Stream!StreamInit
  BY InitRefines
<1>2. IInv /\ [Next]_vars => [Stream!StreamNext]_(Stream!streamVars)
  BY StepRefines
<1>3. QED
  BY <1>1, <1>2, InputInvariance, PTL DEF Spec, ImplementsStream, Stream!StreamSpec
=============================================================================
