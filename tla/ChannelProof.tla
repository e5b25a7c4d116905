---------------------------- MODULE ChannelProof ----------------------------
(***************************************************************************)
(* The safety of the ring for every length of the buffer, every set of     *)
(* bodies and every interleaving of the two calls, on a segment whose      *)
(* indices start inside the buffer; then, for a buffer whose lengths fit   *)
(* in the 16 bits of a header, that the ring implements the FIFO of        *)
(* ChannelFifo and that its counter is exact.                              *)
(***************************************************************************)
EXTENDS ChannelRefinement, SequenceTheorems, WellFoundedInduction, TLAPS

\* Index x is met on the way from head to tail.
Between(head, x, tail) ==
  \/ head <= x /\ x <= tail
  \/ tail < head /\ head <= x
  \/ tail < head /\ x <= tail

InRangeSegment == InitIndices \subseteq Cells \X Cells

\* Where AddPkg copies a package of p bytes.
Start(head, tail, p) == IF Wraps(head, tail, p) THEN 0 ELSE tail

(***************************************************************************)
(* The arithmetic of the ring.                                             *)
(***************************************************************************)

\* An index computed modulo the length of the buffer.
LEMMA ModuloLen ==
  ASSUME NEW x \in 0 .. CHANNEL_BUF_LEN
  PROVE  x % CHANNEL_BUF_LEN = IF x = CHANNEL_BUF_LEN THEN 0 ELSE x
BY BufLenAssumption

\* A package that AddPkg accepts goes to cells of the buffer that hold nothing
\* unread, and the tail after it is neither outside nor at the head.
LEMMA AcceptedFits ==
  ASSUME NEW head \in Cells, NEW tail \in Cells, NEW p \in Nat, p >= HeadLen,
         ~Full(head, tail, p)
  PROVE  LET s == Start(head, tail, p) IN
         /\ s .. (s + p - 1) \subseteq Cells
         /\ (s .. (s + p - 1)) \cap Unread(head, tail) = {}
         /\ (s + p) % CHANNEL_BUF_LEN \in Cells
         /\ (s + p) % CHANNEL_BUF_LEN # head
         /\ (s + p) % CHANNEL_BUF_LEN = IF s + p = CHANNEL_BUF_LEN THEN 0 ELSE s + p
<1> DEFINE s == Start(head, tail, p)
<1>1. s \in Nat /\ s + p \in 0 .. CHANNEL_BUF_LEN
  BY BufLenAssumption DEF Cells, Full, Start, Wraps, HeadLen
<1>2. (s + p) % CHANNEL_BUF_LEN = IF s + p = CHANNEL_BUF_LEN THEN 0 ELSE s + p
  BY <1>1, ModuloLen
<1>3. s .. (s + p - 1) \subseteq Cells
  BY <1>1, BufLenAssumption DEF Cells
<1>4. (s .. (s + p - 1)) \cap Unread(head, tail) = {}
  BY BufLenAssumption DEF Cells, Full, Start, Wraps, HeadLen, Unread
<1>5. (IF s + p = CHANNEL_BUF_LEN THEN 0 ELSE s + p) \in Cells \ {head}
  BY BufLenAssumption DEF Cells, Full, Start, Wraps, HeadLen
<1> HIDE DEF s
<1>6. QED
  BY <1>2, <1>3, <1>4, <1>5 DEF s

\* A head that advances towards the tail only makes room: the package stays
\* accepted, and at the same place.
LEMMA StaysAccepted ==
  ASSUME NEW head \in Cells, NEW new \in Cells, NEW tail \in Cells, NEW p \in Nat,
         Between(head, new, tail), ~Full(head, tail, p)
  PROVE  ~Full(new, tail, p) /\ (Wraps(new, tail, p) <=> Wraps(head, tail, p))
BY BufLenAssumption DEF Cells, Between, Full, Wraps

\* A tail that advances over an accepted package leaves what the reader has
\* seen between the head and the tail.
LEMMA StaysBetween ==
  ASSUME NEW head \in Cells, NEW tail \in Cells, NEW x \in Cells, NEW p \in Nat,
         p >= HeadLen, ~Full(head, tail, p), Between(head, x, tail)
  PROVE  Between(head, x, (Start(head, tail, p) + p) % CHANNEL_BUF_LEN)
BY AcceptedFits, BufLenAssumption DEF Cells, Between, Full, Start, Wraps, HeadLen

\* The contiguous bytes GetPkg allows itself are unread bytes of the buffer,
\* and reading n of them leaves the head between the old one and the tail.
LEMMA ReadableUnread ==
  ASSUME NEW head \in Cells, NEW seen \in Cells, NEW tail \in Cells,
         head # seen, Between(head, seen, tail),
         NEW n \in Nat, n <= BufLen(head, seen)
  PROVE  /\ head .. (head + n - 1) \subseteq Cells
         /\ head .. (head + n - 1) \subseteq Unread(head, tail)
         /\ (head + n) % CHANNEL_BUF_LEN \in Cells
         /\ Between(head, (head + n) % CHANNEL_BUF_LEN, tail)
<1>1. head + n \in 0 .. CHANNEL_BUF_LEN
  BY BufLenAssumption DEF Cells, BufLen
<1>2. (head + n) % CHANNEL_BUF_LEN = IF head + n = CHANNEL_BUF_LEN THEN 0 ELSE head + n
  BY <1>1, ModuloLen
<1>3. head .. (head + n - 1) \subseteq Cells
  BY <1>1, BufLenAssumption DEF Cells
<1>4. head .. (head + n - 1) \subseteq Unread(head, tail)
  BY BufLenAssumption DEF Cells, BufLen, Between, Unread
<1>5. (head + n) % CHANNEL_BUF_LEN \in Cells
  BY <1>1, <1>2, BufLenAssumption DEF Cells
<1>6. Between(head, (head + n) % CHANNEL_BUF_LEN, tail)
  BY <1>1, <1>2, BufLenAssumption DEF Cells, BufLen, Between
<1>7. QED
  BY <1>3, <1>4, <1>5, <1>6

------------------------------------------------------------------------------
(***************************************************************************)
(* The inductive invariant.  A call decides on the indices it loaded, and  *)
(* the other side may move its own index before the call is over; what     *)
(* survives is that the writer's package is still accepted at the same     *)
(* place, and that the tail the reader saw is still on the way from the    *)
(* head to the tail.                                                       *)
(***************************************************************************)
Adding  == pPc \in {"mark", "head", "body", "publish"}
Getting == cPc \in {"boundary", "parse", "copy", "advance"}

WriterInv ==
  Adding =>
    LET p == PkgLen(Len(pBody)) IN
    /\ ~Full(dwHead, dwTail, p)
    /\ pPc = "mark" => pTail = dwTail /\ Wraps(dwHead, dwTail, p)
    /\ pPc # "mark" => pTail = Start(dwHead, dwTail, p)

ReaderInv ==
  /\ Getting =>
       /\ rHead = dwHead /\ rTail \in Cells /\ rHead # rTail
       /\ Between(dwHead, rTail, dwTail)
  /\ cPc \in {"copy", "advance"} =>
       /\ iPkgLen >= HeadLen /\ iPkgLen <= BufLen(rHead, rTail)
  /\ cPc = "copy" => iPkgLen = PkgLen(wLength(cBuf, rHead))

IInv ==
  /\ TypeOK
  /\ dwHead \in Cells /\ dwTail \in Cells
  /\ pPc \notin {"fatal", "reset"} /\ cPc \notin {"fatal", "reset"}
  /\ WriterInv
  /\ ReaderInv

\* memcpy into the buffer leaves bytes in it.
LEMMA CopyInType ==
  ASSUME NEW buf \in Ring, NEW i \in Nat, NEW s \in Seq(Byte)
  PROVE  CopyIn(buf, i, s) \in Ring
BY BufLenAssumption DEF Ring, CopyIn, Cells

\* The header of any package is three bytes.
LEMMA HeaderType ==
  ASSUME NEW n \in Nat
  PROVE  Header(n) \in Seq(Byte) /\ Len(Header(n)) = HeadLen
<1>1. n % 256 \in Byte /\ (n \div 256) % 256 \in Byte
  BY DEF Byte
<1>2. START_TAG \in Byte
  BY DEF START_TAG, Byte
<1>3. QED
  BY <1>1, <1>2 DEF Header, HeadLen

\* The bytes copied out of the buffer are the body of a package.
LEMMA CopyOutType ==
  ASSUME NEW buf \in Ring, NEW i \in Nat, NEW n \in Nat,
         n = 0 \/ i .. (i + n - 1) \subseteq Cells
  PROVE  CopyOut(buf, i, n) \in Seq(Byte)
<1>1. \A k \in 1 .. n : buf[i + k - 1] \in Byte
  BY DEF Ring
<1>2. QED
  BY <1>1 DEF CopyOut

\* A length read from the buffer is a number, whatever bytes are there.
LEMMA LengthType ==
  ASSUME NEW buf \in Ring, NEW i \in Nat, i + 1 \in Cells, i + 2 \in Cells
  PROVE  wLength(buf, i) \in Nat
<1>1. buf[i + 1] \in Byte /\ buf[i + 2] \in Byte
  BY DEF Ring
<1>2. ASSUME NEW a \in Byte, NEW b \in Byte
      PROVE  a + 256 * b \in Nat
  BY DEF Byte
<1>3. QED
  BY <1>1, <1>2 DEF wLength

\* No call is in progress on a new segment.
LEMMA InitIInv ==
  ASSUME InRangeSegment, Init
  PROVE  IInv
<1>1. dwHead \in Cells /\ dwTail \in Cells
  BY DEF Init, InRangeSegment
<1>2. TypeOK
  BY <1>1, ChannelAssumption, BufLenAssumption DEF Init, TypeOK, Ring, Cells
<1>3. QED
  BY <1>1, <1>2 DEF Init, IInv, WriterInv, ReaderInv, Adding, Getting

\* A step of the writer that moves no index and writes outside of the unread
\* bytes is not noticed by the call of the reader.
LEMMA ReaderUndisturbed ==
  ASSUME IInv, UNCHANGED <<dwHead, dwTail, cVars>>,
         \A c \in Unread(dwHead, dwTail) \cap Cells : cBuf'[c] = cBuf[c]
  PROVE  ReaderInv'
<1>1. ASSUME cPc = "copy"
      PROVE  wLength(cBuf, rHead)' = wLength(cBuf, rHead)
  <2>1. /\ rHead \in Cells /\ rTail \in Cells /\ rHead # rTail /\ rHead = dwHead
        /\ Between(rHead, rTail, dwTail) /\ dwTail \in Cells
        /\ iPkgLen \in Nat /\ iPkgLen <= BufLen(rHead, rTail) /\ iPkgLen >= HeadLen
    BY <1>1 DEF IInv, ReaderInv, Getting, TypeOK
  <2>2. rHead .. (rHead + iPkgLen - 1) \subseteq Unread(rHead, dwTail) \cap Cells
    BY <2>1, ReadableUnread
  <2>3. rHead + 1 \in rHead .. (rHead + iPkgLen - 1) /\ rHead + 2 \in rHead .. (rHead + iPkgLen - 1)
    BY <2>1 DEF HeadLen, Cells
  <2>4. rHead' = rHead
    BY DEF cVars
  <2>5. QED
    BY <2>1, <2>2, <2>3, <2>4 DEF wLength
<1>2. QED
  BY <1>1 DEF IInv, ReaderInv, Getting, cVars

\* No step of Channel_AddPkg breaks the invariant, its reader part included.
LEMMA WriterKeepsIInv ==
  ASSUME IInv, Writer
  PROVE  IInv'
<1> DEFINE p == PkgLen(Len(pBody))
<1>0. ~OutOfRange
  BY BufLenAssumption DEF OutOfRange, Cells, IInv
<1>a. TypeOK /\ dwHead \in Cells /\ dwTail \in Cells /\ p \in Nat /\ p >= HeadLen
  BY DEF IInv, TypeOK, PkgLen, HeadLen
<1>b. ASSUME Adding
      PROVE  LET s == Start(dwHead, dwTail, p) IN
             /\ s \in Nat
             /\ \A c \in s .. (s + p - 1) : c \notin Unread(dwHead, dwTail)
  <2> DEFINE s == Start(dwHead, dwTail, p)
  <2>1. ~Full(dwHead, dwTail, p)
    BY <1>b DEF IInv, WriterInv
  <2>2. s \in Nat
    BY <1>a DEF Start, Cells
  <2>3. (s .. (s + p - 1)) \cap Unread(dwHead, dwTail) = {}
    BY <1>a, <2>1, AcceptedFits
  <2> HIDE DEF s
  <2>4. QED
    BY <2>2, <2>3 DEF s
<1>1. ASSUME NEW body \in Bodies, AddFull(body) PROVE IInv'
  <2>1. TypeOK'
    BY <1>a, <1>1, ChannelAssumption DEF AddFull, AddReturn, shared, cVars, history, TypeOK
  <2>2. WriterInv'
    BY <1>1 DEF AddFull, AddReturn, WriterInv, Adding
  <2>3. ReaderInv'
    BY <1>1, ReaderUndisturbed DEF AddFull, shared
  <2>4. QED
    BY <2>1, <2>2, <2>3, <1>1 DEF IInv, AddFull, AddReturn, shared, cVars
<1>2. ASSUME NEW body \in Bodies, AddBegin(body) PROVE IInv'
  <2>1. TypeOK'
    BY <1>a, <1>2, ChannelAssumption DEF AddBegin, shared, cVars, history, TypeOK
  <2>2. WriterInv'
    BY <1>2 DEF AddBegin, shared, WriterInv, Adding, Start
  <2>3. ReaderInv'
    BY <1>2, ReaderUndisturbed DEF AddBegin, shared
  <2>4. QED
    BY <2>1, <2>2, <2>3, <1>2 DEF IInv, AddBegin, shared, cVars
<1>3. CASE AddMark
  <2>1. pTail = dwTail /\ Wraps(dwHead, dwTail, p) /\ ~Full(dwHead, dwTail, p)
    BY <1>3 DEF AddMark, IInv, WriterInv, Adding
  <2>2. TypeOK'
    <3>1. cBuf' \in Ring
      <4>1. START_TAG \in Byte
        BY DEF START_TAG, Byte
      <4>2. QED
        BY <1>a, <1>3, <4>1 DEF AddMark, TypeOK, Ring
    <3>2. QED
      BY <1>a, <1>3, <3>1 DEF AddMark, cVars, history, TypeOK
  <2>3. WriterInv'
    BY <1>3, <2>1 DEF AddMark, WriterInv, Adding, Start
  <2>4. ReaderInv'
    <3>1. dwTail \notin Unread(dwHead, dwTail)
      BY <1>a, <2>1 DEF Unread, Wraps, Cells
    <3>2. \A c \in Unread(dwHead, dwTail) \cap Cells : cBuf'[c] = cBuf[c]
      BY <1>a, <1>3, <2>1, <3>1 DEF AddMark, TypeOK, Ring
    <3>3. QED
      BY <1>3, <3>2, ReaderUndisturbed DEF AddMark
  <2>5. QED
    BY <2>2, <2>3, <2>4, <1>3 DEF IInv, AddMark, cVars
<1>4. CASE AddHead
  <2>1. pTail = Start(dwHead, dwTail, p) /\ Adding
    BY <1>4 DEF AddHead, IInv, WriterInv, Adding
  <2>2. TypeOK'
    <3>1. Header(Len(pBody)) \in Seq(Byte)
      BY <1>a, HeaderType DEF TypeOK
    <3>2. cBuf' \in Ring
      BY <1>a, <1>4, <3>1, CopyInType DEF AddHead, TypeOK
    <3>3. QED
      BY <1>a, <1>4, <3>2 DEF AddHead, cVars, history, TypeOK
  <2>3. WriterInv'
    BY <1>4, <2>1 DEF AddHead, WriterInv, Adding, IInv
  <2>4. ReaderInv'
    <3>1. \A c \in Unread(dwHead, dwTail) \cap Cells :
            c \notin pTail .. (pTail + Len(Header(Len(pBody))) - 1)
      <4>1. pTail \in Nat /\ \A c \in pTail .. (pTail + p - 1) : c \notin Unread(dwHead, dwTail)
        BY <1>b, <2>1
      <4>2. Len(Header(Len(pBody))) \in Nat /\ Len(Header(Len(pBody))) <= p
        BY <1>a, HeaderType DEF TypeOK
      <4> HIDE DEF p
      <4>3. pTail .. (pTail + Len(Header(Len(pBody))) - 1) \subseteq pTail .. (pTail + p - 1)
        BY <1>a, <4>1, <4>2
      <4>4. QED
        BY <4>1, <4>3
    <3>2. \A c \in Unread(dwHead, dwTail) \cap Cells : cBuf'[c] = cBuf[c]
      BY <1>4, <3>1 DEF AddHead, CopyIn
    <3>3. QED
      BY <1>4, <3>2, ReaderUndisturbed DEF AddHead
  <2>5. QED
    BY <2>2, <2>3, <2>4, <1>4 DEF IInv, AddHead, cVars
<1>5. CASE AddBody
  <2>1. pTail = Start(dwHead, dwTail, p) /\ Adding
    BY <1>5 DEF AddBody, IInv, WriterInv, Adding
  <2>2. TypeOK'
    <3>1. cBuf' \in Ring
      BY <1>a, <1>5, CopyInType DEF AddBody, TypeOK, HeadLen
    <3>2. QED
      BY <1>a, <1>5, <3>1 DEF AddBody, cVars, history, TypeOK
  <2>3. WriterInv'
    BY <1>5, <2>1 DEF AddBody, WriterInv, Adding, IInv
  <2>4. ReaderInv'
    <3>1. \A c \in Unread(dwHead, dwTail) \cap Cells :
            c \notin (pTail + HeadLen) .. (pTail + HeadLen + Len(pBody) - 1)
      <4>1. pTail \in Nat /\ \A c \in pTail .. (pTail + p - 1) : c \notin Unread(dwHead, dwTail)
        BY <1>b, <2>1
      <4>2. Len(pBody) \in Nat /\ p = HeadLen + Len(pBody)
        BY <1>a DEF TypeOK, PkgLen
      <4> HIDE DEF p
      <4>3. (pTail + HeadLen) .. (pTail + HeadLen + Len(pBody) - 1) \subseteq pTail .. (pTail + p - 1)
        BY <4>1, <4>2 DEF HeadLen
      <4>4. QED
        BY <4>1, <4>3
    <3>2. \A c \in Unread(dwHead, dwTail) \cap Cells : cBuf'[c] = cBuf[c]
      BY <1>5, <3>1 DEF AddBody, CopyIn
    <3>3. QED
      BY <1>5, <3>2, ReaderUndisturbed DEF AddBody
  <2>5. QED
    BY <2>2, <2>3, <2>4, <1>5 DEF IInv, AddBody, cVars
<1>6. CASE AddPublish
  <2>1. pTail = Start(dwHead, dwTail, p) /\ ~Full(dwHead, dwTail, p)
    BY <1>6 DEF AddPublish, NextTail, IInv, WriterInv, Adding
  <2>2. dwTail' \in Cells
    BY <1>a, <1>6, <2>1, AcceptedFits DEF AddPublish, NextTail
  <2>3. TypeOK'
    BY <1>a, <1>6, <2>2 DEF AddPublish, NextTail, cVars, TypeOK, Cells
  <2>4. WriterInv'
    BY <1>6 DEF AddPublish, NextTail, WriterInv, Adding
  <2>5. ReaderInv'
    <3>1. Getting => Between(dwHead, rTail, dwTail')
      BY <1>a, <1>6, <2>1, StaysBetween DEF AddPublish, NextTail, IInv, ReaderInv
    <3>2. QED
      BY <1>6, <3>1 DEF AddPublish, NextTail, IInv, ReaderInv, Getting, cVars
  <2>6. QED
    BY <1>a, <2>2, <2>3, <2>4, <2>5, <1>6 DEF IInv, AddPublish, NextTail, cVars
<1>7. CASE AddCountLoad
  <2>1. TypeOK'
    BY <1>a, <1>7 DEF AddCountLoad, shared, cVars, history, TypeOK
  <2>2. WriterInv'
    BY <1>7 DEF AddCountLoad, WriterInv, Adding
  <2>3. ReaderInv'
    BY <1>7, ReaderUndisturbed DEF AddCountLoad, shared
  <2>4. QED
    BY <2>1, <2>2, <2>3, <1>7 DEF IInv, AddCountLoad, shared, cVars
<1>8. CASE AddCountStore
  <2>1. TypeOK'
    <3>1. dwTotalPkgs' \in 0 .. (COUNT_MOD - 1)
      BY <1>a, <1>8, ChannelAssumption DEF AddCountStore, TypeOK
    <3>2. 0 \in 0 .. (COUNT_MOD - 1) /\ countOff' \in BOOLEAN
      BY <1>a, <1>8, ChannelAssumption DEF AddCountStore, TypeOK
    <3>3. QED
      BY <1>a, <1>8, <3>1, <3>2 DEF AddCountStore, AddReturn, cVars, TypeOK
  <2>2. WriterInv'
    BY <1>8 DEF AddCountStore, AddReturn, WriterInv, Adding
  <2>3. ReaderInv'
    BY <1>8, ReaderUndisturbed DEF AddCountStore
  <2>4. QED
    BY <2>1, <2>2, <2>3, <1>8 DEF IInv, AddCountStore, AddReturn, cVars
<1>9. CASE AddOutOfRange \/ AddResetTail \/ AddResetHead
  BY <1>0, <1>9 DEF AddOutOfRange, AddResetTail, AddResetHead, IInv
<1>10. QED
  BY <1>1, <1>2, <1>3, <1>4, <1>5, <1>6, <1>7, <1>8, <1>9 DEF Writer

\* A head that moves towards the tail does not disturb the call of the writer.
LEMMA WriterUndisturbed ==
  ASSUME IInv, UNCHANGED <<dwTail, pVars>>,
         dwHead' \in Cells, Between(dwHead, dwHead', dwTail)
  PROVE  WriterInv'
<1> DEFINE p == PkgLen(Len(pBody))
<1>1. CASE ~Adding
  BY <1>1 DEF WriterInv, Adding, pVars
<1>2. CASE Adding
  <2>1. p \in Nat /\ dwHead \in Cells /\ dwTail \in Cells /\ ~Full(dwHead, dwTail, p)
    BY <1>2 DEF IInv, TypeOK, WriterInv, PkgLen, HeadLen
  <2>2. ~Full(dwHead', dwTail, p) /\ (Wraps(dwHead', dwTail, p) <=> Wraps(dwHead, dwTail, p))
    BY <2>1, StaysAccepted
  <2>3. dwTail' = dwTail /\ pPc' = pPc /\ pTail' = pTail /\ p' = p
    BY DEF pVars
  <2> HIDE DEF p
  <2>4. Start(dwHead', dwTail, p) = Start(dwHead, dwTail, p)
    BY <2>2 DEF Start
  <2>5. /\ pPc = "mark" => pTail = dwTail /\ Wraps(dwHead, dwTail, p)
        /\ pPc # "mark" => pTail = Start(dwHead, dwTail, p)
    BY <1>2 DEF IInv, WriterInv, p
  <2>6. /\ ~Full(dwHead', dwTail', p')
        /\ pPc' = "mark" => pTail' = dwTail' /\ Wraps(dwHead', dwTail', p')
        /\ pPc' # "mark" => pTail' = Start(dwHead', dwTail', p')
    BY <2>2, <2>3, <2>4, <2>5
  <2>7. QED
    BY <2>6 DEF WriterInv, p
<1>3. QED
  BY <1>1, <1>2

\* No step of Channel_GetPkg breaks the invariant, its writer part included.
LEMMA ReaderKeepsIInv ==
  ASSUME IInv, Reader
  PROVE  IInv'
<1>0. ~OutOfRange
  BY BufLenAssumption DEF OutOfRange, Cells, IInv
<1>a. TypeOK /\ dwHead \in Cells /\ dwTail \in Cells /\ dwHead \in Nat
  BY DEF IInv, TypeOK, Cells
<1>b. Between(dwHead, dwHead, dwTail) /\ 0 \in Cells /\ 0 \in 0 .. (COUNT_MOD - 1)
  BY <1>a, BufLenAssumption, ChannelAssumption DEF Between, Cells
<1>c. Getting =>
        /\ rHead = dwHead /\ rTail \in Cells /\ rHead # rTail
        /\ Between(dwHead, rTail, dwTail)
  BY DEF IInv, ReaderInv
<1>1. ASSUME NEW cap \in Caps, GetEmpty(cap) PROVE IInv'
  <2>1. TypeOK'
    BY <1>a, <1>b, <1>1, ChannelAssumption
    DEF GetEmpty, GetReturn, shared, pVars, history, TypeOK
  <2>2. WriterInv'
    BY <1>a, <1>b, <1>1, WriterUndisturbed DEF GetEmpty, shared
  <2>3. ReaderInv'
    BY <1>1 DEF GetEmpty, GetReturn, ReaderInv, Getting
  <2>4. QED
    BY <2>1, <2>2, <2>3, <1>1 DEF IInv, GetEmpty, GetReturn, shared, pVars
<1>2. ASSUME NEW cap \in Caps, GetBegin(cap) PROVE IInv'
  <2>1. TypeOK'
    BY <1>a, <1>2, ChannelAssumption DEF GetBegin, shared, pVars, history, TypeOK
  <2>2. WriterInv'
    BY <1>a, <1>b, <1>2, WriterUndisturbed DEF GetBegin, shared
  <2>3. ReaderInv'
    <3>1. Between(dwHead, dwTail, dwTail)
      BY <1>a DEF Between, Cells
    <3>2. QED
      BY <1>a, <1>2, <3>1 DEF GetBegin, shared, ReaderInv, Getting
  <2>4. QED
    BY <2>1, <2>2, <2>3, <1>2 DEF IInv, GetBegin, shared, pVars
<1>3. CASE GetBoundary
  <2>1. dwTail < rHead /\ rTail <= dwTail /\ rTail < rHead /\ rHead = dwHead /\ rTail \in Cells
    BY <1>a, <1>c, <1>3 DEF GetBoundary, AtBoundary, Getting, Between, Cells
  <2>2. dwHead' = 0 /\ dirty' \in BOOLEAN /\ countOff' \in BOOLEAN
    BY <1>a, <1>3 DEF GetBoundary, StoreHead, TypeOK
  <2>3. TypeOK'
    <3>1. CASE rTail = 0
      BY <1>a, <1>b, <1>3, <2>2, <3>1 DEF GetBoundary, GetReturn, pVars, TypeOK
    <3>2. CASE rTail # 0
      BY <1>a, <1>b, <1>3, <2>2, <3>2 DEF GetBoundary, pVars, TypeOK
    <3>3. QED
      BY <3>1, <3>2
  <2>4. WriterInv'
    <3>1. Between(dwHead, 0, dwTail)
      BY <1>a, <2>1 DEF Between, Cells
    <3>2. QED
      BY <1>b, <1>3, <2>2, <3>1, WriterUndisturbed DEF GetBoundary
  <2>5. ReaderInv'
    <3>1. Between(0, rTail, dwTail)
      BY <1>a, <2>1 DEF Between, Cells
    <3>2. QED
      BY <1>3, <2>1, <2>2, <3>1 DEF GetBoundary, GetReturn, ReaderInv, Getting
  <2>6. QED
    BY <1>a, <1>b, <2>2, <2>3, <2>4, <2>5, <1>3 DEF IInv, GetBoundary, GetReturn, pVars
<1>4. CASE GetNoBoundary
  <2>1. TypeOK'
    BY <1>a, <1>4 DEF GetNoBoundary, shared, pVars, history, TypeOK
  <2>2. WriterInv'
    BY <1>a, <1>b, <1>4, WriterUndisturbed DEF GetNoBoundary, shared
  <2>3. ReaderInv'
    BY <1>c, <1>4 DEF GetNoBoundary, shared, ReaderInv, Getting
  <2>4. QED
    BY <2>1, <2>2, <2>3, <1>4 DEF IInv, GetNoBoundary, shared, pVars
<1>5. ASSUME NEW ret \in {-2, -3, -4}, GetFatal(ret) PROVE IInv'
  <2>1. dwHead' = rTail /\ rTail \in Cells /\ Between(dwHead, rTail, dwTail) /\ dirty' \in BOOLEAN
    BY <1>a, <1>c, <1>5 DEF GetFatal, GivenUpTo, StoreHead, Getting, TypeOK
  <2>2. TypeOK'
    BY <1>a, <1>b, <1>5, <2>1 DEF GetFatal, GivenUpTo, GetReturn, pVars, TypeOK, Cells
  <2>3. WriterInv'
    BY <1>5, <2>1, WriterUndisturbed DEF GetFatal, GivenUpTo
  <2>4. ReaderInv'
    BY <1>5 DEF GetFatal, GivenUpTo, GetReturn, ReaderInv, Getting
  <2>5. QED
    BY <1>a, <2>1, <2>2, <2>3, <2>4, <1>5 DEF IInv, GetFatal, GivenUpTo, GetReturn, pVars
<1>6. CASE GetParse
  <2>1. /\ rHead = dwHead /\ rTail \in Cells /\ rHead # rTail
        /\ Between(dwHead, rTail, dwTail)
    BY <1>c, <1>6 DEF GetParse, Getting
  <2>2. rHead + 1 \in Cells /\ rHead + 2 \in Cells
    <3>1. BufLen(rHead, rTail) >= HeadLen
      BY <1>a, <1>6, <2>1, BufLenAssumption DEF GetParse, TooShort, HeadLen, BufLen, Cells
    <3>2. QED
      BY <1>a, <2>1, <3>1, BufLenAssumption DEF BufLen, HeadLen, Cells
  <2>3. wLength(cBuf, rHead) \in Nat
    BY <1>a, <2>1, <2>2, LengthType DEF TypeOK
  <2>4. /\ iPkgLen' = PkgLen(wLength(cBuf, rHead)) /\ iPkgLen' \in Nat
        /\ iPkgLen' >= HeadLen /\ iPkgLen' <= BufLen(rHead, rTail)
    <3>1. BufLen(rHead, rTail) >= PkgLen(wLength(cBuf, rHead))
      BY <1>a, <1>6, <2>1, <2>3, BufLenAssumption
      DEF GetParse, BadLen, PkgLen, HeadLen, BufLen, Cells
    <3>2. iPkgLen' = PkgLen(wLength(cBuf, rHead))
      BY <1>6 DEF GetParse
    <3>3. QED
      BY <2>3, <3>1, <3>2 DEF PkgLen, HeadLen
  <2>5. TypeOK'
    BY <1>a, <1>6, <2>4 DEF GetParse, shared, pVars, history, TypeOK
  <2>6. WriterInv'
    BY <1>a, <1>b, <1>6, WriterUndisturbed DEF GetParse, shared
  <2>7. ReaderInv'
    BY <1>6, <2>1, <2>4 DEF GetParse, shared, ReaderInv, Getting
  <2>8. QED
    BY <2>5, <2>6, <2>7, <1>6 DEF IInv, GetParse, shared, pVars
<1>7. CASE GetCopy
  <2>1. /\ rHead = dwHead /\ rTail \in Cells /\ rHead # rTail
        /\ Between(dwHead, rTail, dwTail) /\ iPkgLen \in Nat
        /\ iPkgLen >= HeadLen /\ iPkgLen <= BufLen(rHead, rTail)
        /\ iPkgLen = PkgLen(wLength(cBuf, rHead))
    BY <1>a, <1>c, <1>7 DEF GetCopy, Getting, IInv, ReaderInv, TypeOK
  <2>2. rHead .. (rHead + iPkgLen - 1) \subseteq Cells
    BY <1>a, <2>1, ReadableUnread
  <2>3. wLength(cBuf, rHead) \in Nat
    <3>1. rHead + 1 \in Cells /\ rHead + 2 \in Cells
      BY <1>a, <2>1, <2>2 DEF HeadLen, Cells
    <3>2. QED
      BY <1>a, <2>1, <3>1, LengthType DEF TypeOK
  <2>4. CopyOut(cBuf, rHead + HeadLen, wLength(cBuf, rHead)) \in Seq(Byte)
    <3>1. (rHead + HeadLen) .. (rHead + HeadLen + wLength(cBuf, rHead) - 1) \subseteq Cells
      BY <1>a, <2>1, <2>2, <2>3 DEF PkgLen, HeadLen, Cells
    <3>2. cBuf \in Ring /\ rHead + HeadLen \in Nat
      BY <1>a DEF TypeOK, HeadLen
    <3>3. QED
      BY <2>3, <3>1, <3>2, CopyOutType
  <2>5. TypeOK'
    BY <1>a, <1>7, <2>3, <2>4 DEF GetCopy, shared, pVars, history, TypeOK
  <2>6. WriterInv'
    BY <1>a, <1>b, <1>7, WriterUndisturbed DEF GetCopy, shared
  <2>7. ReaderInv'
    BY <1>7, <2>1 DEF GetCopy, shared, ReaderInv, Getting
  <2>8. QED
    BY <2>5, <2>6, <2>7, <1>7 DEF IInv, GetCopy, shared, pVars
<1>8. CASE GetAdvance
  <2>1. /\ rHead = dwHead /\ rTail \in Cells /\ rHead # rTail
        /\ Between(dwHead, rTail, dwTail) /\ iPkgLen \in Nat
        /\ iPkgLen <= BufLen(rHead, rTail)
    BY <1>a, <1>c, <1>8 DEF GetAdvance, NextHead, Getting, IInv, ReaderInv, TypeOK
  <2>2. dwHead' \in Cells /\ Between(dwHead, dwHead', dwTail)
    BY <1>a, <1>8, <2>1, ReadableUnread DEF GetAdvance, NextHead, StoreHead
  <2>3. dirty' \in BOOLEAN /\ countOff' \in BOOLEAN
    BY <1>a, <1>8 DEF GetAdvance, NextHead, StoreHead, TypeOK
  <2>4. TypeOK'
    BY <1>a, <1>8, <2>2, <2>3 DEF GetAdvance, NextHead, pVars, TypeOK, Cells
  <2>5. WriterInv'
    BY <1>8, <2>2, WriterUndisturbed DEF GetAdvance, NextHead
  <2>6. ReaderInv'
    BY <1>8 DEF GetAdvance, NextHead, ReaderInv, Getting
  <2>7. QED
    BY <1>a, <2>2, <2>4, <2>5, <2>6, <1>8 DEF IInv, GetAdvance, NextHead, pVars
<1>9. CASE GetCountLoad
  <2>1. TypeOK'
    BY <1>a, <1>9 DEF GetCountLoad, shared, pVars, history, TypeOK
  <2>2. WriterInv'
    BY <1>a, <1>b, <1>9, WriterUndisturbed DEF GetCountLoad, shared
  <2>3. ReaderInv'
    BY <1>9 DEF GetCountLoad, ReaderInv, Getting
  <2>4. QED
    BY <2>1, <2>2, <2>3, <1>9 DEF IInv, GetCountLoad, shared, pVars
<1>10. CASE GetCountStore
  <2>1. dwTotalPkgs' \in 0 .. (COUNT_MOD - 1) /\ countOff' \in BOOLEAN
    BY <1>a, <1>10, ChannelAssumption DEF GetCountStore, Decrement, TypeOK
  <2>2. TypeOK'
    BY <1>a, <1>b, <1>10, <2>1 DEF GetCountStore, Decrement, GetReturn, pVars, TypeOK
  <2>3. WriterInv'
    BY <1>a, <1>b, <1>10, WriterUndisturbed DEF GetCountStore, Decrement
  <2>4. ReaderInv'
    BY <1>10 DEF GetCountStore, Decrement, GetReturn, ReaderInv, Getting
  <2>5. QED
    BY <2>2, <2>3, <2>4, <1>10 DEF IInv, GetCountStore, Decrement, GetReturn, pVars
<1>11. CASE GetOutOfRange \/ GetResetTail \/ GetResetHead
  BY <1>0, <1>11 DEF GetOutOfRange, GetResetTail, GetResetHead, IInv
<1>12. QED
  BY <1>1, <1>2, <1>3, <1>4, <1>5, <1>6, <1>7, <1>8, <1>9, <1>10, <1>11
  DEF Reader, GetTooShort, GetBadFlag, GetBadLen

\* A process may die anywhere: its locals are gone, the segment is as it was.
LEMMA CrashKeepsIInv ==
  ASSUME IInv, CrashWriter \/ CrashReader
  PROVE  IInv'
<1>a. TypeOK /\ dwHead \in Cells /\ dwTail \in Cells /\ 0 \in 0 .. (COUNT_MOD - 1)
  BY ChannelAssumption DEF IInv
<1>1. CASE CrashWriter
  <2>1. countOff' \in BOOLEAN
    BY <1>a, <1>1 DEF CrashWriter, TypeOK
  <2>2. TypeOK'
    BY <1>a, <1>1, <2>1 DEF CrashWriter, AddReturn, shared, cVars, TypeOK
  <2>3. WriterInv'
    BY <1>1 DEF CrashWriter, AddReturn, WriterInv, Adding
  <2>4. ReaderInv'
    BY <1>1, ReaderUndisturbed DEF CrashWriter, shared
  <2>5. QED
    BY <2>2, <2>3, <2>4, <1>1 DEF IInv, CrashWriter, AddReturn, shared, cVars
<1>2. CASE CrashReader
  <2>1. countOff' \in BOOLEAN
    BY <1>a, <1>2 DEF CrashReader, TypeOK
  <2>2. TypeOK'
    BY <1>a, <1>2, <2>1 DEF CrashReader, GetReturn, shared, pVars, TypeOK
  <2>3. WriterInv'
    <3>1. Between(dwHead, dwHead, dwTail)
      BY <1>a DEF Between, Cells
    <3>2. QED
      BY <1>a, <1>2, <3>1, WriterUndisturbed DEF CrashReader, shared
  <2>4. ReaderInv'
    BY <1>2 DEF CrashReader, GetReturn, ReaderInv, Getting
  <2>5. QED
    BY <2>2, <2>3, <2>4, <1>2 DEF IInv, CrashReader, GetReturn, shared, pVars
<1>3. QED
  BY <1>1, <1>2

\* A step of neither process changes nothing.
LEMMA StutterKeepsIInv ==
  ASSUME IInv, UNCHANGED vars
  PROVE  IInv'
BY DEF IInv, vars, shared, pVars, cVars, history, TypeOK, WriterInv, ReaderInv, Adding, Getting

------------------------------------------------------------------------------
\* Every step keeps the invariant.
LEMMA NextKeepsIInv ==
  ASSUME IInv, [Next]_vars
  PROVE  IInv'
BY WriterKeepsIInv, ReaderKeepsIInv, CrashKeepsIInv, StutterKeepsIInv DEF Next

\* A package still accepted goes to cells that hold nothing unread.
LEMMA IInvWrites ==
  ASSUME IInv
  PROVE  WritesOutsideUnread
<1> DEFINE p == PkgLen(Len(pBody))
           s == Start(dwHead, dwTail, p)
<1>1. dwHead \in Cells /\ dwTail \in Cells /\ p \in Nat /\ p >= HeadLen
  BY DEF IInv, TypeOK, PkgLen, HeadLen
<1>2. CASE ~Adding
  BY <1>2 DEF WritesOutsideUnread, PendingWrite, Adding
<1>3. CASE Adding
  <2>1. /\ ~Full(dwHead, dwTail, p)
        /\ pPc = "mark" => pTail = dwTail /\ Wraps(dwHead, dwTail, p)
        /\ pPc # "mark" => pTail = s
    BY <1>3 DEF IInv, WriterInv
  <2>2. /\ s .. (s + p - 1) \subseteq Cells
        /\ (s .. (s + p - 1)) \cap Unread(dwHead, dwTail) = {}
    BY <1>1, <2>1, AcceptedFits
  <2>3. CASE pPc = "mark"
    <3>1. s = 0
      BY <2>1, <2>3 DEF Start
    <3>2. dwTail \notin Unread(dwHead, dwTail)
      BY <1>1, <2>1, <2>3 DEF Unread, Wraps, Cells
    <3>3. PendingWrite = {dwTail} \cup (0 .. (p - 1))
      BY <2>1, <2>3 DEF PendingWrite
    <3> HIDE DEF p, s
    <3>4. (0 .. (p - 1)) = s .. (s + p - 1)
      BY <1>1, <3>1
    <3>5. QED
      BY <1>1, <2>2, <3>2, <3>3, <3>4 DEF WritesOutsideUnread
  <2>4. CASE pPc = "head"
    <3>1. PendingWrite = s .. (s + p - 1)
      BY <2>1, <2>4 DEF PendingWrite
    <3>2. QED
      BY <2>2, <3>1 DEF WritesOutsideUnread
  <2>5. CASE pPc = "body"
    <3>1. PendingWrite = (s + HeadLen) .. (s + p - 1)
      BY <2>1, <2>5 DEF PendingWrite
    <3>2. s \in Int
      BY <1>1 DEF Start, Cells
    <3> HIDE DEF p, s
    <3>3. (s + HeadLen) .. (s + p - 1) \subseteq s .. (s + p - 1)
      BY <1>1, <3>2 DEF HeadLen
    <3>4. QED
      BY <2>2, <3>1, <3>3 DEF WritesOutsideUnread
  <2>6. CASE pPc = "publish"
    BY <2>6 DEF WritesOutsideUnread, PendingWrite
  <2>7. QED
    BY <1>3, <2>3, <2>4, <2>5, <2>6 DEF Adding
<1>4. QED
  BY <1>2, <1>3

\* What lies between the head and the tail the reader saw is unread.
LEMMA IInvReads ==
  ASSUME IInv
  PROVE  ReadsInsideUnread
<1>1. CASE ~Getting
  BY <1>1 DEF ReadsInsideUnread, PendingRead, Getting
<1>2. CASE Getting
  <2>1. /\ rHead \in Cells /\ rTail \in Cells /\ dwTail \in Cells /\ rHead # rTail
        /\ rHead = dwHead /\ Between(rHead, rTail, dwTail)
    BY <1>2 DEF IInv, ReaderInv
  <2>2. ASSUME NEW n \in Nat, n <= BufLen(rHead, rTail)
        PROVE  /\ rHead .. (rHead + n - 1) \subseteq Cells
               /\ rHead .. (rHead + n - 1) \subseteq Unread(dwHead, dwTail)
    BY <2>1, <2>2, ReadableUnread
  <2>3. BufLen(rHead, rTail) >= 1 /\ BufLen(rHead, rTail) \in Nat
    BY <2>1, BufLenAssumption DEF BufLen, Cells
  <2>4. CASE cPc = "boundary"
    <3>1. rHead \in Cells /\ rHead \in Unread(dwHead, dwTail)
      BY <2>1, BufLenAssumption DEF Cells, Unread, Between
    <3>2. QED
      BY <2>4, <3>1 DEF ReadsInsideUnread, PendingRead
  <2>5. CASE cPc = "parse"
    <3>1. CASE TooShort
      BY <2>5, <3>1 DEF ReadsInsideUnread, PendingRead
    <3>2. CASE ~TooShort
      <4>1. HeadLen \in Nat /\ HeadLen <= BufLen(rHead, rTail)
        BY <2>3, <3>2 DEF TooShort, HeadLen
      <4>2. PendingRead = rHead .. (rHead + HeadLen - 1)
        BY <2>5, <3>2 DEF PendingRead
      <4>3. QED
        BY <2>2, <4>1, <4>2 DEF ReadsInsideUnread
    <3>3. QED
      BY <3>1, <3>2
  <2>6. CASE cPc = "copy"
    <3>1. iPkgLen \in Nat /\ iPkgLen <= BufLen(rHead, rTail)
      BY <2>6 DEF IInv, TypeOK, ReaderInv
    <3>2. PendingRead = rHead .. (rHead + iPkgLen - 1)
      BY <2>6 DEF PendingRead
    <3>3. QED
      BY <2>2, <3>1, <3>2 DEF ReadsInsideUnread
  <2>7. CASE cPc = "advance"
    BY <2>7 DEF ReadsInsideUnread, PendingRead
  <2>8. QED
    BY <1>2, <2>4, <2>5, <2>6, <2>7 DEF Getting
<1>3. QED
  BY <1>1, <1>2

\* A refusal leaves less than two packages free, by the cases of Full.
LEMMA IInvRefusals ==
  ASSUME IInv
  PROVE  RefusesOnlyNearFull
<1>1. dwHead \in Cells /\ dwTail \in Cells
  BY DEF IInv
<1>2. ASSUME NEW p \in Nat, Full(dwHead, dwTail, p)
      PROVE  CHANNEL_BUF_LEN - Used(dwHead, dwTail) < 2 * p
  BY <1>1, <1>2, BufLenAssumption DEF Full, Used, Cells
<1>3. \A body \in Bodies : PkgLen(Len(body)) \in Nat
  BY ChannelAssumption DEF PkgLen, HeadLen
<1>4. QED
  BY <1>2, <1>3 DEF RefusesOnlyNearFull

------------------------------------------------------------------------------
\* Every reachable state of the channel satisfies the inductive invariant.
THEOREM Invariance ==
  ASSUME InRangeSegment
  PROVE  Spec => []IInv
<1>1. Init => IInv
  BY InitIInv
<1>2. IInv /\ [Next]_vars => IInv'
  BY NextKeepsIInv
<1>3. QED
  BY <1>1, <1>2, PTL DEF Spec

\* The segment and the locals of both calls keep their types.
THEOREM TypeCorrect ==
  ASSUME InRangeSegment
  PROVE  Spec => []TypeOK
<1>1. IInv => TypeOK
  BY DEF IInv
<1>2. QED
  BY <1>1, Invariance, PTL

\* On a segment that starts with indices inside the buffer, the reset of a
\* damaged segment in AddPkg and GetPkg is never taken, at any interleaving.
THEOREM NoReset ==
  ASSUME InRangeSegment
  PROVE  Spec => []IndicesInRange
<1>1. IInv => IndicesInRange
  BY BufLenAssumption DEF IInv, IndicesInRange, Cells
<1>2. QED
  BY <1>1, Invariance, PTL

\* AddPkg never writes a byte that is unread or outside of the buffer, though
\* the head it decided on may be stale when it writes.
THEOREM WritesSafe ==
  ASSUME InRangeSegment
  PROVE  Spec => []WritesOutsideUnread
BY IInvWrites, Invariance, PTL

\* GetPkg reads nothing but published bytes of the buffer; with WritesSafe, no
\* byte is read by one process while the other may write it.
THEOREM ReadsSafe ==
  ASSUME InRangeSegment
  PROVE  Spec => []ReadsInsideUnread
BY IInvReads, Invariance, PTL

\* AddPkg refuses a package only if two of its size do not fit in the free
\* bytes, for any length of the buffer and of the package.
THEOREM RefusalsJustified ==
  ASSUME InRangeSegment
  PROVE  Spec => []RefusesOnlyNearFull
BY IInvRefusals, Invariance, PTL

\* No step that moves the tail makes a ring that holds bytes look empty.
THEOREM NeverLooksEmpty ==
  ASSUME InRangeSegment
  PROVE  Spec => PublishKeepsNonEmpty
<1>1. ASSUME IInv, [Next]_vars, dwTail' # dwTail
      PROVE  dwTail' # dwHead'
  <2>1. ~OutOfRange
    BY <1>1, BufLenAssumption DEF IInv, OutOfRange, Cells
  <2>2. AddPublish
    <3>1. CASE Writer
      BY <1>1, <2>1, <3>1
      DEF Writer, IInv, shared, AddFull, AddBegin, AddMark, AddHead, AddBody,
          AddCountLoad, AddCountStore, AddOutOfRange, AddResetTail, AddResetHead
    <3>2. CASE Reader
      <4>1. cPc # "fatal"
        BY <1>1 DEF IInv
      <4>2. UNCHANGED dwTail
        BY <3>2, <4>1
        DEF Reader, shared, GetEmpty, GetBegin, GetBoundary, GetNoBoundary, GetTooShort,
            GetBadFlag, GetBadLen, GetFatal, GetParse, GetCopy, GetAdvance, GetCountLoad,
            GetCountStore, GetOutOfRange, GetResetTail, GetResetHead
      <4>3. QED
        BY <1>1, <4>2
    <3>3. CASE CrashWriter \/ CrashReader \/ UNCHANGED vars
      BY <1>1, <3>3 DEF CrashWriter, CrashReader, vars, shared
    <3>4. QED
      BY <1>1, <3>1, <3>2, <3>3 DEF Next
  <2> DEFINE p == PkgLen(Len(pBody))
  <2>3. dwHead \in Cells /\ dwTail \in Cells /\ p \in Nat /\ p >= HeadLen
    BY <1>1 DEF IInv, TypeOK, PkgLen, HeadLen
  <2>4. pTail = Start(dwHead, dwTail, p) /\ ~Full(dwHead, dwTail, p)
    BY <1>1, <2>2 DEF AddPublish, NextTail, IInv, WriterInv, Adding
  <2>5. dwTail' = (pTail + p) % CHANNEL_BUF_LEN /\ dwHead' = dwHead
    BY <2>2 DEF AddPublish, NextTail
  <2> HIDE DEF p
  <2>6. QED
    BY <2>3, <2>4, <2>5, AcceptedFits
<1>2. IInv /\ [Next]_vars => [dwTail' # dwTail => dwTail' # dwHead']_vars
  BY <1>1
<1>3. QED
  BY <1>2, Invariance, PTL DEF Spec, PublishKeepsNonEmpty

------------------------------------------------------------------------------
(***************************************************************************)
(* The recursion of BodiesIn: it is defined for any bytes, so that it may  *)
(* be unfolded one package at a time.                                      *)
(***************************************************************************)
\* The order of the natural numbers, as a relation.
Less == OpToRel(<, Nat)

\* It has no infinite descent.
LEMMA LessIsLess ==
  /\ IsWellFoundedOn(Less, Nat)
  /\ \A x, y \in Nat : y < x => <<y, x>> \in Less
<1>1. IsWellFoundedOn(Less, Nat)
  BY NatLessThanWellFounded DEF Less
<1>2. \A x, y \in Nat : y < x => <<y, x>> \in Less
  BY DEF OpToRel, Less
<1> QED BY <1>1, <1>2

\* A set of numbers has a least one.
LEMMA Least ==
  ASSUME NEW T, T \subseteq Nat, T # {}
  PROVE  \E x \in T : \A y \in T : x <= y
<1>1. PICK x \in T : \A y \in T : ~ (<<y, x>> \in Less)
  BY LessIsLess, WFMin
<1>2. ASSUME NEW y \in T PROVE x <= y
  <2>1. x \in Nat /\ y \in Nat
    OBVIOUS
  <2>2. ~(y < x)
    BY <1>1, <2>1, LessIsLess, Zenon
  <2> QED BY <2>1, <2>2
<1> QED BY <1>2

\* The body of the recursion of BodiesIn.
ParseStep(buf, tail, f, n) ==
  LET i == (tail - n) % CHANNEL_BUF_LEN
      p == PkgLen(wLength(buf, i))
  IN  IF n < HeadLen \/ CHANNEL_BUF_LEN - i < HeadLen THEN <<>>
      ELSE IF p > n \/ p > CHANNEL_BUF_LEN - i THEN <<>>
      ELSE <<CopyOut(buf, i + HeadLen, p - HeadLen)>> \o f[n - p]

Parse(buf, tail, len) ==
  CHOOSE f : f = [n \in 0 .. len |-> ParseStep(buf, tail, f, n)]

\* BodiesIn is the last value of that recursion.
LEMMA BodiesInIsParse ==
  ASSUME NEW buf, NEW tail, NEW len
  PROVE  BodiesIn(buf, tail, len) = Parse(buf, tail, len)[len]
BY DEF BodiesIn, Parse, ParseStep

\* Quotient and remainder, for any whole number ...
LEMMA DivMod ==
  ASSUME NEW a \in Int, NEW P \in Nat \ {0}
  PROVE  /\ a \div P \in Int /\ a % P \in 0 .. P - 1
         /\ a = P * (a \div P) + (a % P)
OBVIOUS

\* ... are the only ones.
LEMMA Unique ==
  ASSUME NEW a \in Int, NEW P \in Nat \ {0}, NEW q \in Int, NEW r \in 0 .. P - 1,
         a = P * q + r
  PROVE  a % P = r
OBVIOUS

\* The cell n bytes before the tail.
Back(tail, n) == (tail - n) % CHANNEL_BUF_LEN

\* The modulo of an index less a number of bytes, by cases.
LEMMA BackIs ==
  ASSUME NEW tail \in Cells, NEW n \in Cells
  PROVE  /\ Back(tail, n) = IF n <= tail THEN tail - n ELSE CHANNEL_BUF_LEN + tail - n
         /\ Back(tail, n) \in Cells
<1> DEFINE L == CHANNEL_BUF_LEN
<1>0. L \in Nat \ {0} /\ tail - n \in Int
  BY BufLenAssumption DEF Cells
<1>1. CASE n <= tail
  <2>1. tail - n = L * 0 + (tail - n) /\ tail - n \in 0 .. L - 1
    BY <1>0, <1>1 DEF Cells
  <2>2. (tail - n) % L = tail - n
    BY <2>1, <1>0, Unique
  <2> QED BY <2>1, <2>2, <1>1 DEF Back, Cells
<1>2. CASE ~(n <= tail)
  <2>1. tail - n = L * (-1) + (L + tail - n) /\ L + tail - n \in 0 .. L - 1
    BY <1>0, <1>2 DEF Cells
  <2>2. (tail - n) % L = L + tail - n
    BY <2>1, <1>0, Unique
  <2> QED BY <2>1, <2>2, <1>2 DEF Back, Cells
<1> QED BY <1>1, <1>2

\* Going back over the used bytes leads from the tail to the head.
LEMMA BackUsed ==
  ASSUME NEW head \in Cells, NEW tail \in Cells
  PROVE  /\ Used(head, tail) \in Cells
         /\ Back(tail, Used(head, tail)) = head
         /\ \A n \in Cells : Back(tail, n) \in Cells /\ Used(Back(tail, n), tail) = n
<1>1. Used(head, tail) \in Cells
  BY BufLenAssumption DEF Used, Cells
<1>2. Back(tail, Used(head, tail)) = head
  <2>1. Back(tail, Used(head, tail))
          = IF Used(head, tail) <= tail THEN tail - Used(head, tail)
                                        ELSE CHANNEL_BUF_LEN + tail - Used(head, tail)
    BY <1>1, BackIs
  <2> QED BY <2>1, BufLenAssumption DEF Used, Cells
<1>3. ASSUME NEW n \in Cells PROVE Back(tail, n) \in Cells /\ Used(Back(tail, n), tail) = n
  <2>1. PICK b \in Cells : /\ b = Back(tail, n)
                           /\ b = IF n <= tail THEN tail - n ELSE CHANNEL_BUF_LEN + tail - n
    BY BackIs
  <2>2. Used(b, tail) = n
    BY <2>1, BufLenAssumption DEF Used, Cells
  <2> QED BY <2>1, <2>2
<1> QED BY <1>1, <1>2, <1>3

\* A package that starts at most used bytes before the tail and ends before it
\* is unread.
LEMMA BackUnread ==
  ASSUME NEW head \in Cells, NEW tail \in Cells, NEW n \in Cells, n <= Used(head, tail),
         NEW p \in Nat, p <= n, Back(tail, n) + p <= CHANNEL_BUF_LEN
  PROVE  Back(tail, n) .. (Back(tail, n) + p - 1) \subseteq Unread(head, tail) \cap Cells
<1>1. PICK b \in Cells : /\ b = Back(tail, n)
                         /\ b = IF n <= tail THEN tail - n ELSE CHANNEL_BUF_LEN + tail - n
  BY BackIs
<1>2. b + p <= CHANNEL_BUF_LEN
  BY <1>1
<1>3. b .. (b + p - 1) \subseteq Unread(head, tail) \cap Cells
  BY <1>1, <1>2, BufLenAssumption DEF Used, Cells, Unread
<1> QED BY <1>1, <1>3

\* The cells before a tail that moves over a package of p bytes.
LEMMA BackAppend ==
  ASSUME NEW tail \in Cells, NEW p \in Nat, NEW n \in Nat,
         tail + p <= CHANNEL_BUF_LEN, n + p < CHANNEL_BUF_LEN
  PROVE  Back((tail + p) % CHANNEL_BUF_LEN, n + p) = Back(tail, n)
<1>1. n \in Cells /\ n + p \in Cells /\ tail + p \in 0 .. CHANNEL_BUF_LEN
  BY BufLenAssumption DEF Cells
<1>2. PICK new \in Cells : /\ new = (tail + p) % CHANNEL_BUF_LEN
                           /\ new = IF tail + p = CHANNEL_BUF_LEN THEN 0 ELSE tail + p
  BY <1>1, ModuloLen, BufLenAssumption DEF Cells
<1>3. /\ Back(tail, n) = IF n <= tail THEN tail - n ELSE CHANNEL_BUF_LEN + tail - n
      /\ Back(new, n + p) = IF n + p <= new THEN new - (n + p) ELSE CHANNEL_BUF_LEN + new - (n + p)
  BY <1>1, BackIs
<1>4. Back(new, n + p) = Back(tail, n)
  BY <1>1, <1>2, <1>3, BufLenAssumption DEF Cells
<1> QED BY <1>2, <1>4

------------------------------------------------------------------------------
\* A step of the recursion reads only what is shorter.
LEMMA StepLocal ==
  ASSUME NEW buf \in Ring, NEW tail \in Cells, NEW n \in Nat, NEW f, NEW g,
         \A m \in Nat : m < n => f[m] = g[m]
  PROVE  ParseStep(buf, tail, f, n) = ParseStep(buf, tail, g, n)
<1> DEFINE i == (tail - n) % CHANNEL_BUF_LEN
           w == wLength(buf, i)
<1>1. i \in Cells
  <2>1. tail - n \in Int /\ CHANNEL_BUF_LEN \in Nat \ {0}
    BY BufLenAssumption DEF Cells
  <2>2. (tail - n) % CHANNEL_BUF_LEN \in 0 .. CHANNEL_BUF_LEN - 1
    BY <2>1, DivMod
  <2> QED BY <2>2 DEF Cells
<1> HIDE DEF i
<1>2. CASE n < HeadLen \/ CHANNEL_BUF_LEN - i < HeadLen
  BY <1>2 DEF ParseStep, i
<1>3. CASE ~(n < HeadLen \/ CHANNEL_BUF_LEN - i < HeadLen)
  <2>1. w \in Nat
    <3>1. i + 1 \in Cells /\ i + 2 \in Cells
      BY <1>1, <1>3, BufLenAssumption DEF Cells, HeadLen
    <3>2. buf[i + 1] \in Byte /\ buf[i + 2] \in Byte
      BY <3>1 DEF Ring
    <3>3. ASSUME NEW a \in Byte, NEW b \in Byte PROVE a + 256 * b \in Nat
      BY DEF Byte
    <3> QED BY <3>2, <3>3 DEF wLength
  <2> HIDE DEF w
  <2>2. CASE PkgLen(w) > n
    BY <2>2, <1>3 DEF ParseStep, i, w
  <2>3. CASE ~(PkgLen(w) > n)
    <3>1. n - PkgLen(w) \in Nat /\ n - PkgLen(w) < n
      BY <2>1, <2>3 DEF PkgLen, HeadLen
    <3>2. f[n - PkgLen(w)] = g[n - PkgLen(w)]
      BY <3>1
    <3> QED BY <3>2 DEF ParseStep, i, w
  <2> QED BY <2>2, <2>3
<1> QED BY <1>2, <1>3

IsParse(buf, tail, len, f) == f = [n \in 0 .. len |-> ParseStep(buf, tail, f, n)]

\* The recursion of BodiesIn has a solution, whatever the bytes are.
LEMMA ParseExists ==
  ASSUME NEW buf \in Ring, NEW tail \in Cells, NEW len \in Nat
  PROVE  \E f : IsParse(buf, tail, len, f)
<1> DEFINE T == {m \in Nat : ~ \E f : IsParse(buf, tail, m, f)}
<1>1. SUFFICES T = {}
  OBVIOUS
<1>2. SUFFICES ASSUME T # {} PROVE FALSE
  OBVIOUS
<1>3. PICK m \in T : \A x \in T : m <= x
  BY <1>2, Least
<1>4. m \in Nat /\ ~ \E f : IsParse(buf, tail, m, f)
  BY <1>3
<1>5. CASE m = 0
  <2> DEFINE f == [n \in 0 .. 0 |-> <<>>]
  <2>1. \A n \in 0 .. 0 : ParseStep(buf, tail, f, n) = <<>>
    BY DEF ParseStep, HeadLen
  <2>2. IsParse(buf, tail, 0, f)
    BY <2>1 DEF IsParse
  <2> QED BY <1>4, <1>5, <2>2
<1>6. CASE m # 0
  <2>1. m - 1 \in Nat /\ m - 1 \notin T
    BY <1>3, <1>4, <1>6
  <2>2. PICK f : IsParse(buf, tail, m - 1, f)
    BY <2>1
  <2> DEFINE g == [n \in 0 .. m |-> IF n = m THEN ParseStep(buf, tail, f, m) ELSE f[n]]
  <2>3. ASSUME NEW n \in 0 .. m PROVE g[n] = ParseStep(buf, tail, g, n)
    <3>1. n \in Nat /\ \A k \in Nat : k < n => f[k] = g[k]
      BY <1>4
    <3>2. ParseStep(buf, tail, f, n) = ParseStep(buf, tail, g, n)
      <4> HIDE DEF g
      <4> QED BY <3>1, StepLocal
    <3>3. CASE n = m
      BY <3>2, <3>3
    <3>4. CASE n # m
      <4>1. n \in 0 .. (m - 1)
        BY <1>4, <3>4
      <4>2. f[n] = ParseStep(buf, tail, f, n)
        BY <2>2, <4>1 DEF IsParse
      <4>3. g[n] = f[n]
        BY <3>4
      <4> QED BY <4>2, <4>3, <3>2
    <3> QED BY <3>3, <3>4
  <2>4. g = [n \in 0 .. m |-> g[n]]
    OBVIOUS
  <2> HIDE DEF g
  <2>5. g = [n \in 0 .. m |-> ParseStep(buf, tail, g, n)]
    BY <2>3, <2>4
  <2>6. IsParse(buf, tail, m, g)
    BY <2>5 DEF IsParse
  <2> QED BY <1>4, <2>6
<1> QED BY <1>5, <1>6

\* So that the recursion may be unfolded, whatever the bytes are.
LEMMA ParseUnfold ==
  ASSUME NEW buf \in Ring, NEW tail \in Cells, NEW len \in Nat, NEW n \in 0 .. len
  PROVE  Parse(buf, tail, len)[n] = ParseStep(buf, tail, Parse(buf, tail, len), n)
<1> DEFINE f == Parse(buf, tail, len)
<1>1. f = CHOOSE g : IsParse(buf, tail, len, g)
  BY DEF Parse, IsParse
<1>2. \E g : IsParse(buf, tail, len, g)
  BY ParseExists
<1>3. IsParse(buf, tail, len, f)
  BY <1>1, <1>2
<1> HIDE DEF f
<1>4. f[n] = ParseStep(buf, tail, f, n)
  BY <1>3 DEF IsParse
<1> QED BY <1>4 DEF f

------------------------------------------------------------------------------
(***************************************************************************)
(* The packages in the ring.  Packages says that the used bytes are whole  *)
(* packages; the lemmas say that this is what BodiesIn reads, and what is  *)
(* left of it when bytes elsewhere are written, a package is added at the  *)
(* tail, or the head moves over some.                                      *)
(***************************************************************************)
\* The package with this body lies at cell i, in one piece.
PackageAt(buf, i, body) ==
  /\ i + PkgLen(Len(body)) <= CHANNEL_BUF_LEN
  /\ cFlag(buf, i) = START_TAG
  /\ wLength(buf, i) = Len(body)
  /\ CopyOut(buf, i + HeadLen, Len(body)) = body

\* The used bytes before the tail are the packages with the bodies of q, one
\* after the other: e[k] is the number of bytes after the first k of them.
Packages(buf, tail, used, q, e) ==
  /\ q \in Seq(Bodies)
  /\ e \in [0 .. Len(q) -> 0 .. used]
  /\ e[0] = used /\ e[Len(q)] = 0
  /\ \A k \in 1 .. Len(q) :
       /\ e[k - 1] = e[k] + PkgLen(Len(q[k]))
       /\ PackageAt(buf, Back(tail, e[k - 1]), q[k])
  /\ \A j \in 0 .. Len(q) : \A k \in 0 .. j : e[j] <= e[k]

\* The length of a package that AddPkg may be asked to send.
LEMMA BodyLen ==
  ASSUME NEW body \in Bodies
  PROVE  /\ body \in Seq(Byte) /\ Len(body) \in Nat
         /\ PkgLen(Len(body)) \in Nat /\ PkgLen(Len(body)) >= HeadLen
         /\ PkgLen(Len(body)) - HeadLen = Len(body)
BY ChannelAssumption DEF PkgLen, HeadLen

\* One step of the recursion over a package.
LEMMA StepPackage ==
  ASSUME NEW buf \in Ring, NEW tail \in Cells, NEW n \in Cells, NEW body \in Bodies, NEW f,
         PackageAt(buf, Back(tail, n), body), PkgLen(Len(body)) <= n
  PROVE  ParseStep(buf, tail, f, n) = <<body>> \o f[n - PkgLen(Len(body))]
<1> DEFINE i == Back(tail, n)
           p == PkgLen(Len(body))
<1>1. i \in Cells /\ p \in Nat /\ p >= HeadLen /\ n \in Nat /\ p - HeadLen = Len(body)
  BY BodyLen, BackIs DEF Cells
<1>2. p = PkgLen(wLength(buf, i)) /\ CopyOut(buf, i + HeadLen, Len(body)) = body
      /\ i + p <= CHANNEL_BUF_LEN
  BY DEF PackageAt
<1>3. i = (tail - n) % CHANNEL_BUF_LEN
  BY DEF Back
<1> HIDE DEF i, p
<1>4. ~ (n < HeadLen \/ CHANNEL_BUF_LEN - i < HeadLen)
  BY <1>1, <1>2, BufLenAssumption DEF Cells, HeadLen, p
<1>5. ~ (p > n \/ p > CHANNEL_BUF_LEN - i)
  BY <1>1, <1>2, BufLenAssumption DEF Cells, p
<1>6. ParseStep(buf, tail, f, n) = <<CopyOut(buf, i + HeadLen, p - HeadLen)>> \o f[n - p]
  BY <1>2, <1>3, <1>4, <1>5 DEF ParseStep
<1> QED BY <1>1, <1>2, <1>6 DEF p

\* One package among the others.
LEMMA OnePackage ==
  ASSUME NEW buf, NEW tail \in Cells, NEW used \in Cells, NEW q, NEW e,
         Packages(buf, tail, used, q, e), NEW k \in 1 .. Len(q)
  PROVE  /\ q[k] \in Bodies /\ PkgLen(Len(q[k])) \in Nat /\ PkgLen(Len(q[k])) >= HeadLen
         /\ e[k - 1] \in Cells /\ e[k] \in Cells /\ e[k - 1] <= used /\ e[k] <= used
         /\ e[k - 1] = e[k] + PkgLen(Len(q[k]))
         /\ PackageAt(buf, Back(tail, e[k - 1]), q[k])
<1>1. q \in Seq(Bodies) /\ Len(q) \in Nat /\ e \in [0 .. Len(q) -> 0 .. used] /\ used \in Nat
  BY DEF Packages, Cells
<1>2. q[k] \in Bodies
  BY <1>1
<1>3. k - 1 \in 0 .. Len(q) /\ k \in 0 .. Len(q)
  BY <1>1
<1>4. e[k - 1] \in 0 .. used /\ e[k] \in 0 .. used
  BY <1>1, <1>3
<1>5. 0 .. used \subseteq Cells
  BY BufLenAssumption DEF Cells
<1>6. e[k - 1] = e[k] + PkgLen(Len(q[k])) /\ PackageAt(buf, Back(tail, e[k - 1]), q[k])
  BY DEF Packages
<1>7. PkgLen(Len(q[k])) \in Nat /\ PkgLen(Len(q[k])) >= HeadLen
  BY <1>2, BodyLen
<1>8. e[k - 1] <= used /\ e[k] <= used
  BY <1>1, <1>4
<1> QED BY <1>2, <1>4, <1>5, <1>6, <1>7, <1>8

\* What the recursion reads is the sequence of the bodies.
LEMMA PackagesAreRead ==
  ASSUME NEW buf \in Ring, NEW tail \in Cells, NEW used \in Cells, NEW q, NEW e,
         Packages(buf, tail, used, q, e)
  PROVE  BodiesIn(buf, tail, used) = q
<1> DEFINE f == Parse(buf, tail, used)
           N == Len(q)
           T == {j \in 0 .. N : f[e[N - j]] # SubSeq(q, N - j + 1, N)}
<1>0. /\ q \in Seq(Bodies) /\ N = Len(q) /\ N \in Nat /\ used \in Nat
      /\ e \in [0 .. N -> 0 .. used]
  BY DEF Packages, Cells
<1> HIDE DEF N
<1>1. \A n \in 0 .. used : f[n] = ParseStep(buf, tail, f, n)
  BY <1>0, ParseUnfold
<1> HIDE DEF f
<1>2. f[0] = <<>>
  <2>1. 0 \in 0 .. used
    BY <1>0
  <2>2. ParseStep(buf, tail, f, 0) = <<>>
    BY DEF ParseStep, HeadLen
  <2> QED BY <1>1, <2>1, <2>2
<1>3. T = {}
  <2>1. SUFFICES ASSUME T # {} PROVE FALSE
    OBVIOUS
  <2>2. T \subseteq Nat
    BY <1>0
  <2>3. PICK j \in T : \A x \in T : j <= x
    BY <2>1, <2>2, Least
  <2>4. j \in 0 .. N /\ f[e[N - j]] # SubSeq(q, N - j + 1, N)
    BY <2>3
  <2>5. CASE j = 0
    <3>1. e[N - j] = 0
      BY <2>5, <1>0 DEF Packages
    <3>2. SubSeq(q, N - j + 1, N) = <<>>
      BY <2>5, <1>0
    <3> QED BY <3>1, <3>2, <2>4, <1>2
  <2>6. CASE j # 0
    <3> DEFINE k == N - j + 1
    <3>1. k \in 1 .. N /\ k - 1 = N - j /\ j - 1 \in 0 .. N /\ N - (j - 1) = k
      BY <2>4, <2>6, <1>0
    <3>2. f[e[N - (j - 1)]] = SubSeq(q, N - (j - 1) + 1, N)
      <4>1. j - 1 \in 0 .. N /\ ~(j <= j - 1)
        BY <3>1, <2>4
      <4>2. j - 1 \notin T
        <5> HIDE DEF T
        <5> QED BY <4>1, <2>3
      <4> QED BY <4>1, <4>2
    <3>3. f[e[k]] = SubSeq(q, k + 1, N)
      BY <3>1, <3>2
    <3>0. k = N - j + 1
      OBVIOUS
    <3> HIDE DEF k
    <3>4. /\ q[k] \in Bodies /\ PkgLen(Len(q[k])) \in Nat
          /\ e[k - 1] \in Cells /\ e[k] \in Cells /\ e[k - 1] <= used
          /\ e[k - 1] = e[k] + PkgLen(Len(q[k]))
          /\ PackageAt(buf, Back(tail, e[k - 1]), q[k])
      <4>1. k \in 1 .. Len(q)
        BY <3>1, <1>0
      <4>2. e[k - 1] = e[k] + PkgLen(Len(q[k]))
        BY <4>1 DEF Packages
      <4> QED BY <4>1, <4>2, OnePackage
    <3>7. ParseStep(buf, tail, f, e[k - 1]) = <<q[k]>> \o f[e[k]]
      <4>1. PICK n \in Cells, body \in Bodies, m \in Cells :
              n = e[k - 1] /\ body = q[k] /\ m = e[k]
        BY <3>4
      <4>2. PkgLen(Len(body)) \in Nat /\ n = m + PkgLen(Len(body))
        BY <3>4, <4>1
      <4>5. PackageAt(buf, Back(tail, n), body)
        BY <3>4, <4>1
      <4>3. PkgLen(Len(body)) <= n /\ n - PkgLen(Len(body)) = m
        BY <4>1, <4>2, SMTT(30) DEF Cells
      <4>4. ParseStep(buf, tail, f, n) = <<body>> \o f[n - PkgLen(Len(body))]
        BY <4>3, <4>5, StepPackage, SMTT(30)
      <4> QED BY <4>1, <4>3, <4>4
    <3>8. f[e[k - 1]] = <<q[k]>> \o SubSeq(q, k + 1, N)
      <4>1. e[k - 1] \in 0 .. used
        BY <3>4 DEF Cells
      <4> QED BY <4>1, <3>3, <3>7, <1>1
    <3>9. <<q[k]>> \o SubSeq(q, k + 1, N) = SubSeq(q, k, N)
      <4>1. k \in 1 .. Len(q) /\ N \in k .. Len(q)
        BY <3>1, <1>0
      <4> QED BY <4>1, <1>0, SubSeqRecursiveFirst
    <3> QED BY <3>0, <3>1, <3>8, <3>9, <2>4
  <2> QED BY <2>5, <2>6
<1>4. f[e[0]] = SubSeq(q, 1, N)
  <2>1. N \in 0 .. N /\ N \notin T
    BY <1>0, <1>3
  <2> QED BY <2>1, <1>0
<1>5. e[0] = used
  BY DEF Packages
<1>6. SubSeq(q, 1, N) = q
  BY <1>0
<1>7. BodiesIn(buf, tail, used) = f[used]
  BY BodiesInIsParse DEF f
<1> QED BY <1>4, <1>5, <1>6, <1>7

\* A package is its bytes.
LEMMA SamePackage ==
  ASSUME NEW buf, NEW new, NEW i \in Cells, NEW body \in Bodies,
         PackageAt(buf, i, body),
         \A c \in i .. (i + PkgLen(Len(body)) - 1) : new[c] = buf[c]
  PROVE  PackageAt(new, i, body)
<1> DEFINE n == Len(body)
<1>0. n \in Nat /\ i \in Nat
  BY BodyLen DEF Cells
<1> HIDE DEF n
<1>1. ASSUME NEW c \in Nat, i <= c, c < i + HeadLen + n PROVE new[c] = buf[c]
  <2>1. c \in i .. (i + PkgLen(Len(body)) - 1)
    BY <1>0, <1>1 DEF PkgLen, HeadLen, n
  <2> QED BY <2>1
<1>2. new[i] = buf[i] /\ new[i + 1] = buf[i + 1] /\ new[i + 2] = buf[i + 2]
  BY <1>0, <1>1 DEF HeadLen
<1>3. \A k \in 1 .. n : new[i + HeadLen + k - 1] = buf[i + HeadLen + k - 1]
  BY <1>0, <1>1 DEF HeadLen
<1>4. CopyOut(new, i + HeadLen, n) = CopyOut(buf, i + HeadLen, n)
  BY <1>3 DEF CopyOut
<1>5. cFlag(new, i) = cFlag(buf, i) /\ wLength(new, i) = wLength(buf, i)
  BY <1>2 DEF cFlag, wLength
<1> QED BY <1>4, <1>5 DEF PackageAt, n

\* What is written outside of the unread bytes is not noticed in the packages.
LEMMA PackagesKept ==
  ASSUME NEW buf, NEW new, NEW head \in Cells, NEW tail \in Cells, NEW q, NEW e,
         Packages(buf, tail, Used(head, tail), q, e),
         \A c \in Unread(head, tail) \cap Cells : new[c] = buf[c]
  PROVE  Packages(new, tail, Used(head, tail), q, e)
<1>1. PICK used \in Cells : used = Used(head, tail)
  BY BackUsed
<1>2. Packages(buf, tail, used, q, e)
  BY <1>1
<1>3. ASSUME NEW k \in 1 .. Len(q) PROVE PackageAt(new, Back(tail, e[k - 1]), q[k])
  <2>1. /\ q[k] \in Bodies /\ PkgLen(Len(q[k])) \in Nat
        /\ e[k - 1] \in Cells /\ e[k] \in Cells /\ e[k - 1] <= used
        /\ PackageAt(buf, Back(tail, e[k - 1]), q[k])
    BY <1>2, OnePackage
  <2>2. e[k - 1] = e[k] + PkgLen(Len(q[k]))
    BY <1>2 DEF Packages
  <2>3. PICK n \in Cells, body \in Bodies, p \in Nat :
          n = e[k - 1] /\ body = q[k] /\ p = PkgLen(Len(q[k]))
    BY <2>1
  <2>4. p <= n /\ n <= Used(head, tail) /\ PackageAt(buf, Back(tail, n), body)
        /\ p = PkgLen(Len(body))
    BY <1>1, <2>1, <2>2, <2>3, SMTT(30) DEF Cells
  <2>5. PICK i \in Cells : i = Back(tail, n)
    BY BackIs
  <2>6. i + p <= CHANNEL_BUF_LEN
    BY <2>4, <2>5 DEF PackageAt
  <2>7. i .. (i + p - 1) \subseteq Unread(head, tail) \cap Cells
    BY <2>4, <2>5, <2>6, BackUnread
  <2>8. \A c \in i .. (i + PkgLen(Len(body)) - 1) : new[c] = buf[c]
    BY <2>4, <2>7
  <2>9. PackageAt(new, i, body)
    BY <2>4, <2>5, <2>8, SamePackage
  <2> QED BY <2>3, <2>5, <2>9
<1> QED BY <1>1, <1>2, <1>3 DEF Packages

\* The packages after the first j.
LEMMA PackagesDropped ==
  ASSUME NEW buf, NEW tail \in Cells, NEW used \in Cells, NEW q, NEW e,
         Packages(buf, tail, used, q, e), NEW j \in 0 .. Len(q)
  PROVE  Packages(buf, tail, e[j], SubSeq(q, j + 1, Len(q)),
                  [k \in 0 .. (Len(q) - j) |-> e[k + j]])
<1> DEFINE r == SubSeq(q, j + 1, Len(q))
           d == [k \in 0 .. (Len(q) - j) |-> e[k + j]]
<1>1. /\ q \in Seq(Bodies) /\ Len(q) \in Nat /\ used \in Nat /\ j \in Nat
      /\ e \in [0 .. Len(q) -> 0 .. used] /\ e[Len(q)] = 0
  BY DEF Packages, Cells
<1>0. \A m \in 0 .. Len(q) : \A k \in 0 .. m : e[m] <= e[k]
  BY DEF Packages
<1>2. r \in Seq(Bodies) /\ Len(r) = Len(q) - j
      /\ \A k \in 1 .. (Len(q) - j) : r[k] = q[k + j]
  BY <1>1
<1>3. \A k \in 0 .. Len(q) : e[k] \in Nat
  BY <1>1, SMTT(30)
<1> HIDE DEF r
<1>4. d \in [0 .. Len(r) -> 0 .. e[j]]
  <2>1. ASSUME NEW k \in 0 .. (Len(q) - j) PROVE e[k + j] \in 0 .. e[j]
    <3>1. k + j \in 0 .. Len(q) /\ j \in 0 .. (k + j)
      BY <1>1
    <3>2. e[k + j] <= e[j] /\ e[k + j] \in Nat /\ e[j] \in Nat
      BY <1>0, <1>3, <3>1
    <3> QED BY <3>2
  <2> QED BY <2>1, <1>2
<1>5. d[0] = e[j] /\ d[Len(r)] = 0
  <2>1. 0 \in 0 .. (Len(q) - j) /\ Len(q) - j \in 0 .. (Len(q) - j)
        /\ 0 + j = j /\ (Len(q) - j) + j = Len(q)
    BY <1>1
  <2> QED BY <2>1, <1>1, <1>2
<1>6. ASSUME NEW k \in 1 .. Len(r)
      PROVE  /\ d[k - 1] = d[k] + PkgLen(Len(r[k]))
             /\ PackageAt(buf, Back(tail, d[k - 1]), r[k])
  <2>0. j \in Nat /\ Len(q) \in Nat /\ j <= Len(q) /\ Len(r) = Len(q) - j
    BY <1>1, <1>2
  <2>1. k + j \in 1 .. Len(q) /\ (k + j) - 1 = (k - 1) + j
        /\ k \in 0 .. (Len(q) - j) /\ k - 1 \in 0 .. (Len(q) - j)
    BY <2>0
  <2>2. d[k] = e[k + j] /\ d[k - 1] = e[(k + j) - 1] /\ r[k] = q[k + j]
    BY <1>2, <2>1
  <2>3. /\ e[(k + j) - 1] = e[k + j] + PkgLen(Len(q[k + j]))
        /\ PackageAt(buf, Back(tail, e[(k + j) - 1]), q[k + j])
    BY <2>1 DEF Packages
  <2> HIDE DEF d
  <2> QED BY <2>2, <2>3
<1>7. ASSUME NEW m \in 0 .. Len(r), NEW k \in 0 .. m PROVE d[m] <= d[k]
  <2>1. m + j \in 0 .. Len(q) /\ k + j \in 0 .. (m + j)
        /\ m \in 0 .. (Len(q) - j) /\ k \in 0 .. (Len(q) - j)
    BY <1>1, <1>2
  <2>2. e[m + j] <= e[k + j]
    BY <1>0, <2>1
  <2> QED BY <2>1, <2>2
<1> HIDE DEF d
<1>8. Packages(buf, tail, e[j], r, d)
  BY <1>2, <1>4, <1>5, <1>6, <1>7 DEF Packages
<1> QED BY <1>8 DEF r, d

\* One package more, written at the tail in one piece.
LEMMA PackagesAppended ==
  ASSUME NEW buf, NEW tail \in Cells, NEW used \in Cells, NEW q, NEW e,
         Packages(buf, tail, used, q, e),
         NEW body \in Bodies, PackageAt(buf, tail, body),
         NEW p \in Nat, p = PkgLen(Len(body)), used + p < CHANNEL_BUF_LEN
  PROVE  Packages(buf, (tail + p) % CHANNEL_BUF_LEN, used + p, Append(q, body),
                  [k \in 0 .. (Len(q) + 1) |-> IF k <= Len(q) THEN e[k] + p ELSE 0])
<1> DEFINE r == Append(q, body)
           N == Len(q)
           new == (tail + p) % CHANNEL_BUF_LEN
           d == [k \in 0 .. (N + 1) |-> IF k <= N THEN e[k] + p ELSE 0]
<1>1. /\ q \in Seq(Bodies) /\ N = Len(q) /\ N \in Nat /\ used \in Nat
      /\ e \in [0 .. N -> 0 .. used] /\ e[N] = 0 /\ e[0] = used
  BY DEF Packages, Cells
<1>0. \A m \in 0 .. N : \A k \in 0 .. m : e[m] <= e[k]
  BY DEF Packages
<1>2. r \in Seq(Bodies) /\ Len(r) = N + 1 /\ r[N + 1] = body
      /\ \A k \in 1 .. N : r[k] = q[k]
  BY <1>1
<1> HIDE DEF r, N
<1>3. ASSUME NEW k \in 0 .. N PROVE e[k] \in Nat /\ e[k] <= used
  <2>1. e[k] \in 0 .. used
    BY <1>1
  <2> QED BY <2>1, <1>1
<1>4. \A k \in 0 .. N : d[k] = e[k] + p
  BY <1>1
<1>5. d[N + 1] = 0
  BY <1>1
<1>6. d \in [0 .. Len(r) -> 0 .. (used + p)]
  BY <1>1, <1>2, <1>3, SMTT(30)
<1> HIDE DEF d
<1> HIDE DEF new
<1>7. d[0] = used + p /\ d[Len(r)] = 0
  BY <1>1, <1>2, <1>4, <1>5
<1>8. tail + p <= CHANNEL_BUF_LEN
  BY DEF PackageAt
<1>9. ASSUME NEW k \in 1 .. Len(r)
      PROVE  /\ d[k - 1] = d[k] + PkgLen(Len(r[k]))
             /\ PackageAt(buf, Back(new, d[k - 1]), r[k])
  <2>1. CASE k \in 1 .. N
    <3>1. k - 1 \in 0 .. N /\ k \in 0 .. N /\ k \in 1 .. Len(q)
      BY <2>1, <1>1
    <3>2. /\ e[k - 1] = e[k] + PkgLen(Len(q[k]))
          /\ PackageAt(buf, Back(tail, e[k - 1]), q[k])
      BY <3>1 DEF Packages
    <3>3. q[k] \in Bodies /\ PkgLen(Len(q[k])) \in Nat
      BY <3>1, OnePackage
    <3>4. PICK a \in Nat, b \in Nat, l \in Nat :
            a = e[k - 1] /\ b = e[k] /\ l = PkgLen(Len(q[k]))
      BY <3>1, <3>3, <1>3
    <3>5. a = b + l /\ d[k - 1] = a + p /\ d[k] = b + p /\ r[k] = q[k] /\ a <= used
      BY <3>1, <3>2, <3>4, <1>2, <1>3, <1>4, <2>1
    <3>6. Back(new, a + p) = Back(tail, a)
      <4>1. a + p < CHANNEL_BUF_LEN
        <5>1. used \in Nat /\ a <= used
          BY <3>5 DEF Cells
        <5> QED BY <5>1, BufLenAssumption, SMTT(30)
      <4> QED BY <4>1, <1>8, BackAppend, SMTT(30) DEF new
    <3> QED BY <3>2, <3>4, <3>5, <3>6
  <2>2. CASE k = N + 1
    <3>1. k - 1 = N /\ d[k - 1] = p /\ d[k] = 0 /\ r[k] = body
      <4>1. k - 1 = N /\ N \in 0 .. N
        BY <2>2, <1>1
      <4>2. d[N] = p
        BY <4>1, <1>1, <1>4, SMTT(30)
      <4> QED BY <4>1, <4>2, <2>2, <1>2, <1>5, SMTT(30)
    <3>2. Back(new, 0 + p) = Back(tail, 0)
      <4>1. 0 + p < CHANNEL_BUF_LEN
        BY <1>1, BufLenAssumption
      <4> QED BY <4>1, <1>8, BackAppend, SMTT(30) DEF new
    <3>3. Back(tail, 0) = tail
      BY BackIs, BufLenAssumption DEF Cells
    <3>4. Back(new, p) = tail
      BY <3>2, <3>3
    <3> QED BY <3>1, <3>4
  <2> QED BY <2>1, <2>2, <1>1, <1>2
<1>10. ASSUME NEW m \in 0 .. Len(r), NEW k \in 0 .. m PROVE d[m] <= d[k]
  <2>1. CASE m = N + 1
    <3>1. d[k] \in Nat
      <4>1. k \in 0 .. N \/ k = N + 1
        BY <1>1, <1>2
      <4>2. k \in 0 .. N => d[k] = e[k] + p /\ e[k] \in Nat
        BY <1>3, <1>4
      <4> QED BY <4>1, <4>2, <1>5
    <3> QED BY <3>1, <2>1, <1>5
  <2>2. CASE m # N + 1
    <3>1. m \in 0 .. N /\ k \in 0 .. N
      BY <2>2, <1>1, <1>2
    <3>2. e[m] <= e[k]
      BY <3>1, <1>0
    <3>3. e[m] \in Nat /\ e[k] \in Nat /\ d[m] = e[m] + p /\ d[k] = e[k] + p
      BY <3>1, <1>3, <1>4
    <3> QED BY <3>2, <3>3
  <2> QED BY <2>1, <2>2
<1>11. Packages(buf, new, used + p, r, d)
  BY <1>2, <1>6, <1>7, <1>9, <1>10 DEF Packages
<1> QED BY <1>11 DEF r, d, N, new

------------------------------------------------------------------------------
(***************************************************************************)
(* The invariant of the contents.  It says what the two calls know of the  *)
(* bytes in the middle of their work: what AddPkg has copied so far, what  *)
(* GetPkg has checked, and that the tail that GetPkg saw is between two    *)
(* packages.                                                               *)
(***************************************************************************)
\* wLength is a 16 bit field; the code's buffer has 10000 bytes.
ShortBuffer == CHANNEL_BUF_LEN <= 65536

\* What AddPkg has written so far of its package.
BytesInv ==
  /\ Adding => pBody \in Bodies
  /\ pPc \in {"body", "publish"} =>
       cFlag(cBuf, pTail) = START_TAG /\ wLength(cBuf, pTail) = Len(pBody)
  /\ pPc = "publish" => CopyOut(cBuf, pTail + HeadLen, Len(pBody)) = pBody

\* What GetPkg has learnt from the header stays true.
CallInv ==
  /\ cPc = "copy" => wLength(cBuf, rHead) <= iBodyLen
  /\ cPc = "advance" => iPkgLen = PkgLen(wLength(cBuf, rHead))

\* The bytes from head to tail are the packages of q, and the indices of seen
\* lie between two of them.
HoldsAt(buf, head, tail, seen, q) ==
  \E e \in [0 .. Len(q) -> Cells] :
    /\ Packages(buf, tail, Used(head, tail), q, e)
    /\ \A x \in seen : \E j \in 0 .. Len(q) : e[j] = Used(x, tail)

\* The ring holds the packages of q; the tail that GetPkg saw is between two.
SeenTail == IF Getting THEN {rTail} ELSE {}
Holds(q) == HoldsAt(cBuf, dwHead, dwTail, SeenTail, q)

QueueInv == ~dirty => Holds(Queue)

FInv == BytesInv /\ CallInv /\ QueueInv

Pending(pc) == IF pc \in {"count", "store"} THEN 1 ELSE 0

CountInv ==
  ~dirty /\ ~countOff =>
    dwTotalPkgs = (Len(Queue) + Pending(cPc) - Pending(pPc)) % COUNT_MOD

\* The header that AddPkg writes tells the length of the body.
LEMMA HeaderTells ==
  ASSUME NEW n \in Nat, n < 65536
  PROVE  (n % 256) + 256 * ((n \div 256) % 256) = n
BY Z3

\* What AddPkg copies to the head of a package is read back by GetPkg.
LEMMA WrittenHeader ==
  ASSUME NEW buf \in Ring, NEW i \in Nat, i + 2 \in Cells, NEW n \in Nat, n < 65536
  PROVE  LET new == CopyIn(buf, i, Header(n)) IN
         cFlag(new, i) = START_TAG /\ wLength(new, i) = n
<1> DEFINE new == CopyIn(buf, i, Header(n))
           h == Header(n)
<1>1. Len(h) = 3 /\ h[1] = START_TAG /\ h[2] = n % 256 /\ h[3] = (n \div 256) % 256
  BY DEF Header
<1>2. i \in Cells /\ i + 1 \in Cells /\ i + 2 \in Cells
  BY BufLenAssumption DEF Cells
<1>3. new = [c \in Cells |-> IF c \in i .. (i + Len(h) - 1) THEN h[c - i + 1] ELSE buf[c]]
  BY DEF CopyIn
<1> HIDE DEF new, h
<1>4. new[i] = h[1] /\ new[i + 1] = h[2] /\ new[i + 2] = h[3]
  <2>1. /\ i \in i .. (i + Len(h) - 1) /\ i - i + 1 = 1
        /\ i + 1 \in i .. (i + Len(h) - 1) /\ (i + 1) - i + 1 = 2
        /\ i + 2 \in i .. (i + Len(h) - 1) /\ (i + 2) - i + 1 = 3
    BY <1>1
  <2> QED BY <1>2, <1>3, <2>1
<1>5. wLength(new, i) = (n % 256) + 256 * ((n \div 256) % 256)
  BY <1>1, <1>4 DEF wLength
<1>6. cFlag(new, i) = START_TAG
  BY <1>1, <1>4 DEF cFlag
<1>7. wLength(new, i) = n
  BY <1>5, HeaderTells
<1> QED BY <1>6, <1>7 DEF new, h

\* What is copied in can be copied out.
LEMMA WrittenBody ==
  ASSUME NEW buf \in Ring, NEW i \in Nat, NEW s \in Seq(Byte),
         i .. (i + Len(s) - 1) \subseteq Cells
  PROVE  CopyOut(CopyIn(buf, i, s), i, Len(s)) = s
<1> DEFINE new == CopyIn(buf, i, s)
<1>1. ASSUME NEW k \in 1 .. Len(s) PROVE new[i + k - 1] = s[k]
  <2>1. i + k - 1 \in i .. (i + Len(s) - 1) /\ (i + k - 1) - i + 1 = k
    OBVIOUS
  <2>2. i + k - 1 \in Cells
    BY <2>1
  <2> QED BY <2>1, <2>2 DEF CopyIn
<1>2. s = [k \in 1 .. Len(s) |-> s[k]]
  OBVIOUS
<1> HIDE DEF new
<1>3. CopyOut(new, i, Len(s)) = [k \in 1 .. Len(s) |-> s[k]]
  BY <1>1 DEF CopyOut
<1> QED BY <1>2, <1>3 DEF new

\* A copy changes no cell outside of its range.
LEMMA CopyElsewhere ==
  ASSUME NEW buf, NEW i, NEW s, NEW c \in Cells, c \notin i .. (i + Len(s) - 1)
  PROVE  CopyIn(buf, i, s)[c] = buf[c]
BY DEF CopyIn

\* The used bytes after a head that moves over a package.
LEMMA UsedAdvance ==
  ASSUME NEW head \in Cells, NEW tail \in Cells, NEW p \in Nat,
         p <= Used(head, tail), head + p <= CHANNEL_BUF_LEN
  PROVE  Used((head + p) % CHANNEL_BUF_LEN, tail) = Used(head, tail) - p
<1>1. head + p \in 0 .. CHANNEL_BUF_LEN
  BY BufLenAssumption DEF Cells
<1>2. PICK new \in Cells : /\ new = (head + p) % CHANNEL_BUF_LEN
                           /\ new = IF head + p = CHANNEL_BUF_LEN THEN 0 ELSE head + p
  BY <1>1, ModuloLen, BufLenAssumption DEF Cells
<1>3. Used(new, tail) = Used(head, tail) - p
  BY <1>1, <1>2, BufLenAssumption DEF Used, Cells
<1> QED BY <1>2, <1>3

\* The used bytes before a tail that moves over an accepted package.
LEMMA UsedAppend ==
  ASSUME NEW head \in Cells, NEW tail \in Cells, NEW p \in Nat, p >= HeadLen,
         ~Full(head, tail, p), ~Wraps(head, tail, p)
  PROVE  /\ tail + p <= CHANNEL_BUF_LEN
         /\ Used(head, tail) + p < CHANNEL_BUF_LEN
         /\ Used(head, (tail + p) % CHANNEL_BUF_LEN) = Used(head, tail) + p
<1>1. tail + p <= CHANNEL_BUF_LEN /\ tail + p \in 0 .. CHANNEL_BUF_LEN
  BY BufLenAssumption DEF Full, Wraps, Cells
<1>2. PICK new \in Cells : /\ new = (tail + p) % CHANNEL_BUF_LEN
                           /\ new = IF tail + p = CHANNEL_BUF_LEN THEN 0 ELSE tail + p
  BY <1>1, ModuloLen, BufLenAssumption DEF Cells
<1>3. Used(head, tail) + p < CHANNEL_BUF_LEN /\ Used(head, new) = Used(head, tail) + p
  BY <1>1, <1>2, BufLenAssumption DEF Full, Wraps, Used, Cells, HeadLen
<1> QED BY <1>1, <1>2, <1>3

\* The bytes that GetPkg may read from the head reach over the packages before
\* the tail it saw.
LEMMA SeenReaches ==
  ASSUME NEW head \in Cells, NEW seen \in Cells, NEW tail \in Cells, NEW p \in Nat,
         head # seen, Between(head, seen, tail),
         head + p <= CHANNEL_BUF_LEN, Used(seen, tail) + p <= Used(head, tail)
  PROVE  p <= BufLen(head, seen)
BY BufLenAssumption DEF Between, BufLen, Used, Cells

\* Only the bytes a call has yet to write are written.
LEMMA WriterWrites ==
  ASSUME IInv, Writer, NEW c \in Cells, c \notin PendingWrite
  PROVE  cBuf'[c] = cBuf[c]
<1>0. ~OutOfRange /\ TypeOK /\ pPc \notin {"fatal", "reset"}
  BY BufLenAssumption DEF OutOfRange, Cells, IInv
<1>1. CASE AddMark
  BY <1>0, <1>1 DEF AddMark, PendingWrite, TypeOK, Ring
<1>2. CASE AddHead
  <2>1. c \notin pTail .. (pTail + PkgLen(Len(pBody)) - 1)
    BY <1>2 DEF AddHead, PendingWrite
  <2>2. Len(Header(Len(pBody))) = HeadLen /\ Len(pBody) \in Nat /\ pTail \in Nat
    BY <1>0, HeaderType DEF TypeOK
  <2>3. c \notin pTail .. (pTail + Len(Header(Len(pBody))) - 1)
    BY <2>1, <2>2 DEF PkgLen, HeadLen, Cells
  <2> QED BY <1>2, <2>3, CopyElsewhere DEF AddHead
<1>3. CASE AddBody
  <2>1. c \notin (pTail + HeadLen) .. (pTail + PkgLen(Len(pBody)) - 1)
    BY <1>3 DEF AddBody, PendingWrite
  <2>2. Len(pBody) \in Nat /\ pTail \in Nat
    BY <1>0 DEF TypeOK
  <2>3. c \notin (pTail + HeadLen) .. (pTail + HeadLen + Len(pBody) - 1)
    BY <2>1, <2>2 DEF PkgLen, HeadLen, Cells
  <2> QED BY <1>3, <2>3, CopyElsewhere DEF AddBody
<1>4. CASE ~AddMark /\ ~AddHead /\ ~AddBody
  BY <1>0, <1>4 DEF Writer, shared, AddFull, AddBegin, AddPublish, AddCountLoad, AddCountStore,
     AddOutOfRange, AddResetTail, AddResetHead
<1> QED BY <1>1, <1>2, <1>3, <1>4

\* No step writes a byte that is unread.
LEMMA UnreadKept ==
  ASSUME IInv, [Next]_vars
  PROVE  \A c \in Unread(dwHead, dwTail) \cap Cells : cBuf'[c] = cBuf[c]
<1>1. CASE Writer
  <2>1. PendingWrite \cap Unread(dwHead, dwTail) = {}
    BY IInvWrites DEF WritesOutsideUnread
  <2> QED BY <1>1, <2>1, WriterWrites
<1>2. CASE Reader
  BY <1>2 DEF Reader, shared, GetEmpty, GetBegin, GetBoundary, GetNoBoundary, GetTooShort,
     GetBadFlag, GetBadLen, GetFatal, GetParse, GetCopy, GetAdvance, GetCountLoad,
     GetCountStore, GetOutOfRange, GetResetTail, GetResetHead
<1>3. CASE CrashWriter \/ CrashReader \/ UNCHANGED vars
  BY <1>3 DEF CrashWriter, CrashReader, shared, vars
<1> QED BY <1>1, <1>2, <1>3 DEF Next

\* The cells of the call of the writer.
LEMMA AddingFits ==
  ASSUME IInv, Adding, pPc # "mark"
  PROVE  /\ pTail \in Nat /\ pBody \in Seq(Byte) /\ Len(pBody) \in Nat
         /\ pTail .. (pTail + PkgLen(Len(pBody)) - 1) \subseteq Cells
         /\ pTail + HeadLen + Len(pBody) <= CHANNEL_BUF_LEN
<1>1. pTail \in Nat /\ pBody \in Seq(Byte) /\ Len(pBody) \in Nat
  BY DEF IInv, TypeOK
<1>2. PICK p \in Nat : p = PkgLen(Len(pBody)) /\ p = HeadLen + Len(pBody) /\ p >= HeadLen
  BY <1>1 DEF PkgLen, HeadLen
<1>3. ~Full(dwHead, dwTail, p) /\ pTail = Start(dwHead, dwTail, p)
  BY <1>2 DEF IInv, WriterInv
<1>4. pTail .. (pTail + p - 1) \subseteq Cells
  <2>1. dwHead \in Cells /\ dwTail \in Cells
    BY DEF IInv
  <2>2. Start(dwHead, dwTail, p) .. (Start(dwHead, dwTail, p) + p - 1) \subseteq Cells
    BY <1>2, <1>3, <2>1, AcceptedFits
  <2> QED BY <1>3, <2>2
<1>5. pTail + p <= CHANNEL_BUF_LEN
  <2>1. pTail + p - 1 \in pTail .. (pTail + p - 1)
    BY <1>1, <1>2 DEF HeadLen
  <2>2. pTail + p - 1 \in Cells
    BY <1>4, <2>1
  <2> QED BY <2>2, <1>1, <1>2, BufLenAssumption DEF Cells
<1>6. pTail + HeadLen + Len(pBody) <= CHANNEL_BUF_LEN
  BY <1>1, <1>2, <1>5 DEF HeadLen
<1> QED BY <1>1, <1>2, <1>4, <1>6

\* Each copy of AddPkg leaves the bytes it says.
LEMMA WriterKeepsBytes ==
  ASSUME ShortBuffer, IInv, BytesInv, Writer
  PROVE  BytesInv'
<1>0. ~OutOfRange /\ TypeOK /\ pPc \notin {"fatal", "reset"}
  BY BufLenAssumption DEF OutOfRange, Cells, IInv
<1>1. CASE \E body \in Bodies : AddFull(body) \/ AddBegin(body)
  BY <1>1 DEF AddFull, AddBegin, AddReturn, BytesInv, Adding
<1>2. CASE AddMark
  BY <1>2 DEF AddMark, BytesInv, Adding
<1>3. CASE AddHead
  <2>1. /\ pTail \in Nat /\ pBody \in Seq(Byte) /\ Len(pBody) \in Nat
        /\ pTail + HeadLen + Len(pBody) <= CHANNEL_BUF_LEN
    BY <1>3, AddingFits DEF AddHead, Adding
  <2>2. pTail + 2 \in Cells /\ Len(pBody) < 65536
    BY <2>1, BufLenAssumption DEF Cells, HeadLen, ShortBuffer
  <2>3. cBuf' = CopyIn(cBuf, pTail, Header(Len(pBody))) /\ cBuf \in Ring
    BY <1>0, <1>3 DEF AddHead, TypeOK
  <2>4. cFlag(cBuf', pTail) = START_TAG /\ wLength(cBuf', pTail) = Len(pBody)
    BY <2>1, <2>2, <2>3, WrittenHeader
  <2>5. pPc' = "body" /\ pTail' = pTail /\ pBody' = pBody /\ pBody \in Bodies
    BY <1>3 DEF AddHead, BytesInv, Adding
  <2> QED BY <2>4, <2>5 DEF BytesInv, cFlag, wLength
<1>4. CASE AddBody
  <2>1. /\ pTail \in Nat /\ pBody \in Seq(Byte) /\ Len(pBody) \in Nat
        /\ pTail + HeadLen + Len(pBody) <= CHANNEL_BUF_LEN
    BY <1>4, AddingFits DEF AddBody, Adding
  <2>2. PICK i \in Nat : i = pTail + HeadLen
    BY <2>1 DEF HeadLen
  <2>3. cBuf' = CopyIn(cBuf, i, pBody) /\ cBuf \in Ring
    BY <1>0, <1>4, <2>2 DEF AddBody, TypeOK
  <2>4. CopyOut(cBuf', i, Len(pBody)) = pBody
    <3>1. i .. (i + Len(pBody) - 1) \subseteq Cells
      BY <2>1, <2>2, BufLenAssumption DEF Cells, HeadLen
    <3> QED BY <2>1, <2>3, <3>1, WrittenBody
  <2>5. cBuf'[pTail] = cBuf[pTail] /\ cBuf'[pTail + 1] = cBuf[pTail + 1]
        /\ cBuf'[pTail + 2] = cBuf[pTail + 2]
    <3>1. ASSUME NEW c \in Cells, c < i PROVE cBuf'[c] = cBuf[c]
      <4>1. c \notin i .. (i + Len(pBody) - 1)
        BY <3>1, <2>1 DEF Cells
      <4> QED BY <2>3, <4>1, CopyElsewhere
    <3>2. /\ pTail \in Cells /\ pTail + 1 \in Cells /\ pTail + 2 \in Cells
          /\ pTail < i /\ pTail + 1 < i /\ pTail + 2 < i
      BY <2>1, <2>2, BufLenAssumption DEF Cells, HeadLen
    <3> QED BY <3>1, <3>2
  <2>6. cFlag(cBuf', pTail) = START_TAG /\ wLength(cBuf', pTail) = Len(pBody)
    BY <1>4, <2>5 DEF AddBody, BytesInv, cFlag, wLength
  <2>7. pPc' = "publish" /\ pTail' = pTail /\ pBody' = pBody /\ pBody \in Bodies
    BY <1>4 DEF AddBody, BytesInv, Adding
  <2> QED BY <2>2, <2>4, <2>6, <2>7 DEF BytesInv, cFlag, wLength, CopyOut
<1>5. CASE AddPublish \/ AddCountLoad \/ AddCountStore
  BY <1>5 DEF AddPublish, AddCountLoad, AddCountStore, AddReturn, BytesInv, Adding
<1>6. CASE AddOutOfRange \/ AddResetTail \/ AddResetHead
  BY <1>0, <1>6 DEF AddOutOfRange, AddResetTail, AddResetHead
<1> QED BY <1>1, <1>2, <1>3, <1>4, <1>5, <1>6 DEF Writer

\* No step, of AddPkg, of GetPkg or a crash, undoes what AddPkg has written.
LEMMA NextKeepsBytes ==
  ASSUME ShortBuffer, IInv, BytesInv, [Next]_vars
  PROVE  BytesInv'
<1>1. CASE UNCHANGED <<cBuf, pVars>>
  BY <1>1 DEF pVars, BytesInv, Adding, cFlag, wLength, CopyOut
<1>2. CASE Writer
  BY <1>2, WriterKeepsBytes
<1>3. CASE CrashWriter
  BY <1>3 DEF CrashWriter, AddReturn, BytesInv, Adding
<1>4. CASE Reader
  <2>1. UNCHANGED <<cBuf, pVars>>
    BY <1>4 DEF Reader, shared, GetEmpty, GetBegin, GetBoundary, GetNoBoundary, GetTooShort,
       GetBadFlag, GetBadLen, GetFatal, GetParse, GetCopy, GetAdvance, GetCountLoad,
       GetCountStore, GetOutOfRange, GetResetTail, GetResetHead
  <2> QED BY <1>1, <2>1
<1>5. CASE CrashReader \/ UNCHANGED vars
  BY <1>1, <1>5 DEF CrashReader, vars, shared
<1> QED BY <1>2, <1>3, <1>4, <1>5 DEF Next

\* The header that GetPkg has checked is unread, so that it stays as it is.
LEMMA NextKeepsCall ==
  ASSUME IInv, CallInv, [Next]_vars
  PROVE  CallInv'
<1>1. ASSUME UNCHANGED cVars PROVE CallInv'
  <2>1. CASE cPc \notin {"copy", "advance"}
    BY <1>1, <2>1 DEF cVars, CallInv
  <2>2. CASE cPc \in {"copy", "advance"}
    <3>1. /\ rHead \in Cells /\ rTail \in Cells /\ rHead # rTail /\ rHead = dwHead
          /\ Between(rHead, rTail, dwTail) /\ dwTail \in Cells
          /\ iPkgLen \in Nat /\ iPkgLen <= BufLen(rHead, rTail) /\ iPkgLen >= HeadLen
      BY <2>2 DEF IInv, ReaderInv, Getting, TypeOK
    <3>2. rHead .. (rHead + iPkgLen - 1) \subseteq Unread(rHead, dwTail) \cap Cells
      BY <3>1, ReadableUnread
    <3>3. rHead + 1 \in rHead .. (rHead + iPkgLen - 1) /\ rHead + 2 \in rHead .. (rHead + iPkgLen - 1)
      BY <3>1 DEF HeadLen, Cells
    <3>4. cBuf'[rHead + 1] = cBuf[rHead + 1] /\ cBuf'[rHead + 2] = cBuf[rHead + 2]
      BY <3>1, <3>2, <3>3, UnreadKept
    <3> QED BY <1>1, <3>4 DEF cVars, CallInv, wLength
  <2> QED BY <2>1, <2>2
<1>2. CASE Writer \/ CrashWriter \/ UNCHANGED vars
  <2>1. UNCHANGED cVars
    BY <1>2 DEF Writer, AddFull, AddBegin, AddMark, AddHead, AddBody, AddPublish, AddCountLoad,
       AddCountStore, AddOutOfRange, AddResetTail, AddResetHead, CrashWriter, vars
  <2> QED BY <1>1, <2>1
<1>3. CASE GetParse
  <2>1. /\ rHead \in Cells /\ rTail \in Cells /\ BufLen(rHead, rTail) >= HeadLen
        /\ cBuf \in Ring /\ iBodyLen \in Nat
    BY <1>3, BufLenAssumption
    DEF GetParse, TooShort, Getting, IInv, TypeOK, ReaderInv, BufLen, HeadLen, Cells
  <2>2. rHead \in Nat /\ rHead + 1 \in Cells /\ rHead + 2 \in Cells
    BY <2>1, BufLenAssumption DEF BufLen, HeadLen, Cells
  <2>3. wLength(cBuf, rHead) \in Nat
    BY <2>1, <2>2, LengthType
  <2>4. wLength(cBuf, rHead) <= iBodyLen
    BY <1>3, <2>1, <2>3 DEF GetParse, BadLen
  <2>5. cPc' = "copy" /\ UNCHANGED <<cBuf, rHead, iBodyLen>>
    BY <1>3 DEF GetParse, shared
  <2> QED BY <2>4, <2>5 DEF CallInv, wLength
<1>4. CASE GetCopy
  <2>1. iPkgLen = PkgLen(wLength(cBuf, rHead))
    BY <1>4 DEF GetCopy, IInv, ReaderInv
  <2>2. cPc' = "advance" /\ iPkgLen' = iPkgLen /\ rHead' = rHead /\ cBuf' = cBuf
    BY <1>4 DEF GetCopy, shared
  <2> QED BY <2>1, <2>2 DEF CallInv, wLength, PkgLen
<1>5. CASE Reader /\ ~GetParse /\ ~GetCopy
  <2>1. cPc' \notin {"copy", "advance"}
    BY <1>5 DEF Reader, GetReturn, GetEmpty, GetBegin, GetBoundary, GetNoBoundary, GetTooShort,
       GetBadFlag, GetBadLen, GetFatal, GetAdvance, GetCountLoad,
       GetCountStore, GetOutOfRange, GetResetTail, GetResetHead
  <2> QED BY <2>1 DEF CallInv
<1>6. CASE CrashReader
  BY <1>6 DEF CrashReader, GetReturn, CallInv
<1> QED BY <1>2, <1>3, <1>4, <1>5, <1>6 DEF Next

\* The offsets of the packages are offsets in the buffer.
LEMMA HoldsIntro ==
  ASSUME NEW buf, NEW head \in Cells, NEW tail \in Cells, NEW seen, NEW q, NEW e,
         Packages(buf, tail, Used(head, tail), q, e),
         \A x \in seen : \E j \in 0 .. Len(q) : e[j] = Used(x, tail)
  PROVE  HoldsAt(buf, head, tail, seen, q)
<1>1. Used(head, tail) \in Cells
  BY BackUsed
<1>2. 0 .. Used(head, tail) \subseteq Cells
  BY <1>1, BufLenAssumption DEF Cells
<1>3. e \in [0 .. Len(q) -> 0 .. Used(head, tail)]
  BY DEF Packages
<1>4. e \in [0 .. Len(q) -> Cells]
  BY <1>2, <1>3
<1> QED BY <1>4 DEF HoldsAt

\* Nothing else is in the ring: the packages of q are what Queue reads.
LEMMA HoldsIsRead ==
  ASSUME NEW buf \in Ring, NEW head \in Cells, NEW tail \in Cells, NEW seen, NEW q,
         HoldsAt(buf, head, tail, seen, q)
  PROVE  BodiesIn(buf, tail, Used(head, tail)) = q /\ q \in Seq(Bodies)
<1>1. PICK e : Packages(buf, tail, Used(head, tail), q, e)
  BY DEF HoldsAt
<1>2. Used(head, tail) \in Cells
  BY BackUsed
<1>3. BodiesIn(buf, tail, Used(head, tail)) = q
  BY <1>1, <1>2, PackagesAreRead
<1> QED BY <1>1, <1>3 DEF Packages

\* What is written elsewhere leaves the packages as they are; a call that
\* begins sees the tail.
LEMMA HoldsKept ==
  ASSUME NEW buf, NEW new, NEW head \in Cells, NEW tail \in Cells,
         NEW seen, NEW later, later \subseteq seen \cup {tail}, NEW q,
         HoldsAt(buf, head, tail, seen, q),
         \A c \in Unread(head, tail) \cap Cells : new[c] = buf[c]
  PROVE  HoldsAt(new, head, tail, later, q)
<1>1. PICK e : /\ Packages(buf, tail, Used(head, tail), q, e)
               /\ \A x \in seen : \E j \in 0 .. Len(q) : e[j] = Used(x, tail)
  BY DEF HoldsAt
<1>2. Packages(new, tail, Used(head, tail), q, e)
  BY <1>1, PackagesKept
<1>3. Used(tail, tail) = 0 /\ e[Len(q)] = 0 /\ Len(q) \in 0 .. Len(q)
  BY <1>1 DEF Used, Cells, Packages
<1>4. \A x \in later : \E j \in 0 .. Len(q) : e[j] = Used(x, tail)
  BY <1>1, <1>3
<1> QED BY <1>2, <1>4, HoldsIntro

\* An empty ring holds no package.
LEMMA HoldsNothing ==
  ASSUME NEW buf, NEW head \in Cells
  PROVE  HoldsAt(buf, head, head, {}, <<>>)
<1> DEFINE e == [k \in 0 .. 0 |-> 0]
<1>1. Used(head, head) = 0
  BY DEF Used, Cells
<1>2. Packages(buf, head, 0, <<>>, e)
  BY DEF Packages
<1> HIDE DEF e
<1> QED BY <1>1, <1>2, HoldsIntro

\* A package more, written at the tail in one piece.
LEMMA HoldsAppended ==
  ASSUME NEW buf, NEW head \in Cells, NEW tail \in Cells, NEW seen \in SUBSET Cells, NEW q,
         HoldsAt(buf, head, tail, seen, q),
         NEW body \in Bodies, PackageAt(buf, tail, body), NEW p \in Nat, p = PkgLen(Len(body)),
         ~Full(head, tail, p), ~Wraps(head, tail, p),
         \A x \in seen : ~Full(x, tail, p) /\ ~Wraps(x, tail, p)
  PROVE  HoldsAt(buf, head, (tail + p) % CHANNEL_BUF_LEN, seen, Append(q, body))
<1>1. PICK e : /\ Packages(buf, tail, Used(head, tail), q, e)
               /\ \A x \in seen : \E j \in 0 .. Len(q) : e[j] = Used(x, tail)
  BY DEF HoldsAt
<1>2. p >= HeadLen
  BY BodyLen
<1>3. /\ tail + p <= CHANNEL_BUF_LEN
      /\ Used(head, tail) + p < CHANNEL_BUF_LEN
      /\ Used(head, (tail + p) % CHANNEL_BUF_LEN) = Used(head, tail) + p
  BY <1>2, UsedAppend
<1>4. PICK used \in Cells, new \in Cells :
        used = Used(head, tail) /\ new = (tail + p) % CHANNEL_BUF_LEN
  <2>1. tail + p \in 0 .. CHANNEL_BUF_LEN
    BY <1>3, BufLenAssumption, SMTT(30) DEF Cells
  <2>2. PICK x \in 0 .. CHANNEL_BUF_LEN : x = tail + p
    BY <2>1
  <2>3. x % CHANNEL_BUF_LEN \in Cells
    BY ModuloLen, BufLenAssumption DEF Cells
  <2> QED BY <2>2, <2>3, BackUsed
<1> DEFINE d == [k \in 0 .. (Len(q) + 1) |-> IF k <= Len(q) THEN e[k] + p ELSE 0]
           r == Append(q, body)
<1>5. Packages(buf, (tail + p) % CHANNEL_BUF_LEN, used + p, r, d)
  <2>1. Packages(buf, tail, used, q, e) /\ used + p < CHANNEL_BUF_LEN
    BY <1>1, <1>3, <1>4
  <2> HIDE DEF d, r
  <2>2. Packages(buf, (tail + p) % CHANNEL_BUF_LEN, used + p, Append(q, body),
                 [k \in 0 .. (Len(q) + 1) |-> IF k <= Len(q) THEN e[k] + p ELSE 0])
    BY <2>1, PackagesAppended
  <2> QED BY <2>2 DEF d, r
<1>6. q \in Seq(Bodies) /\ Len(q) \in Nat /\ Len(r) = Len(q) + 1
  BY <1>1 DEF Packages
<1>7. ASSUME NEW x \in seen PROVE \E j \in 0 .. Len(r) : d[j] = Used(x, new)
  <2>1. PICK j \in 0 .. Len(q) : e[j] = Used(x, tail)
    BY <1>1, <1>7
  <2>2. d[j] = e[j] + p /\ j \in 0 .. Len(r)
    BY <1>6
  <2>3. /\ tail + p <= CHANNEL_BUF_LEN
        /\ Used(x, tail) + p < CHANNEL_BUF_LEN
        /\ Used(x, (tail + p) % CHANNEL_BUF_LEN) = Used(x, tail) + p
    <3>1. x \in Cells /\ ~Full(x, tail, p) /\ ~Wraps(x, tail, p)
      BY <1>7
    <3> QED BY <1>2, <3>1, UsedAppend
  <2> QED BY <1>4, <2>1, <2>2, <2>3
<1> HIDE DEF d, r
<1>8. Packages(buf, new, Used(head, new), r, d)
  BY <1>3, <1>4, <1>5
<1>9. HoldsAt(buf, head, new, seen, r)
  BY <1>7, <1>8, HoldsIntro
<1> QED BY <1>4, <1>9 DEF r

\* The packages from an index between two of them.
LEMMA HoldsDropped ==
  ASSUME NEW buf, NEW head \in Cells, NEW tail \in Cells, NEW q, NEW e,
         Packages(buf, tail, Used(head, tail), q, e),
         NEW j \in 0 .. Len(q), NEW new \in Cells, e[j] = Used(new, tail)
  PROVE  HoldsAt(buf, new, tail, {}, SubSeq(q, j + 1, Len(q)))
<1> DEFINE r == SubSeq(q, j + 1, Len(q))
           d == [k \in 0 .. (Len(q) - j) |-> e[k + j]]
<1>1. PICK used \in Cells : used = Used(head, tail)
  BY BackUsed
<1>2. Packages(buf, tail, e[j], r, d)
  BY <1>1, PackagesDropped
<1> HIDE DEF r, d
<1>3. Packages(buf, tail, Used(new, tail), r, d)
  BY <1>2
<1>4. HoldsAt(buf, new, tail, {}, r)
  BY <1>3, HoldsIntro
<1> QED BY <1>4 DEF r

\* A call that found the ring in order: the first package is whole, and the
\* tail that the call saw is behind it.
LEMMA FirstPackage ==
  ASSUME IInv, Getting, NEW q, NEW e,
         Packages(cBuf, dwTail, Used(dwHead, dwTail), q, e),
         NEW j \in 0 .. Len(q), e[j] = Used(rTail, dwTail)
  PROVE  /\ 1 \in 1 .. Len(q) /\ j \in 1 .. Len(q) /\ q[1] \in Bodies
         /\ PackageAt(cBuf, rHead, q[1])
         /\ PkgLen(Len(q[1])) <= BufLen(rHead, rTail)
         /\ PkgLen(Len(q[1])) <= Used(dwHead, dwTail)
         /\ e[1] = Used(dwHead, dwTail) - PkgLen(Len(q[1]))
<1>1. /\ rHead = dwHead /\ rTail \in Cells /\ rHead # rTail
      /\ Between(rHead, rTail, dwTail) /\ dwTail \in Cells /\ rHead \in Cells
  BY DEF IInv, ReaderInv
<1>2. PICK used \in Cells : used = Used(rHead, dwTail) /\ used = Used(dwHead, dwTail)
  BY <1>1, BackUsed
<1>3. Packages(cBuf, dwTail, used, q, e)
  BY <1>2
<1>4. q \in Seq(Bodies) /\ Len(q) \in Nat /\ e[0] = used
  BY <1>3 DEF Packages
<1>5. j # 0
  <2>1. SUFFICES ASSUME j = 0 PROVE FALSE
    OBVIOUS
  <2>2. Used(rTail, dwTail) = Used(rHead, dwTail)
    BY <2>1, <1>2, <1>4
  <2>3. Back(dwTail, Used(rTail, dwTail)) = rTail /\ Back(dwTail, Used(rHead, dwTail)) = rHead
    BY <1>1, BackUsed
  <2> QED BY <2>2, <2>3, <1>1
<1>6. 1 \in 1 .. Len(q) /\ j \in 1 .. Len(q)
  BY <1>4, <1>5
<1>7. q[1] \in Bodies /\ PkgLen(Len(q[1])) \in Nat /\ e[1] \in Cells /\ e[1] <= used
  <2>1. PICK k \in 1 .. Len(q) : k = 1
    BY <1>6
  <2>2. q[k] \in Bodies /\ PkgLen(Len(q[k])) \in Nat /\ e[k] \in Cells /\ e[k] <= used
    BY <1>1, <1>3, OnePackage
  <2> QED BY <2>1, <2>2
<1>8. e[0] = e[1] + PkgLen(Len(q[1])) /\ PackageAt(cBuf, Back(dwTail, e[0]), q[1])
  <2>1. PICK k \in 1 .. Len(q) : k = 1
    BY <1>6
  <2>2. /\ e[k - 1] = e[k] + PkgLen(Len(q[k]))
        /\ PackageAt(cBuf, Back(dwTail, e[k - 1]), q[k])
    BY <1>3 DEF Packages
  <2>3. k - 1 = 0
    BY <2>1
  <2> QED BY <2>1, <2>2, <2>3
<1>9. PackageAt(cBuf, rHead, q[1])
  <2>1. Back(dwTail, Used(rHead, dwTail)) = rHead
    BY <1>1, BackUsed
  <2> QED BY <2>1, <1>2, <1>4, <1>8
<1>10. PICK p \in Nat : p = PkgLen(Len(q[1]))
  BY <1>7
<1>11. e[j] <= e[1]
  <2>1. 1 \in 0 .. j /\ j \in 0 .. Len(q)
    BY <1>6
  <2> QED BY <2>1, <1>3 DEF Packages
<1>12. Used(rTail, dwTail) \in Cells
  BY <1>1, BackUsed
<1>13. Used(rTail, dwTail) + p <= Used(rHead, dwTail)
  BY <1>2, <1>4, <1>7, <1>8, <1>10, <1>11, <1>12 DEF Cells
<1>14. rHead + p <= CHANNEL_BUF_LEN
  BY <1>9, <1>10 DEF PackageAt
<1>15. p <= BufLen(rHead, rTail)
  BY <1>1, <1>13, <1>14, SeenReaches
<1>16. p <= used /\ e[1] = used - p
  BY <1>4, <1>7, <1>8, <1>10 DEF Cells
<1> QED BY <1>2, <1>6, <1>7, <1>9, <1>10, <1>15, <1>16

\* ... so that none of the checks of GetPkg fails, but the room of the caller.
LEMMA ChecksPass ==
  ASSUME IInv, Getting, NEW q, Holds(q)
  PROVE  /\ q \in Seq(Bodies) /\ q # <<>> /\ 1 \in 1 .. Len(q) /\ q[1] \in Bodies
         /\ ~AtBoundary /\ ~TooShort /\ ~BadFlag
         /\ wLength(cBuf, rHead) = Len(q[1])
         /\ CopyOut(cBuf, rHead + HeadLen, Len(q[1])) = q[1]
         /\ ~(BufLen(rHead, rTail) < PkgLen(wLength(cBuf, rHead)))
<1>1. PICK e : /\ Packages(cBuf, dwTail, Used(dwHead, dwTail), q, e)
               /\ \E j \in 0 .. Len(q) : e[j] = Used(rTail, dwTail)
  BY DEF Holds, HoldsAt, SeenTail
<1>2. PICK j \in 0 .. Len(q) : e[j] = Used(rTail, dwTail)
  BY <1>1
<1>3. /\ 1 \in 1 .. Len(q) /\ q[1] \in Bodies
      /\ PackageAt(cBuf, rHead, q[1])
      /\ PkgLen(Len(q[1])) <= BufLen(rHead, rTail)
  BY <1>1, <1>2, FirstPackage
<1>4. q \in Seq(Bodies) /\ q # <<>>
  BY <1>1, <1>3 DEF Packages
<1>5. cFlag(cBuf, rHead) = START_TAG /\ wLength(cBuf, rHead) = Len(q[1])
      /\ CopyOut(cBuf, rHead + HeadLen, Len(q[1])) = q[1]
  BY <1>3 DEF PackageAt
<1>6. ~AtBoundary /\ ~BadFlag
  BY <1>5 DEF AtBoundary, BadFlag, cFlag, START_TAG, END_TAG
<1>7. PICK p \in Nat : p = PkgLen(Len(q[1])) /\ p >= HeadLen
  BY <1>3, BodyLen
<1>8. BufLen(rHead, rTail) \in Int
  BY BufLenAssumption DEF IInv, ReaderInv, BufLen, Cells
<1>9. ~TooShort
  BY <1>3, <1>7, <1>8 DEF TooShort, HeadLen
<1>10. ~(BufLen(rHead, rTail) < PkgLen(wLength(cBuf, rHead)))
  BY <1>3, <1>5, <1>7, <1>8
<1> QED BY <1>3, <1>4, <1>5, <1>6, <1>9, <1>10

\* What the ring holds is what Queue reads, before a step and after it.
LEMMA QueueRead ==
  ASSUME IInv, NEW q
  PROVE  Holds(q) => Queue = q /\ q \in Seq(Bodies)
BY HoldsIsRead DEF IInv, TypeOK, Holds, Queue

\* The same for what the ring holds after a step.
LEMMA QueueReadNext ==
  ASSUME IInv', NEW q, HoldsAt(cBuf', dwHead', dwTail', SeenTail', q)
  PROVE  Queue' = q /\ Holds(Queue)' /\ q \in Seq(Bodies)
<1>1. cBuf' \in Ring /\ dwHead' \in Cells /\ dwTail' \in Cells
  BY DEF IInv, TypeOK
<1>2. BodiesIn(cBuf', dwTail', Used(dwHead', dwTail')) = q /\ q \in Seq(Bodies)
  BY <1>1, HoldsIsRead
<1>3. Queue' = q
  BY <1>2 DEF Queue
<1>4. HoldsAt(cBuf', dwHead', dwTail', SeenTail', Queue')
  BY <1>3
<1> QED BY <1>2, <1>3, <1>4 DEF Holds

\* Publishing a package that was not wrapped appends it.
LEMMA PublishAppends ==
  ASSUME IInv, BytesInv, AddPublish, pTail = dwTail, NEW q, Holds(q),
         NEW body, body = pBody
  PROVE  body \in Bodies /\ HoldsAt(cBuf', dwHead', dwTail', SeenTail', Append(q, body))
<1>1. /\ dwHead \in Cells /\ dwTail \in Cells /\ body \in Bodies
      /\ Adding /\ pPc = "publish" /\ SeenTail \in SUBSET Cells
  BY DEF IInv, ReaderInv, BytesInv, Adding, AddPublish, SeenTail
<1>2. PICK p \in Nat : p = PkgLen(Len(body)) /\ p >= HeadLen
  BY <1>1, BodyLen
<1>3. ~Full(dwHead, dwTail, p) /\ pTail = Start(dwHead, dwTail, p)
  BY <1>1, <1>2 DEF IInv, WriterInv
<1>4. ~Wraps(dwHead, dwTail, p)
  BY <1>1, <1>2, <1>3, BufLenAssumption DEF Start, Wraps, Full, Cells
<1>5. dwTail + p <= CHANNEL_BUF_LEN
  BY <1>1, <1>2, <1>3, <1>4, UsedAppend
<1>6. PackageAt(cBuf, dwTail, body)
  BY <1>1, <1>2, <1>5 DEF PackageAt, BytesInv
<1>7. ASSUME NEW x \in SeenTail PROVE ~Full(x, dwTail, p) /\ ~Wraps(x, dwTail, p)
  <2>1. x = rTail /\ rTail \in Cells /\ Between(dwHead, rTail, dwTail)
    BY DEF SeenTail, IInv, ReaderInv
  <2> QED BY <1>1, <1>2, <1>3, <1>4, <2>1, StaysAccepted
<1>8. PICK head \in Cells, tail \in Cells, seen \in SUBSET Cells :
        head = dwHead /\ tail = dwTail /\ seen = SeenTail
  BY <1>1
<1>9. HoldsAt(cBuf, head, (tail + p) % CHANNEL_BUF_LEN, seen, Append(q, body))
  <2>1. HoldsAt(cBuf, head, tail, seen, q) /\ PackageAt(cBuf, tail, body)
    BY <1>6, <1>8 DEF Holds
  <2>2. ~Full(head, tail, p) /\ ~Wraps(head, tail, p)
    BY <1>3, <1>4, <1>8
  <2>3. \A x \in seen : ~Full(x, tail, p) /\ ~Wraps(x, tail, p)
    BY <1>7, <1>8
  <2> QED BY <1>1, <1>2, <2>1, <2>2, <2>3, HoldsAppended
<1>10. dwTail' = (tail + p) % CHANNEL_BUF_LEN /\ UNCHANGED <<dwHead, cBuf, cVars>>
  BY <1>2, <1>8 DEF AddPublish, NextTail
<1>11. SeenTail' = seen
  BY <1>8, <1>10 DEF SeenTail, Getting, cVars
<1> QED BY <1>1, <1>8, <1>9, <1>10, <1>11

\* GetPkg moves the head over the first package.
LEMMA AdvanceTakes ==
  ASSUME IInv, CallInv, GetAdvance, NEW q, Holds(q)
  PROVE  /\ q \in Seq(Bodies) /\ q # <<>>
         /\ HoldsAt(cBuf', dwHead', dwTail', SeenTail', Tail(q))
<1>1. Getting /\ cPc = "advance"
  BY DEF GetAdvance, Getting
<1>2. PICK e : /\ Packages(cBuf, dwTail, Used(dwHead, dwTail), q, e)
               /\ \E j \in 0 .. Len(q) : e[j] = Used(rTail, dwTail)
  BY <1>1 DEF Holds, HoldsAt, SeenTail
<1>3. PICK j \in 0 .. Len(q) : e[j] = Used(rTail, dwTail)
  BY <1>2
<1>4. /\ 1 \in 1 .. Len(q) /\ q[1] \in Bodies
      /\ PackageAt(cBuf, rHead, q[1])
      /\ PkgLen(Len(q[1])) <= Used(dwHead, dwTail)
      /\ e[1] = Used(dwHead, dwTail) - PkgLen(Len(q[1]))
  BY <1>1, <1>2, <1>3, FirstPackage
<1>5. q \in Seq(Bodies) /\ q # <<>> /\ Tail(q) = SubSeq(q, 2, Len(q)) /\ 1 \in 0 .. Len(q)
  BY <1>2, <1>4 DEF Packages
<1>6. PICK p \in Nat : p = PkgLen(Len(q[1]))
  BY <1>4, BodyLen
<1>7. PICK head \in Cells, tail \in Cells : head = dwHead /\ tail = dwTail /\ head = rHead
  BY <1>1 DEF IInv, ReaderInv
<1>8. p <= Used(head, tail) /\ head + p <= CHANNEL_BUF_LEN /\ e[1] = Used(head, tail) - p
  BY <1>4, <1>6, <1>7 DEF PackageAt
<1>9. iPkgLen = p
  BY <1>1, <1>4, <1>6 DEF CallInv, PackageAt
<1>10. dwHead' = (head + p) % CHANNEL_BUF_LEN /\ UNCHANGED <<dwTail, cBuf>> /\ ~Getting'
  BY <1>7, <1>9 DEF GetAdvance, StoreHead, NextHead, Getting
<1>11. PICK new \in Cells : new = (head + p) % CHANNEL_BUF_LEN
  <2>1. head + p \in 0 .. CHANNEL_BUF_LEN
    BY <1>8, BufLenAssumption DEF Cells
  <2>2. PICK x \in 0 .. CHANNEL_BUF_LEN : x = head + p
    BY <2>1
  <2>3. x % CHANNEL_BUF_LEN \in Cells
    BY ModuloLen, BufLenAssumption DEF Cells
  <2> QED BY <2>2, <2>3
<1>12. Used(new, tail) = Used(head, tail) - p
  BY <1>8, <1>11, UsedAdvance
<1>13. Packages(cBuf, tail, Used(head, tail), q, e) /\ e[1] = Used(new, tail)
  BY <1>2, <1>7, <1>8, <1>12
<1>14. HoldsAt(cBuf, new, tail, {}, SubSeq(q, 1 + 1, Len(q)))
  BY <1>5, <1>13, HoldsDropped
<1>15. SeenTail' = {}
  BY <1>10 DEF SeenTail
<1>16. SubSeq(q, 1 + 1, Len(q)) = Tail(q)
  BY <1>5
<1>17. dwHead' = new /\ dwTail' = tail /\ cBuf' = cBuf
  BY <1>7, <1>10, <1>11
<1> QED BY <1>5, <1>14, <1>15, <1>16, <1>17

\* GetPkg gives up every package before the tail it saw.
LEMMA FatalDrops ==
  ASSUME IInv, NEW ret, GetFatal(ret), NEW q, Holds(q)
  PROVE  /\ q \in Seq(Bodies)
         /\ \E n \in 1 .. Len(q) :
              HoldsAt(cBuf', dwHead', dwTail', SeenTail', SubSeq(q, n + 1, Len(q)))
<1>1. Getting
  BY DEF GetFatal, Getting
<1>2. PICK e : /\ Packages(cBuf, dwTail, Used(dwHead, dwTail), q, e)
               /\ \E j \in 0 .. Len(q) : e[j] = Used(rTail, dwTail)
  BY <1>1 DEF Holds, HoldsAt, SeenTail
<1>3. PICK j \in 0 .. Len(q) : e[j] = Used(rTail, dwTail)
  BY <1>2
<1>4. j \in 1 .. Len(q)
  BY <1>1, <1>2, <1>3, FirstPackage
<1>5. PICK head \in Cells, tail \in Cells, new \in Cells :
        head = dwHead /\ tail = dwTail /\ new = rTail
  BY <1>1 DEF IInv, ReaderInv
<1>6. Packages(cBuf, tail, Used(head, tail), q, e) /\ e[j] = Used(new, tail)
  BY <1>2, <1>3, <1>5
<1>7. HoldsAt(cBuf, new, tail, {}, SubSeq(q, j + 1, Len(q)))
  BY <1>6, HoldsDropped
<1>8. dwHead' = rTail /\ UNCHANGED <<dwTail, cBuf>> /\ ~Getting'
  BY DEF GetFatal, StoreHead, GivenUpTo, GetReturn, Getting
<1>9. SeenTail' = {}
  BY <1>8 DEF SeenTail
<1>10. HoldsAt(cBuf', dwHead', dwTail', SeenTail', SubSeq(q, j + 1, Len(q)))
  BY <1>5, <1>7, <1>8, <1>9
<1>11. q \in Seq(Bodies)
  BY <1>2 DEF Packages
<1> QED BY <1>4, <1>10, <1>11

\* Every other step of the two calls leaves the queue as it is.
LEMMA OthersKeep ==
  ASSUME IInv, [Next]_vars, UNCHANGED <<dwHead, dwTail>>, NEW q, Holds(q),
         Getting' => rTail' = dwTail \/ (Getting /\ rTail' = rTail)
  PROVE  HoldsAt(cBuf', dwHead', dwTail', SeenTail', q)
<1>1. dwHead \in Cells /\ dwTail \in Cells
  BY DEF IInv
<1>2. \A c \in Unread(dwHead, dwTail) \cap Cells : cBuf'[c] = cBuf[c]
  BY UnreadKept
<1>3. SeenTail' \subseteq SeenTail \cup {dwTail}
  BY DEF SeenTail
<1>4. HoldsAt(cBuf, dwHead, dwTail, SeenTail, q)
  BY DEF Holds
<1>5. HoldsAt(cBuf', dwHead, dwTail, SeenTail', q)
  BY <1>1, <1>2, <1>3, <1>4, HoldsKept
<1> QED BY <1>5

\* What the ring holds after a step; GetPkg gives packages up.
HoldsNext(q) == HoldsAt(cBuf', dwHead', dwTail', SeenTail', q)

GivesUp == \E ret : GetFatal(ret)

\* A step of AddPkg on a ring in order: it publishes in one piece, or wraps, or
\* moves no index.
LEMMA CleanWriter ==
  ASSUME IInv, BytesInv, Writer, ~dirty, NEW q, Holds(q)
  PROVE  \/ AddPublish /\ pTail # dwTail /\ dirty'
         \/ AddPublish /\ pTail = dwTail /\ ~dirty' /\ pBody \in Bodies /\ HoldsNext(Append(q, pBody))
         \/ ~AddPublish /\ ~dirty' /\ UNCHANGED <<dwHead, dwTail>> /\ HoldsNext(q)
<1>0. ~OutOfRange /\ pPc \notin {"fatal", "reset"}
  BY BufLenAssumption DEF OutOfRange, Cells, IInv
<1>1. CASE AddPublish /\ pTail # dwTail
  BY <1>1 DEF AddPublish
<1>2. CASE AddPublish /\ pTail = dwTail
  <2>1. PICK body : body = pBody
    OBVIOUS
  <2>2. body \in Bodies /\ HoldsAt(cBuf', dwHead', dwTail', SeenTail', Append(q, body))
    BY <1>2, <2>1, PublishAppends
  <2>3. ~dirty'
    BY <1>2 DEF AddPublish
  <2> QED BY <1>2, <2>1, <2>2, <2>3 DEF HoldsNext
<1>3. CASE ~AddPublish
  <2>1. UNCHANGED <<dwHead, dwTail, cVars, dirty>> /\ [Next]_vars
    BY <1>0, <1>3 DEF Writer, shared, history, AddFull, AddBegin, AddMark, AddHead, AddBody,
       AddCountLoad, AddCountStore, AddOutOfRange, AddResetTail, AddResetHead, Next
  <2>2. Getting' => Getting /\ rTail' = rTail
    BY <2>1 DEF Getting, cVars
  <2>3. HoldsAt(cBuf', dwHead', dwTail', SeenTail', q)
    BY <2>1, <2>2, OthersKeep
  <2>4. HoldsNext(q)
    BY <2>3 DEF HoldsNext
  <2> QED BY <1>3, <2>1, <2>4
<1> QED BY <1>1, <1>2, <1>3

\* A step of GetPkg on a ring in order: it takes the first package, or gives up
\* some for want of room, or moves no index.
LEMMA CleanReader ==
  ASSUME IInv, CallInv, Reader, ~dirty, NEW q, Holds(q)
  PROVE  /\ ~dirty'
         /\ \/ GetAdvance /\ q # <<>> /\ HoldsNext(Tail(q))
            \/ /\ GivesUp /\ q # <<>> /\ iBodyLen < Len(Head(q))
               /\ \E n \in 1 .. Len(q) : HoldsNext(SubSeq(q, n + 1, Len(q)))
            \/ /\ ~GetAdvance /\ ~GivesUp
               /\ UNCHANGED <<dwHead, dwTail>> /\ HoldsNext(q)
<1>0. ~OutOfRange /\ cPc \notin {"fatal", "reset"}
  BY BufLenAssumption DEF OutOfRange, Cells, IInv
<1>1. CASE GetAdvance
  <2>1. ~dirty'
    BY <1>1 DEF GetAdvance, StoreHead
  <2>2. q # <<>> /\ HoldsNext(Tail(q))
    BY <1>1, AdvanceTakes DEF HoldsNext
  <2> QED BY <1>1, <2>1, <2>2
<1>2. CASE GivesUp
  <2>1. PICK ret : GetFatal(ret)
    BY <1>2 DEF GivesUp
  <2>2. ~dirty' /\ Getting /\ cPc = "parse"
    BY <2>1 DEF GetFatal, StoreHead, Getting
  <2>3. GetTooShort \/ GetBadFlag \/ GetBadLen
    BY <1>0, <2>1, <2>2 DEF Reader, GetFatal, GetReturn, GetEmpty, GetBegin, GetBoundary, GetNoBoundary,
       GetParse, GetCopy, GetAdvance, GetCountLoad, GetCountStore, GetOutOfRange,
       GetResetTail, GetResetHead
  <2>4. /\ q \in Seq(Bodies) /\ q # <<>> /\ ~TooShort /\ ~BadFlag
        /\ wLength(cBuf, rHead) = Len(q[1])
        /\ ~(BufLen(rHead, rTail) < PkgLen(wLength(cBuf, rHead)))
    BY <2>2, ChecksPass
  <2>5. iBodyLen < Len(q[1])
    BY <2>3, <2>4 DEF GetTooShort, GetBadFlag, GetBadLen, BadLen
  <2>6. \E n \in 1 .. Len(q) : HoldsNext(SubSeq(q, n + 1, Len(q)))
    BY <2>1, FatalDrops DEF HoldsNext
  <2>7. q[1] = Head(q)
    BY <2>4
  <2> QED BY <1>2, <2>2, <2>4, <2>5, <2>6, <2>7
<1>3. CASE ~GetAdvance /\ ~GivesUp
  <2>1. ~GetBoundary
    <3>1. GetBoundary => Getting /\ AtBoundary
      BY DEF GetBoundary, Getting
    <3> QED BY <3>1, ChecksPass
  <2>2. /\ UNCHANGED <<dwHead, dwTail, dirty>> /\ [Next]_vars
        /\ Getting' => rTail' = dwTail \/ (Getting /\ rTail' = rTail)
    BY <1>0, <1>3, <2>1 DEF GivesUp, Reader, shared, history, GetEmpty, GetBegin, GetNoBoundary,
       GetTooShort, GetBadFlag, GetBadLen, GetParse, GetCopy, GetCountLoad, GetCountStore,
       GetOutOfRange, GetResetTail, GetResetHead, GetReturn, Getting, Next
  <2>3. HoldsAt(cBuf', dwHead', dwTail', SeenTail', q)
    BY <2>2, OthersKeep
  <2>4. HoldsNext(q)
    BY <2>3 DEF HoldsNext
  <2> QED BY <1>3, <2>2, <2>4
<1> QED BY <1>1, <1>2, <1>3

\* A crash and a stuttering step move no index.
LEMMA CleanOther ==
  ASSUME IInv, CrashWriter \/ CrashReader \/ UNCHANGED vars, ~dirty, NEW q, Holds(q)
  PROVE  ~dirty' /\ UNCHANGED <<dwHead, dwTail>> /\ HoldsNext(q)
<1>1. /\ UNCHANGED <<dwHead, dwTail, dirty>> /\ [Next]_vars
      /\ Getting' => Getting /\ rTail' = rTail
  BY DEF CrashWriter, CrashReader, GetReturn, vars, shared, cVars, history, Getting, Next
<1>2. HoldsAt(cBuf', dwHead', dwTail', SeenTail', q)
  BY <1>1, OthersKeep
<1>3. HoldsNext(q)
  BY <1>2 DEF HoldsNext
<1> QED BY <1>1, <1>3

\* A ring that was not in order stays so until GetPkg finds it empty.
LEMMA DirtyStep ==
  ASSUME IInv, [Next]_vars, dirty, ~dirty'
  PROVE  /\ Reader /\ HoldsNext(<<>>)
         /\ ~Getting' /\ countOff' /\ UNCHANGED <<iBodyLen, got>>
<1>0. /\ ~OutOfRange /\ pPc \notin {"fatal", "reset"} /\ cPc \notin {"fatal", "reset"}
      /\ dwHead \in Cells /\ dwTail \in Cells
  BY BufLenAssumption DEF OutOfRange, Cells, IInv
<1>2. dwHead' = dwTail /\ UNCHANGED <<dwTail, iBodyLen, got>> /\ ~Getting' /\ countOff' /\ Reader
  <2>1. CASE GetAdvance
    BY <2>1 DEF GetAdvance, StoreHead, Getting, Reader
  <2>2. CASE GetTooShort \/ GetBadFlag \/ GetBadLen
    BY <2>2 DEF GetTooShort, GetBadFlag, GetBadLen, GetFatal, StoreHead, GetReturn, Getting, Reader
  <2>3. CASE GetBoundary
    <3>1. dwTail = 0 /\ dwHead' = 0
      BY <2>3 DEF GetBoundary, StoreHead
    <3>2. rTail = 0
      BY <1>0, <2>3, <3>1 DEF GetBoundary, AtBoundary, IInv, ReaderInv, Getting, Between, Cells
    <3> QED BY <2>3, <3>1, <3>2 DEF GetBoundary, GetReturn, Getting, Reader
  <2>4. CASE ~GetAdvance /\ ~GetTooShort /\ ~GetBadFlag /\ ~GetBadLen /\ ~GetBoundary
    <3>1. UNCHANGED dirty \/ dirty'
      BY <1>0, <2>4 DEF Next, vars, shared, cVars, history, CrashWriter, CrashReader,
         Writer, AddFull, AddBegin, AddMark, AddHead, AddBody, AddPublish,
         AddCountLoad, AddCountStore, AddOutOfRange, AddResetTail, AddResetHead,
         Reader, GetEmpty, GetBegin, GetNoBoundary, GetParse, GetCopy, GetCountLoad,
         GetCountStore, GetOutOfRange, GetResetTail, GetResetHead
    <3> QED BY <3>1
  <2> QED BY <2>1, <2>2, <2>3, <2>4
<1>3. SeenTail' = {}
  BY <1>2 DEF SeenTail
<1>4. PICK head \in Cells : head = dwHead' /\ head = dwTail'
  BY <1>0, <1>2
<1>5. HoldsAt(cBuf', head, head, {}, <<>>)
  BY HoldsNothing
<1>6. HoldsNext(<<>>)
  BY <1>3, <1>4, <1>5 DEF HoldsNext
<1> QED BY <1>2, <1>6

\* After any step the ring is in order, or dirty is TRUE.
LEMMA CleanNext ==
  ASSUME IInv, BytesInv, CallInv, QueueInv, [Next]_vars, ~dirty'
  PROVE  \E q : HoldsNext(q)
<1>1. CASE dirty
  BY <1>1, DirtyStep
<1>2. CASE ~dirty
  <2>1. PICK q : Holds(q)
    BY <1>2 DEF QueueInv
  <2>2. CASE Writer
    BY <1>2, <2>1, <2>2, CleanWriter
  <2>3. CASE Reader
    BY <1>2, <2>1, <2>3, CleanReader
  <2>4. CASE CrashWriter \/ CrashReader \/ UNCHANGED vars
    BY <1>2, <2>1, <2>4, CleanOther
  <2> QED BY <2>2, <2>3, <2>4 DEF Next
<1> QED BY <1>1, <1>2

\* A step that leaves dirty FALSE leaves the ring in order.
LEMMA QueueKept ==
  ASSUME IInv, BytesInv, CallInv, QueueInv, [Next]_vars
  PROVE  QueueInv'
<1>1. SUFFICES ASSUME ~dirty' PROVE Holds(Queue)'
  BY DEF QueueInv
<1>2. PICK q : HoldsNext(q)
  BY <1>1, CleanNext
<1>3. IInv'
  BY NextKeepsIInv
<1> QED BY <1>2, <1>3, QueueReadNext DEF HoldsNext

\* Every step keeps the invariant of the contents.
LEMMA NextKeepsFInv ==
  ASSUME ShortBuffer, IInv, FInv, [Next]_vars
  PROVE  FInv'
BY NextKeepsBytes, NextKeepsCall, QueueKept DEF FInv

\* A new segment holds no package.
LEMMA InitQueue ==
  ASSUME InRangeSegment, Init, ~dirty
  PROVE  Holds(Queue) /\ Queue = <<>>
<1>1. dwHead = 0 /\ dwTail = 0
  <2>1. PICK i \in Cells \X Cells : dwHead = i[1] /\ dwTail = i[2] /\ dirty = (i # <<0, 0>>)
    BY DEF Init, InRangeSegment
  <2>2. i = <<0, 0>>
    BY <2>1, Zenon
  <2> QED BY <2>1, <2>2
<1>2. SeenTail = {} /\ 0 \in Cells
  BY BufLenAssumption DEF Init, SeenTail, Getting, Cells
<1>3. HoldsAt(cBuf, 0, 0, {}, <<>>)
  BY <1>2, HoldsNothing
<1>4. PICK q : q = <<>>
  OBVIOUS
<1>5. Holds(q)
  BY <1>1, <1>2, <1>3, <1>4 DEF Holds
<1>6. Queue = q
  BY <1>5, QueueRead, InitIInv
<1> QED BY <1>4, <1>5, <1>6 DEF Holds

\* The invariant of the contents holds at the start, in a segment old or new.
LEMMA InitFInv ==
  ASSUME InRangeSegment, Init
  PROVE  FInv
<1>1. BytesInv /\ CallInv
  BY DEF Init, BytesInv, CallInv, Adding
<1> QED BY <1>1, InitQueue DEF FInv, QueueInv

\* In every reachable state the bytes between head and tail are whole packages,
\* unless one was wrapped or the segment was in use at the start.
THEOREM FInvariance ==
  ASSUME InRangeSegment, ShortBuffer
  PROVE  Spec => []FInv
<1>1. Init => FInv
  BY InitFInv
<1>2. IInv /\ FInv /\ [Next]_vars => FInv'
  BY NextKeepsFInv
<1> QED BY <1>1, <1>2, Invariance, PTL DEF Spec

------------------------------------------------------------------------------
(***************************************************************************)
(* The FIFO: each step of the ring is a step of ChannelFifo or none.       *)
(***************************************************************************)
\* A step from a ring in order to a ring in order leaves in it what the lemmas
\* above say.
LEMMA NextQueue ==
  ASSUME IInv, [Next]_vars, NEW q, HoldsNext(q)
  PROVE  Queue' = q
<1>1. IInv'
  BY NextKeepsIInv
<1> QED BY <1>1, QueueReadNext DEF HoldsNext

\* The history variable before and after a step that leaves the ring in order.
LEMMA StaysClean ==
  ASSUME IInv, [Next]_vars, ~dirty, ~dirty'
  PROVE  dirty' = dirty
<1>1. IInv'
  BY NextKeepsIInv
<1>2. dirty \in BOOLEAN /\ dirty' \in BOOLEAN
  BY <1>1 DEF IInv, TypeOK
<1> QED BY <1>2, Zenon

\* A new segment is an empty FIFO, one that was in use is a broken one.
LEMMA RefinesInit ==
  ASSUME InRangeSegment, Init
  PROVE  Fifo!FifoInit
<1>1. ASSUME ~dirty PROVE Queue = <<>>
  BY <1>1, InitQueue
<1>2. dirty \in BOOLEAN
  BY DEF Init
<1> QED BY <1>1, <1>2 DEF Init, Fifo!FifoInit

\* AddPkg puts a body when it stores the tail, or breaks the FIFO by wrapping.
LEMMA RefinesWriter ==
  ASSUME IInv, FInv, Writer, ~dirty
  PROVE  [Fifo!FifoNext]_(Fifo!fifoVars)
<1>1. PICK q : q = Queue /\ Holds(q)
  BY DEF FInv, QueueInv
<1>2. UNCHANGED <<iBodyLen, got, cPc>> /\ [Next]_vars
  BY DEF Writer, cVars, AddFull, AddBegin, AddMark, AddHead, AddBody, AddPublish,
     AddCountLoad, AddCountStore, AddOutOfRange, AddResetTail, AddResetHead, Next
<1>3. CASE AddPublish /\ pTail # dwTail /\ dirty'
  <2>1. Fifo!Break
    BY <1>2, <1>3 DEF Fifo!Break
  <2> QED BY <2>1 DEF Fifo!FifoNext
<1>4. CASE AddPublish /\ pTail = dwTail /\ ~dirty' /\ pBody \in Bodies /\ HoldsNext(Append(q, pBody))
  <2>1. Queue' = Append(q, pBody)
    <3>1. PICK r : r = Append(q, pBody)
      OBVIOUS
    <3> QED BY <1>2, <1>4, <3>1, NextQueue
  <2>2. dirty' = dirty
    BY <1>2, <1>4, StaysClean
  <2>3. Fifo!Put(pBody)
    BY <1>1, <1>2, <2>1, <2>2 DEF Fifo!Put
  <2> QED BY <1>4, <2>3 DEF Fifo!FifoNext
<1>5. CASE ~AddPublish /\ ~dirty' /\ UNCHANGED <<dwHead, dwTail>> /\ HoldsNext(q)
  <2>1. Queue' = q
    BY <1>2, <1>5, NextQueue
  <2>2. dirty' = dirty
    BY <1>2, <1>5, StaysClean
  <2> QED BY <1>1, <1>2, <2>1, <2>2 DEF Fifo!fifoVars
<1> QED BY <1>1, <1>3, <1>4, <1>5, CleanWriter DEF FInv

\* GetPkg asks, copies, takes or drops.
LEMMA RefinesReader ==
  ASSUME IInv, FInv, Reader, ~dirty
  PROVE  [Fifo!FifoNext]_(Fifo!fifoVars)
<1>1. PICK q : q = Queue /\ Holds(q)
  BY DEF FInv, QueueInv
<1>2. [Next]_vars /\ ~dirty'
  BY <1>1, CleanReader DEF Next, FInv
<1>3. dirty' = dirty
  BY <1>2, StaysClean
<1>4. CASE GetAdvance /\ q # <<>> /\ HoldsNext(Tail(q))
  <2>1. Queue' = Tail(q)
    <3>1. PICK r : r = Tail(q)
      OBVIOUS
    <3> QED BY <1>2, <1>4, <3>1, NextQueue
  <2>2. cPc = "advance" /\ cPc' = "count" /\ UNCHANGED <<iBodyLen, got>>
    BY <1>4 DEF GetAdvance
  <2>3. Fifo!Take
    BY <1>1, <1>2, <1>3, <2>1, <2>2 DEF Fifo!Take
  <2> QED BY <2>3 DEF Fifo!FifoNext
<1>5. CASE /\ GivesUp /\ q # <<>> /\ iBodyLen < Len(Head(q))
           /\ \E n \in 1 .. Len(q) : HoldsNext(SubSeq(q, n + 1, Len(q)))
  <2>1. PICK n \in 1 .. Len(q) : HoldsNext(SubSeq(q, n + 1, Len(q)))
    BY <1>5
  <2>2. Queue' = SubSeq(q, n + 1, Len(q))
    <3>1. PICK r : r = SubSeq(q, n + 1, Len(q))
      OBVIOUS
    <3> QED BY <1>2, <2>1, <3>1, NextQueue
  <2>3. cPc = "parse" /\ cPc' = "idle" /\ UNCHANGED <<iBodyLen, got>>
    BY <1>5 DEF GivesUp, GetFatal, GetReturn
  <2>4. q \in Seq(Bodies) /\ Len(Head(q)) > iBodyLen
    <3>1. q \in Seq(Bodies)
      BY <1>1, QueueRead
    <3>2. Head(q) \in Seq(Byte)
      BY <1>5, <3>1, ChannelAssumption
    <3>3. Len(Head(q)) \in Nat /\ iBodyLen \in Nat
      BY <3>2 DEF IInv, TypeOK
    <3> QED BY <1>5, <3>1, <3>3
  <2>5. Fifo!Drop
    BY <1>1, <1>2, <1>3, <1>5, <2>2, <2>3, <2>4 DEF Fifo!Drop
  <2> QED BY <2>5 DEF Fifo!FifoNext
<1>6. CASE /\ ~GetAdvance /\ ~GivesUp
           /\ UNCHANGED <<dwHead, dwTail>> /\ HoldsNext(q)
  <2>1. Queue' = q
    BY <1>2, <1>6, NextQueue
  <2>2. CASE \E cap \in Caps : GetEmpty(cap) \/ GetBegin(cap)
    <3>1. PICK cap \in Caps : GetEmpty(cap) \/ GetBegin(cap)
      BY <2>2
    <3>2. cPc = "idle" /\ cPc' \in {"idle", "boundary"} /\ iBodyLen' = cap /\ got' = got
      BY <3>1 DEF GetEmpty, GetBegin, GetReturn
    <3>3. Fifo!Ask(cap)
      BY <1>1, <1>2, <1>3, <2>1, <3>2 DEF Fifo!Ask
    <3> QED BY <3>3 DEF Fifo!FifoNext
  <2>3. CASE GetCopy
    <3>1. /\ cPc = "copy" /\ cPc' = "advance" /\ Getting /\ iBodyLen' = wLength(cBuf, rHead)
          /\ got' = CopyOut(cBuf, rHead + HeadLen, wLength(cBuf, rHead))
      BY <2>3 DEF GetCopy, Getting
    <3>2. /\ q \in Seq(Bodies) /\ q # <<>> /\ wLength(cBuf, rHead) = Len(q[1])
          /\ CopyOut(cBuf, rHead + HeadLen, Len(q[1])) = q[1]
      BY <1>1, <3>1, ChecksPass
    <3>3. wLength(cBuf, rHead) <= iBodyLen
      BY <3>1 DEF FInv, CallInv
    <3>4. Head(q) = q[1]
      BY <3>2
    <3>5. Fifo!Copy
      BY <1>1, <1>2, <1>3, <2>1, <3>1, <3>2, <3>3, <3>4 DEF Fifo!Copy
    <3> QED BY <3>5 DEF Fifo!FifoNext
  <2>4. CASE ~GetCopy /\ ~(\E cap \in Caps : GetEmpty(cap) \/ GetBegin(cap))
    <3>1. cPc # "advance" /\ cPc' # "advance" /\ UNCHANGED <<iBodyLen, got>>
      BY <1>6, <2>4 DEF GivesUp, GetReturn, Reader, GetBoundary, GetNoBoundary, GetTooShort,
         GetBadFlag, GetBadLen, GetParse, GetAdvance, GetCountLoad,
         GetCountStore, GetOutOfRange, GetResetTail, GetResetHead
    <3> QED BY <1>1, <1>2, <1>3, <2>1, <3>1 DEF Fifo!fifoVars
  <2> QED BY <2>2, <2>3, <2>4
<1> QED BY <1>1, <1>4, <1>5, <1>6, CleanReader DEF FInv

\* The crash of the reader restarts the taker, that of the writer is not seen.
LEMMA RefinesOther ==
  ASSUME IInv, FInv, CrashWriter \/ CrashReader \/ UNCHANGED vars, ~dirty
  PROVE  [Fifo!FifoNext]_(Fifo!fifoVars)
<1>1. PICK q : q = Queue /\ Holds(q)
  BY DEF FInv, QueueInv
<1>2. [Next]_vars /\ ~dirty' /\ HoldsNext(q)
  BY <1>1, CleanOther DEF Next
<1>3. Queue' = q
  BY <1>2, NextQueue
<1>4. dirty' = dirty
  BY <1>2, StaysClean
<1>5. CASE CrashReader
  <2>1. iBodyLen' = 0 /\ got' = <<>> /\ cPc' = "idle"
    BY <1>5 DEF CrashReader, GetReturn
  <2>2. Fifo!Restart
    BY <1>1, <1>2, <1>3, <1>4, <2>1 DEF Fifo!Restart
  <2> QED BY <2>2 DEF Fifo!FifoNext
<1>6. CASE CrashWriter \/ UNCHANGED vars
  <2>1. UNCHANGED <<iBodyLen, got, cPc>>
    BY <1>6 DEF CrashWriter, vars, cVars
  <2> QED BY <1>1, <1>3, <1>4, <2>1 DEF Fifo!fifoVars
<1> QED BY <1>5, <1>6

\* A broken FIFO may do anything; it mends when GetPkg finds the ring empty.
LEMMA RefinesDirty ==
  ASSUME IInv, [Next]_vars, dirty
  PROVE  [Fifo!FifoNext]_(Fifo!fifoVars)
<1>1. IInv'
  BY NextKeepsIInv
<1>2. CASE dirty'
  <2>1. PICK s \in Seq(Byte) : s = got' /\ iBodyLen' \in Nat
    BY <1>1 DEF IInv, TypeOK
  <2>2. Byte \subseteq Nat
    BY DEF Byte
  <2>3. s \in Seq(Nat)
    BY <2>2, SeqMonotonic
  <2>4. Fifo!Anything
    BY <1>2, <2>1, <2>3 DEF Fifo!Anything
  <2> QED BY <2>4 DEF Fifo!FifoNext
<1>3. CASE ~dirty'
  <2>1. HoldsNext(<<>>) /\ cPc' # "advance" /\ UNCHANGED <<iBodyLen, got>>
    BY <1>3, DirtyStep DEF Getting
  <2>2. Queue' = <<>>
    <3>1. PICK r : r = <<>>
      OBVIOUS
    <3> QED BY <2>1, <3>1, NextQueue
  <2>3. Fifo!Mend
    BY <1>3, <2>1, <2>2 DEF Fifo!Mend
  <2> QED BY <2>3 DEF Fifo!FifoNext
<1> QED BY <1>2, <1>3

\* Every step of the ring is a step of the FIFO, or none.
LEMMA RefinesStep ==
  ASSUME IInv, FInv, [Next]_vars
  PROVE  [Fifo!FifoNext]_(Fifo!fifoVars)
BY RefinesWriter, RefinesReader, RefinesOther, RefinesDirty DEF Next

\* The ring implements the FIFO: whatever the interleaving of the two calls and
\* their crashes, each body comes out once, complete and in order, until a
\* package is wrapped.
THEOREM RingIsFifo ==
  ASSUME InRangeSegment, ShortBuffer
  PROVE  Spec => FifoUntilWrap
<1>1. Init => Fifo!FifoInit
  BY RefinesInit
<1>2. IInv /\ FInv /\ [Next]_vars => [Fifo!FifoNext]_(Fifo!fifoVars)
  BY RefinesStep
<1> QED BY <1>1, <1>2, Invariance, FInvariance, PTL DEF Spec, FifoUntilWrap, Fifo!FifoSpec

------------------------------------------------------------------------------
(***************************************************************************)
(* The counter: dwTotalPkgs and the updates that the two calls have yet to *)
(* make add up to the number of packages.                                  *)
(***************************************************************************)
\* A number has a quotient and a remainder ...
LEMMA Divided ==
  ASSUME NEW a \in Int, NEW P \in Nat \ {0}
  PROVE  \E q \in Int, r \in 0 .. P - 1 : a % P = r /\ a = P * q + r
<1>1. /\ a \div P \in Int /\ a % P \in 0 .. P - 1
      /\ a = P * (a \div P) + (a % P)
  BY DivMod
<1> WITNESS a \div P \in Int, a % P \in 0 .. P - 1
<1> QED BY <1>1

\* ... and a number computed modulo M may be reduced before or after an addition.
LEMMA ModAdd ==
  ASSUME NEW a \in Int, NEW d \in Int, NEW M \in Nat \ {0}
  PROVE  ((a % M) + d) % M = (a + d) % M
<1>1. PICK q \in Int, r \in 0 .. M - 1 : a % M = r /\ a = M * q + r
  BY Divided
<1>2. PICK b \in Int : b = r + d
  OBVIOUS
<1>3. PICK p \in Int, s \in 0 .. M - 1 : b % M = s /\ b = M * p + s
  BY Divided
<1>4. M * (q + p) = M * q + M * p
  OBVIOUS
<1>5. M * q \in Int /\ M * p \in Int
  OBVIOUS
<1>6. PICK c \in Int, k \in Int : c = a + d /\ k = q + p
  OBVIOUS
<1>7. c = M * k + s
  BY <1>1, <1>2, <1>3, <1>4, <1>5, <1>6
<1>8. c % M = s
  BY <1>7, Unique
<1> QED BY <1>1, <1>2, <1>3, <1>6, <1>8

\* Both updates of the counter.
LEMMA ModUpDown ==
  ASSUME NEW a \in Int, NEW M \in Nat \ {0}
  PROVE  /\ ((a % M) + 1) % M = (a + 1) % M
         /\ ((a % M) - 1) % M = (a - 1) % M
<1>1. PICK d \in Int : d = 1
  OBVIOUS
<1>2. PICK e \in Int : e = -1
  OBVIOUS
<1>3. ((a % M) + d) % M = (a + d) % M
  BY ModAdd
<1>4. ((a % M) + e) % M = (a + e) % M
  BY ModAdd
<1>5. a % M \in Int
  OBVIOUS
<1>6. (a % M) + e = (a % M) - 1 /\ a + e = a - 1
  BY <1>2, <1>5
<1> QED BY <1>1, <1>3, <1>4, <1>6

\* The number of packages in a ring in order.
LEMMA QueueLen ==
  ASSUME IInv, FInv, ~dirty
  PROVE  Holds(Queue) /\ Queue \in Seq(Bodies) /\ Len(Queue) \in Nat
<1>1. PICK q : q = Queue /\ Holds(q)
  BY DEF FInv, QueueInv
<1>2. q \in Seq(Bodies)
  BY <1>1, QueueRead
<1>3. Len(q) \in Nat
  BY <1>2
<1> QED BY <1>1, <1>2, <1>3

\* AddPkg counts a package after it has published it ...
LEMMA WriterCounts ==
  ASSUME IInv, FInv, Writer, ~dirty, ~dirty', ~countOff'
  PROVE  LET due  == Pending(cPc) - Pending(pPc)
             due2 == Pending(cPc') - Pending(pPc')
         IN  \E d \in {0, 1} :
               /\ dwTotalPkgs' = IF d = 0 THEN dwTotalPkgs ELSE (dwTotalPkgs + 1) % COUNT_MOD
               /\ Len(Queue') + due2 = Len(Queue) + due + d
<1>1. PICK q \in Seq(Bodies) : q = Queue /\ Holds(q) /\ Len(q) \in Nat
  BY QueueLen
<1>2. cPc' = cPc /\ [Next]_vars
  BY DEF Writer, cVars, AddFull, AddBegin, AddMark, AddHead, AddBody, AddPublish,
     AddCountLoad, AddCountStore, AddOutOfRange, AddResetTail, AddResetHead, Next
<1>3. PICK c \in {0, 1} : c = Pending(cPc) /\ c = Pending(cPc')
  BY <1>2 DEF Pending
<1>4. CASE AddPublish
  <2>1. HoldsNext(Append(q, pBody))
    BY <1>1, <1>4, CleanWriter DEF FInv
  <2>2. Queue' = Append(q, pBody)
    <3>1. PICK r : r = Append(q, pBody)
      OBVIOUS
    <3> QED BY <1>2, <2>1, <3>1, NextQueue
  <2>3. Len(Queue') = Len(q) + 1
    BY <2>2
  <2>4. Pending(pPc) = 0 /\ Pending(pPc') = 1 /\ dwTotalPkgs' = dwTotalPkgs
    BY <1>4 DEF AddPublish, Pending
  <2> QED BY <1>1, <1>3, <2>3, <2>4
<1>5. CASE ~AddPublish
  <2>1. HoldsNext(q)
    BY <1>1, <1>5, CleanWriter DEF FInv
  <2>2. Queue' = q
    BY <1>2, <2>1, NextQueue
  <2>3. CASE AddCountStore
    <3>1. Pending(pPc) = 1 /\ Pending(pPc') = 0
      BY <2>3 DEF AddCountStore, AddReturn, Pending
    <3>2. dwTotalPkgs' = (dwTotalPkgs + 1) % COUNT_MOD
      BY <2>3 DEF AddCountStore
    <3> QED BY <1>1, <1>3, <2>2, <3>1, <3>2
  <2>4. CASE ~AddCountStore
    <3>1. ~OutOfRange /\ pPc \notin {"fatal", "reset"}
      BY BufLenAssumption DEF OutOfRange, Cells, IInv
    <3>2. dwTotalPkgs' = dwTotalPkgs /\ Pending(pPc) = Pending(pPc') /\ Pending(pPc) \in {0, 1}
      BY <1>5, <2>4, <3>1 DEF Writer, shared, AddReturn, AddFull, AddBegin, AddMark, AddHead, AddBody,
         AddCountLoad, AddOutOfRange, AddResetTail, AddResetHead, Pending
    <3> QED BY <1>1, <1>3, <2>2, <3>2
  <2> QED BY <2>3, <2>4
<1> QED BY <1>4, <1>5

\* ... and GetPkg after it has moved the head ...
LEMMA ReaderCounts ==
  ASSUME IInv, FInv, Reader, ~dirty, ~countOff'
  PROVE  LET due  == Pending(cPc) - Pending(pPc)
             due2 == Pending(cPc') - Pending(pPc')
         IN  \E d \in {0, 1} :
               /\ dwTotalPkgs' = IF d = 0 THEN dwTotalPkgs ELSE (dwTotalPkgs - 1) % COUNT_MOD
               /\ Len(Queue') + due2 = Len(Queue) + due - d
<1>1. PICK q \in Seq(Bodies) : q = Queue /\ Holds(q) /\ Len(q) \in Nat
  BY QueueLen
<1>2. pPc' = pPc /\ [Next]_vars
  BY DEF Reader, pVars, GetEmpty, GetBegin, GetBoundary, GetNoBoundary, GetTooShort,
     GetBadFlag, GetBadLen, GetFatal, GetParse, GetCopy, GetAdvance, GetCountLoad,
     GetCountStore, GetOutOfRange, GetResetTail, GetResetHead, Next
<1>3. PICK p \in {0, 1} : p = Pending(pPc) /\ p = Pending(pPc')
  BY <1>2 DEF Pending
<1>4. CASE GetAdvance
  <2>1. q # <<>> /\ HoldsNext(Tail(q))
    <3>1. ~GivesUp
      BY <1>4 DEF GetAdvance, GivesUp, GetFatal
    <3> QED BY <1>1, <1>4, <3>1, CleanReader DEF FInv
  <2>2. Queue' = Tail(q)
    <3>1. PICK r : r = Tail(q)
      OBVIOUS
    <3> QED BY <1>2, <2>1, <3>1, NextQueue
  <2>3. Len(Queue') = Len(q) - 1
    BY <2>1, <2>2
  <2>4. Pending(cPc) = 0 /\ Pending(cPc') = 1 /\ dwTotalPkgs' = dwTotalPkgs
    BY <1>4 DEF GetAdvance, Pending
  <2> QED BY <1>1, <1>3, <2>3, <2>4
<1>5. CASE ~GetAdvance
  <2>1. ~GivesUp
    BY DEF GivesUp, GetFatal
  <2>2. HoldsNext(q)
    BY <1>1, <1>5, <2>1, CleanReader DEF FInv
  <2>3. Queue' = q
    BY <1>2, <2>2, NextQueue
  <2>4. CASE GetCountStore
    <3>1. Pending(cPc) = 1 /\ Pending(cPc') = 0
      BY <2>4 DEF GetCountStore, GetReturn, Pending
    <3>2. dwTotalPkgs' = (dwTotalPkgs - 1) % COUNT_MOD
      BY <2>4 DEF GetCountStore, Decrement
    <3> QED BY <1>1, <1>3, <2>3, <3>1, <3>2
  <2>5. CASE ~GetCountStore
    <3>1. ~OutOfRange /\ cPc \notin {"fatal", "reset"}
      BY BufLenAssumption DEF OutOfRange, Cells, IInv
    <3>2. dwTotalPkgs' = dwTotalPkgs /\ Pending(cPc) = Pending(cPc') /\ Pending(cPc) \in {0, 1}
      BY <1>5, <2>1, <2>5, <3>1 DEF GivesUp, Reader, shared, GetReturn, GetEmpty, GetBegin,
         GetBoundary, GetNoBoundary, GetTooShort, GetBadFlag, GetBadLen, GetParse, GetCopy,
         GetCountLoad, GetOutOfRange, GetResetTail, GetResetHead, Pending
    <3> QED BY <1>1, <1>3, <2>3, <3>2
  <2> QED BY <2>4, <2>5
<1> QED BY <1>4, <1>5

\* ... and a crash that leaves an update undone sets countOff.
LEMMA OtherCounts ==
  ASSUME IInv, FInv, CrashWriter \/ CrashReader \/ UNCHANGED vars, ~dirty, ~countOff'
  PROVE  /\ UNCHANGED <<dwTotalPkgs, Queue>>
         /\ Pending(cPc') = Pending(cPc) /\ Pending(pPc') = Pending(pPc)
<1>1. PICK q \in Seq(Bodies) : q = Queue /\ Holds(q)
  BY QueueLen
<1>2. [Next]_vars /\ HoldsNext(q)
  BY <1>1, CleanOther DEF Next
<1>3. Queue' = q
  BY <1>2, NextQueue
<1>4. dwTotalPkgs' = dwTotalPkgs /\ Pending(cPc') = Pending(cPc) /\ Pending(pPc') = Pending(pPc)
  BY DEF CrashWriter, CrashReader, AddReturn, GetReturn, vars, shared, pVars, cVars, Pending
<1> QED BY <1>1, <1>3, <1>4

\* The number of packages after a step.
LEMMA QueueLenNext ==
  ASSUME IInv, FInv, [Next]_vars, ~dirty'
  PROVE  Len(Queue') \in Nat
<1>1. PICK q : HoldsNext(q)
  BY CleanNext DEF FInv
<1>2. IInv'
  BY NextKeepsIInv
<1>3. Queue' = q /\ q \in Seq(Bodies)
  BY <1>1, <1>2, QueueReadNext DEF HoldsNext
<1> QED BY <1>3

\* An error of the counter is never corrected.
LEMMA CountOffStays ==
  ASSUME IInv, [Next]_vars, countOff
  PROVE  countOff'
BY DEF Next, vars, history, CrashWriter, CrashReader, Writer, AddFull, AddBegin, AddMark, AddHead,
   AddBody, AddPublish, AddCountLoad, AddCountStore, AddOutOfRange, AddResetTail, AddResetHead,
   Reader, GetEmpty, GetBegin, GetBoundary, GetNoBoundary, GetTooShort,
   GetBadFlag, GetBadLen, GetFatal, GetParse, GetCopy, GetAdvance, GetCountLoad,
   GetCountStore, GetOutOfRange, GetResetTail, GetResetHead

\* The counter, the packages and the updates that are due stay in balance.
LEMMA NextKeepsCount ==
  ASSUME IInv, FInv, CountInv, [Next]_vars
  PROVE  CountInv'
<1>1. SUFFICES ASSUME ~dirty', ~countOff'
               PROVE  dwTotalPkgs' = (Len(Queue') + Pending(cPc') - Pending(pPc')) % COUNT_MOD
  BY DEF CountInv
<1>2. IInv'
  BY NextKeepsIInv
<1>3. CASE dirty
  BY <1>1, <1>3, DirtyStep
<1>4. CASE countOff
  BY <1>1, <1>4, CountOffStays
<1>5. CASE ~dirty /\ ~countOff
  <2>1. dwTotalPkgs = (Len(Queue) + Pending(cPc) - Pending(pPc)) % COUNT_MOD
    BY <1>5 DEF CountInv
  <2>5. Len(Queue) \in Int /\ Pending(cPc) \in Int /\ Pending(pPc) \in Int
    BY <1>5, QueueLen DEF Pending
  <2>2. PICK a \in Int : a = Len(Queue) + Pending(cPc) - Pending(pPc)
    BY <2>5
  <2>a. dwTotalPkgs = a % COUNT_MOD
    BY <2>1, <2>2
  <2>3. PICK b : b = Len(Queue') + Pending(cPc') - Pending(pPc')
    OBVIOUS
  <2>4. Len(Queue') \in Int /\ Pending(cPc') \in Int /\ Pending(pPc') \in Int
    BY <1>1, <1>2, QueueLenNext DEF Pending
  <2>6. COUNT_MOD \in Nat \ {0}
    BY ChannelAssumption
  <2>7. CASE Writer
    <3>1. PICK d \in {0, 1} :
            /\ dwTotalPkgs' = IF d = 0 THEN dwTotalPkgs ELSE (dwTotalPkgs + 1) % COUNT_MOD
            /\ Len(Queue') + (Pending(cPc') - Pending(pPc'))
                 = Len(Queue) + (Pending(cPc) - Pending(pPc)) + d
      BY <1>1, <1>5, <2>7, WriterCounts
    <3>2. b = a + d
      BY <2>2, <2>3, <2>4, <2>5, <3>1
    <3>3. dwTotalPkgs' = b % COUNT_MOD
      <4>1. CASE d = 0
        <5>1. b = a
          BY <3>2, <4>1
        <5> QED BY <2>a, <3>1, <4>1, <5>1
      <4>2. CASE d = 1
        <5>1. dwTotalPkgs' = ((a % COUNT_MOD) + 1) % COUNT_MOD
          BY <2>a, <3>1, <4>2
        <5>2. ((a % COUNT_MOD) + 1) % COUNT_MOD = (a + 1) % COUNT_MOD
          BY <2>6, ModUpDown
        <5>3. b = a + 1
          BY <3>2, <4>2
        <5> QED BY <5>1, <5>2, <5>3, Zenon
      <4> QED BY <4>1, <4>2
    <3> QED BY <2>3, <3>3
  <2>8. CASE Reader
    <3>1. PICK d \in {0, 1} :
            /\ dwTotalPkgs' = IF d = 0 THEN dwTotalPkgs ELSE (dwTotalPkgs - 1) % COUNT_MOD
            /\ Len(Queue') + (Pending(cPc') - Pending(pPc'))
                 = Len(Queue) + (Pending(cPc) - Pending(pPc)) - d
      BY <1>1, <1>5, <2>8, ReaderCounts
    <3>2. b = a - d
      BY <2>2, <2>3, <2>4, <2>5, <3>1
    <3>3. dwTotalPkgs' = b % COUNT_MOD
      <4>1. CASE d = 0
        <5>1. b = a
          BY <3>2, <4>1
        <5> QED BY <2>a, <3>1, <4>1, <5>1
      <4>2. CASE d = 1
        <5>1. dwTotalPkgs' = ((a % COUNT_MOD) - 1) % COUNT_MOD
          BY <2>a, <3>1, <4>2
        <5>2. ((a % COUNT_MOD) - 1) % COUNT_MOD = (a - 1) % COUNT_MOD
          BY <2>6, ModUpDown
        <5>3. b = a - 1
          BY <3>2, <4>2
        <5> QED BY <5>1, <5>2, <5>3, Zenon
      <4> QED BY <4>1, <4>2
    <3> QED BY <2>3, <3>3
  <2>9. CASE CrashWriter \/ CrashReader \/ UNCHANGED vars
    <3>1. /\ UNCHANGED <<dwTotalPkgs, Queue>>
          /\ Pending(cPc') = Pending(cPc) /\ Pending(pPc') = Pending(pPc)
      BY <1>1, <1>5, <2>9, OtherCounts
    <3> QED BY <2>1, <3>1
  <2> QED BY <2>7, <2>8, <2>9 DEF Next
<1> QED BY <1>3, <1>4, <1>5

\* Nothing is counted in a new segment.
LEMMA InitCount ==
  ASSUME InRangeSegment, Init
  PROVE  CountInv
<1>1. SUFFICES ASSUME ~dirty
               PROVE  dwTotalPkgs = (Len(Queue) + Pending(cPc) - Pending(pPc)) % COUNT_MOD
  BY DEF CountInv
<1>2. Len(Queue) = 0
  BY <1>1, InitQueue
<1>3. Pending(cPc) = 0 /\ Pending(pPc) = 0 /\ dwTotalPkgs = 0
  BY DEF Init, Pending
<1>4. 0 % COUNT_MOD = 0
  BY ChannelAssumption
<1> QED BY <1>2, <1>3, <1>4

\* GetPkgNum is exact when both calls are over, unless the counter was updated by
\* both processes at once, or an update was lost in a crash, or GetPkg gave
\* packages up.
THEOREM CounterExact ==
  ASSUME InRangeSegment, ShortBuffer
  PROVE  Spec => []CountExact
<1>1. Init => CountInv
  BY InitCount
<1>2. IInv /\ FInv /\ CountInv /\ [Next]_vars => CountInv'
  BY NextKeepsCount
<1>3. IInv /\ FInv /\ CountInv => CountExact
  <2>1. SUFFICES ASSUME IInv, FInv, CountInv, pPc = "idle", cPc = "idle", ~dirty, ~countOff
                 PROVE  GetPkgNum = Len(Queue) % COUNT_MOD
    BY DEF CountExact
  <2>2. Len(Queue) \in Nat
    BY <2>1, QueueLen
  <2>3. Pending(cPc) = 0 /\ Pending(pPc) = 0
    BY <2>1 DEF Pending
  <2>4. Len(Queue) + 0 - 0 = Len(Queue)
    BY <2>2
  <2> QED BY <2>1, <2>3, <2>4 DEF CountInv, GetPkgNum
<1> QED BY <1>1, <1>2, <1>3, Invariance, FInvariance, PTL DEF Spec
=============================================================================
