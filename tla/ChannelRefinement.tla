-------------------------- MODULE ChannelRefinement --------------------------
(***************************************************************************)
(* The ring as an implementation of the FIFO of ChannelFifo: the abstract  *)
(* queue is computed from nothing but the bytes between head and tail.     *)
(***************************************************************************)
EXTENDS Channel

\* The bodies of the packages in the len bytes before tail, read one after the
\* other as GetPkg reads them.  Bytes that are no package end the sequence.
BodiesIn(buf, tail, len) ==
  LET bodies[n \in 0 .. len] ==
        LET i == (tail - n) % CHANNEL_BUF_LEN
            p == PkgLen(wLength(buf, i))
        IN  IF n < HeadLen \/ CHANNEL_BUF_LEN - i < HeadLen THEN <<>>
            ELSE IF p > n \/ p > CHANNEL_BUF_LEN - i THEN <<>>
            ELSE <<CopyOut(buf, i + HeadLen, p - HeadLen)>> \o bodies[n - p]
  IN  bodies[len]

Queue == BodiesIn(cBuf, dwTail, Used(dwHead, dwTail))

Fifo == INSTANCE ChannelFifo
          WITH queue <- IF dirty THEN <<>> ELSE Queue, room <- iBodyLen, got <- got,
               copied <- cPc = "advance" /\ ~dirty, broken <- dirty

\* The ring is exactly the FIFO.  It breaks only when a package is wrapped
\* around the end of the buffer, or was in the segment from the start, and it
\* mends when the reader finds the ring empty.
FifoUntilWrap == Fifo!FifoSpec

\* And a reader that keeps polling drains the FIFO again and again.
ImplementsFifo == Fifo!FifoFairSpec

\* Between calls dwTotalPkgs is the number of packages in the ring, unless
\* the two processes updated it at once, one died before its update, a
\* package was wrapped, or GetPkg or a reset gave packages up.
CountExact ==
  pPc = "idle" /\ cPc = "idle" /\ ~dirty /\ ~countOff => GetPkgNum = Len(Queue) % COUNT_MOD

\* "-2, -3, -4: fatal error" is for a segment that something else damaged;
\* with a buffer large enough for every body GetPkg answers 0 or 1.
GetNeverFatal == cRet \in {0, 1}

\* A reader that keeps polling either finds the ring empty again and again or
\* keeps moving the head: no package, whatever its bytes, wedges the queue.
ReaderProgress ==
  \/ []<>(cPc = "idle" /\ dwHead = dwTail)
  \/ []<><<dwHead' # dwHead>>_vars

\* A writer that keeps trying a package of at most half the buffer, and from some
\* time on no other, gets it in again and again: no place at which head and tail
\* come to stand, no free bytes split between the end and the start, and no
\* dropped package shuts it out.  A longer one may be refused for ever, also by
\* an empty ring.
KeepsTrying(body) ==
  /\ WF_vars(AddBegin(body))
  /\ <>[][\A other \in Bodies \ {body} : ~AddBegin(other)]_vars

WriterNotStarved ==
  \A body \in Bodies :
    2 * PkgLen(Len(body)) <= CHANNEL_BUF_LEN /\ KeepsTrying(body)
      => []<>(pPc = "publish" /\ pBody = body)

\* Whatever indices an older segment holds, both sides end with indices
\* inside the buffer for good.
RangeRecovered == <>[]IndicesInRange
=============================================================================
