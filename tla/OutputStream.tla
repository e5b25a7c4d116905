---------------------------- MODULE OutputStream ----------------------------
(***************************************************************************)
(* net/SocketOutputStream.cpp: the bytes the protocol wrote and the socket *)
(* has not taken yet.  Write, Skip and CleanUp are one step each; Flush is *)
(* a loop of sends, and the socket may take any part of the bytes offered, *)
(* or none for the moment.                                                 *)
(***************************************************************************)
EXTENDS StreamRing

CONSTANTS
  StreamLen,      \* the bytes the protocol writes
  Lens,           \* the lengths it writes and skips
  CheckEmpty      \* whether the caller of Skip asks IsEmpty first

ASSUME OutputAssumption ==
  /\ StreamLen \in Nat
  /\ Lens \subseteq 1 .. STREAM_SIZE
  /\ CheckEmpty \in BOOLEAN

VARIABLES
  dwHead, dwTail, cBuf,   \* the SocketOutputStream
  flushing, ret,          \* whether Flush is in its loop; the result of the last call
  written,                \* history: bytes written so far
  wire,                   \* history: the last byte the socket took
  sentTwice               \* history: the socket took some byte twice

vars == <<dwHead, dwTail, cBuf, flushing, ret, written, wire, sentTwice>>
history == <<written, wire, sentTwice>>

Init ==
  /\ dwHead = 0 /\ dwTail = 0 /\ cBuf = [c \in Cells |-> 0]
  /\ flushing = FALSE /\ ret = 0
  /\ written = 0 /\ wire = 0 /\ sentTwice = FALSE

Free ==
  IF dwHead <= dwTail THEN STREAM_SIZE - dwTail + dwHead - 1 ELSE dwHead - dwTail - 1

\* A write that would fill the ring to its last usable cell is refused too.
WriteRefused(n) ==
  /\ ~flushing
  /\ n >= Free
  /\ ret' = -2
  /\ UNCHANGED <<dwHead, dwTail, cBuf, flushing, history>>

Bug_TailNoModulo(n) == dwTail + n
WrittenTail(n) == (dwTail + n) % STREAM_SIZE

Write(n) ==
  /\ ~flushing
  /\ n < Free /\ written + n <= StreamLen
  /\ cBuf' = PutIn(cBuf, dwTail, n, written)
  /\ dwTail' = WrittenTail(n)
  /\ written' = written + n
  /\ ret' = 0
  /\ UNCHANGED <<dwHead, flushing, wire, sentTwice>>

SkipTooLong(n) ==
  /\ ~flushing /\ (CheckEmpty => dwHead # dwTail)
  /\ n > Length(dwHead, dwTail)
  /\ ret' = -2
  /\ UNCHANGED <<dwHead, dwTail, cBuf, flushing, history>>

Skip(n) ==
  /\ ~flushing /\ (CheckEmpty => dwHead # dwTail)
  /\ n <= Length(dwHead, dwTail)
  /\ dwHead' = (dwHead + n) % STREAM_SIZE
  /\ ret' = 0
  /\ UNCHANGED <<dwTail, cBuf, flushing, history>>

CleanUp ==
  /\ ~flushing
  /\ dwHead' = 0 /\ dwTail' = 0
  /\ UNCHANGED <<cBuf, flushing, ret, history>>

------------------------------------------------------------------------------
(***************************************************************************)
(* Flush.  What send returns goes to iRet, and nSent, which the loop adds  *)
(* to dwHead and takes from nLeft, keeps its initial 0.  So the loop never *)
(* makes progress: it offers the same bytes again, and is left only when   *)
(* send returns 0 or an error; the code after it is reached only on an     *)
(* empty ring.                                                             *)
(***************************************************************************)
FlushEmpty ==
  /\ ~flushing /\ dwHead = dwTail
  /\ dwHead' = 0 /\ dwTail' = 0
  /\ ret' = 0
  /\ UNCHANGED <<cBuf, flushing, history>>

FlushBegin ==
  /\ ~flushing /\ dwHead # dwTail
  /\ flushing' = TRUE
  /\ UNCHANGED <<dwHead, dwTail, cBuf, ret, history>>

\* Bug: the tail is taken to be on the left of the head.
Bug_ToTheEnd == STREAM_SIZE - dwHead

\* The bytes on the right of the head, up to the tail if it is there.
nLeft == IF dwHead < dwTail THEN dwTail - dwHead ELSE STREAM_SIZE - dwHead

nSent == 0

FlushSend(n) ==
  /\ flushing
  /\ n <= nLeft
  /\ sentTwice' = (sentTwice \/ cBuf[dwHead] <= wire)
  /\ wire' = cBuf[dwHead] + n - 1
  /\ dwHead' = dwHead + nSent
  /\ UNCHANGED <<dwTail, cBuf, flushing, ret, written>>

FlushReturn(r) ==
  /\ flushing' = FALSE /\ ret' = r
  /\ UNCHANGED <<dwHead, dwTail, cBuf, history>>

\* EAGAIN and EINTR end the call, or are tried again when the ring is wrapped.
FlushNothing == flushing /\ FlushReturn(0)
FlushAgain   == flushing /\ dwHead > dwTail /\ UNCHANGED vars
FlushError   == flushing /\ FlushReturn(IF dwHead < dwTail THEN -1 ELSE -3)

Next ==
  \/ \E n \in Lens : WriteRefused(n) \/ Write(n) \/ SkipTooLong(n) \/ Skip(n)
  \/ CleanUp
  \/ FlushEmpty \/ FlushBegin
  \/ \E n \in 1 .. STREAM_SIZE : FlushSend(n)
  \/ FlushNothing \/ FlushAgain \/ FlushError

Spec == Init /\ [][Next]_vars

------------------------------------------------------------------------------
\* The stream keeps its types, and its indices stay inside the buffer.
TypeOK ==
  /\ dwHead \in Cells /\ dwTail \in Cells
  /\ cBuf \in [Cells -> Nat]
  /\ flushing \in BOOLEAN /\ ret \in {0, -1, -2, -3}
  /\ written \in 0 .. StreamLen /\ wire \in 0 .. StreamLen
  /\ sentTwice \in BOOLEAN

Pending == CopyOut(cBuf, dwHead, Held(dwHead, dwTail))

Stream == INSTANCE ByteStream
            WITH pending <- Pending, arrived <- written, out <- <<>>

\* Writes and skips implement the byte stream, whatever flushes happen between.
ImplementsStream == Stream!StreamSpec

\* Wherever the ring wraps and whatever was skipped, Flush offers the socket the
\* oldest bytes held, one after the other, and nothing that was not written or
\* has left the ring.
OffersHeld ==
  flushing =>
    /\ nLeft \in 1 .. Held(dwHead, dwTail)
    /\ \A k \in 1 .. nLeft : cBuf[dwHead + k - 1] = written - Held(dwHead, dwTail) + k

\* "flush": each byte written goes to the socket once.
SentOnce == ~sentTwice
=============================================================================
