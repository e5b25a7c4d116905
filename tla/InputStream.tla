----------------------------- MODULE InputStream -----------------------------
(***************************************************************************)
(* net/SocketInputStream.cpp: the bytes received from a socket and not yet *)
(* read by the protocol above.  The event loop calls Fill when the socket  *)
(* is readable, the protocol calls Read, Peek, Skip and CleanUp; it all    *)
(* happens in one thread, so each call is one step.  The socket gives any  *)
(* number of the bytes asked for, or nothing (EAGAIN, EINTR, or the peer   *)
(* closed), or an error.                                                   *)
(***************************************************************************)
EXTENDS StreamRing

CONSTANTS
  StreamLen,      \* the bytes the peer sends before it closes
  Lens,           \* the lengths the caller asks for
  CheckEmpty      \* whether the caller asks IsEmpty first; Length has no case for
                  \* the empty ring, and without it Read hands out stale bytes

ASSUME InputAssumption ==
  /\ StreamLen \in Nat
  /\ Lens \subseteq 1 .. STREAM_SIZE
  /\ CheckEmpty \in BOOLEAN

VARIABLES
  dwHead, dwTail, cBuf,   \* the SocketInputStream
  out, ret,               \* the caller's buffer and the result of the last call
  arrived,                \* the socket: bytes received so far
  taken                   \* history: bytes that left the stream

vars == <<dwHead, dwTail, cBuf, out, ret, arrived, taken>>

Init ==
  /\ dwHead = 0 /\ dwTail = 0 /\ cBuf = [c \in Cells |-> 0]
  /\ out = <<>> /\ ret = 0
  /\ arrived = 0 /\ taken = 0

IsEmpty == dwHead = dwTail

\* Bug: the cell that tells full from empty is not kept free.
Bug_FillsLastCell ==
  IF dwHead > dwTail THEN dwHead - dwTail
  ELSE STREAM_SIZE - dwTail

\* nFree: the bytes Fill asks the socket for.
RecvRoom ==
  IF dwHead > dwTail THEN dwHead - dwTail - 1
  ELSE IF dwHead = 0 THEN STREAM_SIZE - dwTail - 1
  ELSE STREAM_SIZE - dwTail

Bug_TailNoModulo(n) == dwTail + n
FilledTail(n) ==
  IF dwHead # 0 /\ dwHead <= dwTail THEN (dwTail + n) % STREAM_SIZE ELSE dwTail + n

Fill(n) ==
  /\ n <= RecvRoom /\ arrived + n <= StreamLen
  /\ cBuf' = PutIn(cBuf, dwTail, n, arrived)
  /\ dwTail' = FilledTail(n)
  /\ arrived' = arrived + n
  /\ ret' = n
  /\ UNCHANGED <<dwHead, out, taken>>

\* No room, nothing to receive, or a peer that closed: all three answer 0.
FillNothing == ret' = 0 /\ UNCHANGED <<dwHead, dwTail, cBuf, out, arrived, taken>>

FillError ==
  /\ RecvRoom # 0
  /\ ret' = IF dwHead > dwTail THEN -31 ELSE IF dwHead = 0 THEN -11 ELSE -21
  /\ UNCHANGED <<dwHead, dwTail, cBuf, out, arrived, taken>>

Asked(n) == CheckEmpty => ~IsEmpty

TooLong(n) ==
  /\ Asked(n)
  /\ n > Length(dwHead, dwTail)
  /\ ret' = -2
  /\ UNCHANGED <<dwHead, dwTail, cBuf, out, arrived, taken>>

\* Bug: the part of the bytes at the start of the buffer is not copied.
Bug_RightPart(n) ==
  CopyOut(cBuf, dwHead, IF n <= STREAM_SIZE - dwHead THEN n ELSE STREAM_SIZE - dwHead)

\* The bytes Read and Peek copy to the caller.
Front(n) == CopyOut(cBuf, dwHead, n)

Advance(n) ==
  /\ dwHead' = (dwHead + n) % STREAM_SIZE
  /\ taken' = taken + n

Read(n) ==
  /\ Asked(n)
  /\ n <= Length(dwHead, dwTail)
  /\ out' = Front(n)
  /\ Advance(n)
  /\ ret' = n
  /\ UNCHANGED <<dwTail, cBuf, arrived>>

Peek(n) ==
  /\ Asked(n)
  /\ n <= Length(dwHead, dwTail)
  /\ out' = Front(n)
  /\ ret' = 0
  /\ UNCHANGED <<dwHead, dwTail, cBuf, arrived, taken>>

Skip(n) ==
  /\ Asked(n)
  /\ n <= Length(dwHead, dwTail)
  /\ Advance(n)
  /\ ret' = 0
  /\ UNCHANGED <<dwTail, cBuf, out, arrived>>

CleanUp ==
  /\ dwHead' = 0 /\ dwTail' = 0
  /\ taken' = arrived
  /\ UNCHANGED <<cBuf, out, ret, arrived>>

Next ==
  \/ \E n \in 1 .. STREAM_SIZE : Fill(n)
  \/ FillNothing \/ FillError
  \/ \E n \in Lens : TooLong(n) \/ Read(n) \/ Peek(n) \/ Skip(n)
  \/ CleanUp

Spec == Init /\ [][Next]_vars

------------------------------------------------------------------------------
\* The stream keeps its types, and its indices stay inside the buffer.
TypeOK ==
  /\ dwHead \in Cells /\ dwTail \in Cells
  /\ cBuf \in [Cells -> Nat]
  /\ out \in Seq(Nat) /\ ret \in Int
  /\ arrived \in 0 .. StreamLen /\ taken \in Nat

\* The bytes held are those received and not yet taken: Fill never runs over
\* unread bytes so that a full ring looks empty, and the head never passes
\* the tail.
NothingLost == taken + Held(dwHead, dwTail) = arrived

Pending == CopyOut(cBuf, dwHead, Held(dwHead, dwTail))

Stream == INSTANCE ByteStream WITH pending <- Pending

\* With a caller that checks IsEmpty the ring implements the byte stream.
ImplementsStream == Stream!StreamSpec
=============================================================================
