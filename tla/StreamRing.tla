----------------------------- MODULE StreamRing -----------------------------
(***************************************************************************)
(* The ring of bytes that SocketInputStream and SocketOutputStream keep    *)
(* between a head, where bytes leave, and a tail, where bytes enter; one   *)
(* cell always stays free, so head = tail is the empty ring.               *)
(***************************************************************************)
EXTENDS Integers, Sequences

CONSTANTS
  STREAM_SIZE,    \* MAX_INPUTSTREAM_SIZE, MAX_OUTPUTSTREAM_SIZE: 10*4096 in the code
  ERR_LENGTH      \* 0xffffffff in the code, an unsigned number above every length

ASSUME StreamAssumption ==
  /\ STREAM_SIZE \in Nat \ {0, 1}
  /\ ERR_LENGTH \in Nat /\ ERR_LENGTH > STREAM_SIZE

Cells == 0 .. (STREAM_SIZE - 1)

\* What the Length functions answer; the empty ring has no case of its own.
Length(head, tail) ==
  IF head < tail THEN tail - head
  ELSE IF head > tail THEN STREAM_SIZE - head + tail
  ELSE ERR_LENGTH

\* The bytes really held.
Held(head, tail) == IF head <= tail THEN tail - head ELSE STREAM_SIZE - head + tail

\* n bytes from cell i on; those that do not fit on the right are taken from
\* the start of the buffer.
CopyOut(buf, i, n) ==
  [k \in 1 .. n |-> IF k <= STREAM_SIZE - i THEN buf[i + k - 1]
                                            ELSE buf[i + k - 1 - STREAM_SIZE]]

\* Bug: the bytes that do not fit on the right are dropped.
Bug_PutRight(buf, i, n, first) ==
  [c \in Cells |-> IF c >= i /\ c < i + n THEN first + c - i + 1 ELSE buf[c]]

\* The bytes first + 1 .. first + n of the stream put at cell i and on.
PutIn(buf, i, n, first) ==
  [c \in Cells |-> IF c >= i /\ c < i + n THEN first + c - i + 1
                   ELSE IF c + STREAM_SIZE < i + n THEN first + c + STREAM_SIZE - i + 1
                   ELSE buf[c]]
=============================================================================
