------------------------------ MODULE RingQueue ------------------------------
(***************************************************************************)
(* The byte ring of comm/Channel.h: a buffer of CHANNEL_BUF_LEN bytes      *)
(* between a head index, advanced by the reader, and a tail index,         *)
(* advanced by the writer.  A package is a header of three bytes (a flag   *)
(* and a 16 bit length, packed) followed by its body.  This module holds   *)
(* the arithmetic on indices and bytes; Channel.tla holds the two          *)
(* processes that use it.                                                  *)
(***************************************************************************)
EXTENDS Integers, Sequences

CONSTANT CHANNEL_BUF_LEN    \* 10000 in the code

ASSUME BufLenAssumption == CHANNEL_BUF_LEN \in Nat \ {0}

START_TAG == 6
END_TAG   == 9
HeadLen   == 3

Byte  == 0 .. 255
Cells == 0 .. (CHANNEL_BUF_LEN - 1)
Ring  == [Cells -> Byte]

PkgLen(n) == HeadLen + n

\* Bugs the checks must notice: no test of the head when the tail is below it,
\* a test that lets the tail meet the head, and a writer that never starts over.
Bug_NoHeadTest(head, tail, p) ==
  \/ tail >= head /\ head = 0 /\ CHANNEL_BUF_LEN - tail = p
  \/ tail >= head /\ CHANNEL_BUF_LEN - tail < p /\ head <= p

Bug_MeetsHead(head, tail, p) ==
  Bug_NoHeadTest(head, tail, p) \/ (tail < head /\ head - tail < p)

Bug_NeverWraps(head, tail, p) ==
  \/ tail >= head /\ CHANNEL_BUF_LEN - tail <= p
  \/ tail < head  /\ head - tail <= p

(***************************************************************************)
(* What AddPkg decides from the indices it loaded, for a package of p      *)
(* bytes: refuse it, or start it over at cell 0, or write it at the tail.  *)
(***************************************************************************)
Full(head, tail, p) ==
  \/ tail >= head /\ head = 0 /\ CHANNEL_BUF_LEN - tail = p
  \/ tail >= head /\ CHANNEL_BUF_LEN - tail < p /\ head <= p
  \/ tail < head  /\ head - tail <= p

Wraps(head, tail, p) == tail >= head /\ CHANNEL_BUF_LEN - tail < p

\* The contiguous bytes GetPkg may read from head.
BufLen(head, tail) ==
  IF tail > head THEN tail - head ELSE CHANNEL_BUF_LEN - head

(***************************************************************************)
(* The header: wLength is stored in the low byte first, truncated to 16    *)
(* bits.                                                                   *)
(***************************************************************************)
Bug_HeaderOfPkg(n) == <<START_TAG, PkgLen(n) % 256, (PkgLen(n) \div 256) % 256>>
Header(n) == <<START_TAG, n % 256, (n \div 256) % 256>>

cFlag(buf, i)   == buf[i]
wLength(buf, i) == buf[i + 1] + 256 * buf[i + 2]

\* The bytes of the sequence s copied to buf at index i.
CopyIn(buf, i, s) ==
  [c \in Cells |-> IF c \in i .. (i + Len(s) - 1) THEN s[c - i + 1] ELSE buf[c]]

\* The n bytes of buf that start at index i.
CopyOut(buf, i, n) == [k \in 1 .. n |-> buf[i + k - 1]]

(***************************************************************************)
(* Regions of the ring, for the properties.                                *)
(***************************************************************************)
Unread(head, tail) ==
  IF head <= tail THEN head .. (tail - 1)
                  ELSE (head .. (CHANNEL_BUF_LEN - 1)) \cup (0 .. (tail - 1))

Used(head, tail) ==
  IF head <= tail THEN tail - head ELSE CHANNEL_BUF_LEN - head + tail
=============================================================================
