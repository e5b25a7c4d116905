------------------------------- MODULE Channel -------------------------------
(***************************************************************************)
(* One queue of a Channel (comm/Channel.cpp): a RingQueue in shared        *)
(* memory, one process that calls Channel_AddPkg and one that calls        *)
(* Channel_GetPkg.  There is no lock: each access to the shared segment is *)
(* a step, and the two processes interleave between any two of them.       *)
(* (pReqQ and pRspQ run the same code on disjoint memory, so one queue     *)
(* stands for both.)                                                       *)
(***************************************************************************)
EXTENDS RingQueue

CONSTANTS
  Bodies,        \* the package bodies the writer may send, byte sequences
  Caps,          \* the values of *piBodyLen, the room of the reader's buffer
  InitIndices,   \* the <<head, tail>> pairs found in the segment at the start
  InitByte,      \* the byte the segment is filled with at the start
  COUNT_MOD,     \* dwTotalPkgs is computed modulo this (2^32 in the code)
  MayCrash       \* whether a process may die between two accesses

ASSUME ChannelAssumption ==
  /\ Bodies \subseteq Seq(Byte)
  /\ Caps \subseteq Nat
  /\ InitIndices \subseteq Nat \X Nat
  /\ InitByte \in Byte
  /\ COUNT_MOD \in Nat \ {0}
  /\ MayCrash \in BOOLEAN

VARIABLES
  dwHead, dwTail, dwTotalPkgs, cBuf,      \* the shared segment
  pPc, pBody, pTail, pCount, pRet,        \* Channel_AddPkg: locals and result
  cPc, rHead, rTail, iBodyLen, iPkgLen, got, cCount, cRet, \* Channel_GetPkg
  dirty,      \* history: since the ring was last empty a package was wrapped, or
              \*   the process attached to a segment that was in use
  countOff    \* history: something the counter does not account for happened

shared  == <<dwHead, dwTail, dwTotalPkgs, cBuf>>
pVars   == <<pPc, pBody, pTail, pCount, pRet>>
cVars   == <<cPc, rHead, rTail, iBodyLen, iPkgLen, got, cCount, cRet>>
history == <<dirty, countOff>>
vars    == <<shared, pVars, cVars, history>>

Init ==
  /\ \E i \in InitIndices : dwHead = i[1] /\ dwTail = i[2] /\ dirty = (i # <<0, 0>>)
  /\ dwTotalPkgs = 0
  /\ cBuf = [c \in Cells |-> InitByte]
  /\ pPc = "idle" /\ pBody = <<>> /\ pTail = 0 /\ pCount = 0 /\ pRet = 0
  /\ cPc = "idle" /\ rHead = 0 /\ rTail = 0 /\ iBodyLen = 0 /\ iPkgLen = 0
  /\ got = <<>> /\ cCount = 0 /\ cRet = 0
  /\ countOff = FALSE

OutOfRange == dwHead >= CHANNEL_BUF_LEN \/ dwTail >= CHANNEL_BUF_LEN

------------------------------------------------------------------------------
(***************************************************************************)
(* The writer: Channel_AddPkg.                                             *)
(***************************************************************************)
AddReturn(ret) ==
  /\ pPc' = "idle" /\ pRet' = ret
  /\ pBody' = <<>> /\ pTail' = 0 /\ pCount' = 0

\* The indices are loaded and the package is refused ...
AddFull(body) ==
  /\ pPc = "idle" /\ ~OutOfRange
  /\ Full(dwHead, dwTail, PkgLen(Len(body)))
  /\ AddReturn(1)
  /\ UNCHANGED <<shared, cVars, history>>

\* ... or accepted: the writer goes on with a private copy of the tail.
AddBegin(body) ==
  /\ pPc = "idle" /\ ~OutOfRange
  /\ ~Full(dwHead, dwTail, PkgLen(Len(body)))
  /\ pPc' = IF Wraps(dwHead, dwTail, PkgLen(Len(body))) THEN "mark" ELSE "head"
  /\ pBody' = body /\ pTail' = dwTail
  /\ UNCHANGED <<shared, pCount, pRet, cVars, history>>

AddMark ==
  /\ pPc = "mark"
  /\ cBuf' = [cBuf EXCEPT ![pTail] = START_TAG]
  /\ pTail' = 0 /\ pPc' = "head"
  /\ UNCHANGED <<dwHead, dwTail, dwTotalPkgs, pBody, pCount, pRet, cVars, history>>

AddHead ==
  /\ pPc = "head"
  /\ cBuf' = CopyIn(cBuf, pTail, Header(Len(pBody)))
  /\ pPc' = "body"
  /\ UNCHANGED <<dwHead, dwTail, dwTotalPkgs, pBody, pTail, pCount, pRet, cVars, history>>

AddBody ==
  /\ pPc = "body"
  /\ cBuf' = CopyIn(cBuf, pTail + HeadLen, pBody)
  /\ pPc' = "publish"
  /\ UNCHANGED <<dwHead, dwTail, dwTotalPkgs, pBody, pTail, pCount, pRet, cVars, history>>

Bug_TailNoModulo == pTail + PkgLen(Len(pBody))
NextTail == (pTail + PkgLen(Len(pBody))) % CHANNEL_BUF_LEN

AddPublish ==
  /\ pPc = "publish"
  /\ dwTail' = NextTail
  /\ dirty' = (dirty \/ pTail # dwTail)
  /\ pPc' = "count"
  /\ UNCHANGED <<dwHead, dwTotalPkgs, cBuf, pBody, pTail, pCount, pRet, cVars, countOff>>

\* (*pdwTotalPkgs)++ is a load, an addition and a store.
AddCountLoad ==
  /\ pPc = "count"
  /\ pCount' = dwTotalPkgs
  /\ pPc' = "store"
  /\ UNCHANGED <<shared, pBody, pTail, pRet, cVars, history>>

AddCountStore ==
  /\ pPc = "store"
  /\ dwTotalPkgs' = (pCount + 1) % COUNT_MOD
  /\ countOff' = (countOff \/ pCount # dwTotalPkgs)
  /\ AddReturn(0)
  /\ UNCHANGED <<dwHead, dwTail, cBuf, cVars, dirty>>

\* An index is past the end.  *pdwHead = *pdwTail = 0 then stores the tail first.
AddOutOfRange ==
  /\ pPc = "idle" /\ OutOfRange
  /\ pPc' = "fatal"
  /\ UNCHANGED <<shared, pBody, pTail, pCount, pRet, cVars, history>>

Bug_KeepsTail == dwTail
ResetTail == 0

AddResetTail ==
  /\ pPc = "fatal"
  /\ dwTail' = ResetTail /\ pPc' = "reset"
  /\ countOff' = TRUE
  /\ UNCHANGED <<dwHead, dwTotalPkgs, cBuf, pBody, pTail, pCount, pRet, cVars, dirty>>

AddResetHead ==
  /\ pPc = "reset"
  /\ dwHead' = 0
  /\ AddReturn(-1)
  /\ UNCHANGED <<dwTail, dwTotalPkgs, cBuf, cVars, history>>

Writer ==
  \/ \E body \in Bodies : AddFull(body) \/ AddBegin(body)
  \/ AddMark \/ AddHead \/ AddBody \/ AddPublish
  \/ AddCountLoad \/ AddCountStore
  \/ AddOutOfRange \/ AddResetTail \/ AddResetHead

------------------------------------------------------------------------------
(***************************************************************************)
(* The reader: Channel_GetPkg.                                             *)
(***************************************************************************)
GetReturn(ret) ==
  /\ cPc' = "idle" /\ cRet' = ret
  /\ rHead' = 0 /\ rTail' = 0 /\ iPkgLen' = 0 /\ cCount' = 0

StoreHead(head) ==
  /\ dwHead' = head
  /\ dirty' = (dirty /\ head # dwTail)

GetEmpty(cap) ==
  /\ cPc = "idle" /\ ~OutOfRange
  /\ dwHead = dwTail
  /\ iBodyLen' = cap
  /\ GetReturn(1)
  /\ UNCHANGED <<shared, pVars, got, history>>

GetBegin(cap) ==
  /\ cPc = "idle" /\ ~OutOfRange
  /\ dwHead # dwTail
  /\ iBodyLen' = cap /\ rHead' = dwHead /\ rTail' = dwTail
  /\ cPc' = "boundary"
  /\ UNCHANGED <<shared, pVars, iPkgLen, got, cCount, cRet, history>>

AtBoundary == rHead > rTail /\ cBuf[rHead] = END_TAG

GetBoundary ==
  /\ cPc = "boundary" /\ AtBoundary
  /\ StoreHead(0)
  /\ countOff' = (countOff \/ dirty)
  /\ IF rTail = 0
       THEN GetReturn(1)
       ELSE rHead' = 0 /\ cPc' = "parse" /\ UNCHANGED <<rTail, iPkgLen, cCount, cRet>>
  /\ UNCHANGED <<dwTail, dwTotalPkgs, cBuf, pVars, iBodyLen, got>>

GetNoBoundary ==
  /\ cPc = "boundary" /\ ~AtBoundary
  /\ cPc' = "parse"
  /\ UNCHANGED <<shared, pVars, rHead, rTail, iBodyLen, iPkgLen, got, cCount, cRet, history>>

\* The checks of the header at rHead, in the order of the code.
Bug_ParsesAnything == FALSE
TooShort == BufLen(rHead, rTail) < HeadLen
BadFlag  == cFlag(cBuf, rHead) # START_TAG
BadLen   == \/ BufLen(rHead, rTail) < PkgLen(wLength(cBuf, rHead))
            \/ iBodyLen < wLength(cBuf, rHead)

\* Any failed check gives up every byte up to the tail the reader loaded.
Bug_GivesUpNothing == rHead
GivenUpTo == rTail

GetFatal(ret) ==
  /\ cPc = "parse"
  /\ StoreHead(GivenUpTo)
  /\ countOff' = TRUE
  /\ GetReturn(ret)
  /\ UNCHANGED <<dwTail, dwTotalPkgs, cBuf, pVars, iBodyLen, got>>

GetTooShort == TooShort /\ GetFatal(-2)
GetBadFlag  == ~TooShort /\ BadFlag /\ GetFatal(-3)
GetBadLen   == ~TooShort /\ ~BadFlag /\ BadLen /\ GetFatal(-4)

GetParse ==
  /\ cPc = "parse" /\ ~TooShort /\ ~BadFlag /\ ~BadLen
  /\ iPkgLen' = PkgLen(wLength(cBuf, rHead))
  /\ cPc' = "copy"
  /\ UNCHANGED <<shared, pVars, rHead, rTail, iBodyLen, got, cCount, cRet, history>>

\* The length is read from the shared header once more.
GetCopy ==
  /\ cPc = "copy"
  /\ iBodyLen' = wLength(cBuf, rHead)
  /\ got' = CopyOut(cBuf, rHead + HeadLen, iBodyLen')
  /\ cPc' = "advance"
  /\ UNCHANGED <<shared, pVars, rHead, rTail, iPkgLen, cCount, cRet, history>>

NextHead == (rHead + iPkgLen) % CHANNEL_BUF_LEN

GetAdvance ==
  /\ cPc = "advance"
  /\ StoreHead(NextHead)
  /\ countOff' = (countOff \/ dirty)
  /\ cPc' = "count"
  /\ UNCHANGED <<dwTail, dwTotalPkgs, cBuf, pVars, rHead, rTail, iBodyLen, iPkgLen, got,
                 cCount, cRet>>

GetCountLoad ==
  /\ cPc = "count"
  /\ cCount' = dwTotalPkgs
  /\ cPc' = "store"
  /\ UNCHANGED <<shared, pVars, rHead, rTail, iBodyLen, iPkgLen, got, cRet, history>>

Bug_NotCounted(count) == count
Decrement(count) == (count - 1) % COUNT_MOD

GetCountStore ==
  /\ cPc = "store"
  /\ dwTotalPkgs' = Decrement(cCount)
  /\ countOff' = (countOff \/ cCount # dwTotalPkgs)
  /\ GetReturn(0)
  /\ UNCHANGED <<dwHead, dwTail, cBuf, pVars, iBodyLen, got, dirty>>

GetOutOfRange ==
  /\ cPc = "idle" /\ OutOfRange
  /\ cPc' = "fatal"
  /\ UNCHANGED <<shared, pVars, rHead, rTail, iBodyLen, iPkgLen, got, cCount, cRet, history>>

GetResetTail ==
  /\ cPc = "fatal"
  /\ dwTail' = ResetTail /\ cPc' = "reset"
  /\ countOff' = TRUE
  /\ UNCHANGED <<dwHead, dwTotalPkgs, cBuf, pVars, rHead, rTail, iBodyLen, iPkgLen, got,
                 cCount, cRet, dirty>>

GetResetHead ==
  /\ cPc = "reset"
  /\ StoreHead(0)
  /\ GetReturn(-2)
  /\ UNCHANGED <<dwTail, dwTotalPkgs, cBuf, pVars, iBodyLen, got, countOff>>

GetPkgNum == dwTotalPkgs

Reader ==
  \/ \E cap \in Caps : GetEmpty(cap) \/ GetBegin(cap)
  \/ GetBoundary \/ GetNoBoundary
  \/ GetTooShort \/ GetBadFlag \/ GetBadLen
  \/ GetParse \/ GetCopy \/ GetAdvance
  \/ GetCountLoad \/ GetCountStore
  \/ GetOutOfRange \/ GetResetTail \/ GetResetHead

------------------------------------------------------------------------------
(***************************************************************************)
(* A process may die in the middle of a call; the segment outlives it, and *)
(* the process that takes its place finds the segment and attaches to it.  *)
(***************************************************************************)
CrashWriter ==
  /\ MayCrash /\ pPc # "idle"
  /\ countOff' = (countOff \/ pPc \in {"count", "store"})
  /\ AddReturn(0)
  /\ UNCHANGED <<shared, cVars, dirty>>

CrashReader ==
  /\ MayCrash /\ cPc # "idle"
  /\ countOff' = (countOff \/ cPc \in {"count", "store"})
  /\ GetReturn(0) /\ iBodyLen' = 0 /\ got' = <<>>
  /\ UNCHANGED <<shared, pVars, dirty>>

Next == Writer \/ Reader \/ CrashWriter \/ CrashReader

Spec == Init /\ [][Next]_vars

\* The steps by which AddPkg goes on once it is called.
InCall ==
  \/ AddMark \/ AddHead \/ AddBody \/ AddPublish \/ AddCountLoad \/ AddCountStore
  \/ AddResetTail \/ AddResetHead

\* A call of AddPkg comes to its end, and the reader polls its queue again and
\* again.  Whether the writer calls, and with which package, is its own affair.
FairSpec == Spec /\ WF_vars(InCall) /\ WF_vars(Reader)

------------------------------------------------------------------------------
(***************************************************************************)
(* Properties.                                                             *)
(***************************************************************************)

\* The shared segment and the locals of both calls stay within their types.
TypeOK ==
  /\ dwHead \in Nat /\ dwTail \in Nat
  /\ dwTotalPkgs \in 0 .. (COUNT_MOD - 1)
  /\ cBuf \in Ring
  /\ pPc \in {"idle", "mark", "head", "body", "publish", "count", "store", "fatal", "reset"}
  /\ pBody \in Seq(Byte) /\ pTail \in Nat /\ pRet \in {0, 1, -1}
  /\ pCount \in 0 .. (COUNT_MOD - 1)
  /\ cPc \in {"idle", "boundary", "parse", "copy", "advance", "count", "store", "fatal", "reset"}
  /\ rHead \in Nat /\ rTail \in Nat /\ iBodyLen \in Nat /\ iPkgLen \in Nat
  /\ got \in Seq(Byte) /\ cCount \in 0 .. (COUNT_MOD - 1)
  /\ cRet \in {0, 1, -2, -3, -4}
  /\ dirty \in BOOLEAN /\ countOff \in BOOLEAN

\* A segment whose indices start inside the buffer keeps them there whatever
\* the two calls do in between, so the "fatal error" resets at the top of
\* AddPkg and GetPkg are never taken.
IndicesInRange == dwHead < CHANNEL_BUF_LEN /\ dwTail < CHANNEL_BUF_LEN

\* The cells the call in progress of the writer has yet to write ...
PendingWrite ==
  CASE pPc = "mark" -> {pTail} \cup (0 .. (PkgLen(Len(pBody)) - 1))
    [] pPc = "head" -> pTail .. (pTail + PkgLen(Len(pBody)) - 1)
    [] pPc = "body" -> (pTail + HeadLen) .. (pTail + PkgLen(Len(pBody)) - 1)
    [] OTHER -> {}

\* ... and the cells the call in progress of the reader has yet to read.
PendingRead ==
  CASE cPc = "boundary" -> {rHead}
    [] cPc = "parse" /\ ~TooShort -> rHead .. (rHead + HeadLen - 1)
    [] cPc = "copy" -> rHead .. (rHead + iPkgLen - 1)
    [] OTHER -> {}

\* The space test of AddPkg, done on a head that may be stale by the time of
\* the copies, never lets the writer touch a byte that is still unread, nor
\* a byte outside the buffer.
WritesOutsideUnread ==
  /\ PendingWrite \subseteq Cells
  /\ PendingWrite \cap Unread(dwHead, dwTail) = {}

\* GetPkg reads only published bytes of the buffer, whatever lengths it finds
\* in them (also after a wrap, when it parses bytes that are no header).
ReadsInsideUnread ==
  /\ PendingRead \subseteq Cells
  /\ PendingRead \subseteq Unread(dwHead, dwTail)

\* Storing a new tail never makes a full ring look empty (head = tail).
PublishKeepsNonEmpty == [][dwTail' # dwTail => dwTail' # dwHead']_vars

\* AddPkg refuses a package only when fewer than two packages of that size
\* fit in the free bytes; in particular an empty ring takes any package
\* shorter than half of the buffer.
RefusesOnlyNearFull ==
  \A body \in Bodies :
    LET p == PkgLen(Len(body))
    IN  Full(dwHead, dwTail, p) => CHANNEL_BUF_LEN - Used(dwHead, dwTail) < 2 * p
=============================================================================
