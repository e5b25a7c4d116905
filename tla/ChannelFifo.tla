----------------------------- MODULE ChannelFifo -----------------------------
(***************************************************************************)
(* What a queue of a Channel promises to its two users: the bodies put in  *)
(* come out once, complete and in order.  GetPkg takes effect in two       *)
(* steps: the first body is copied to the caller, then it leaves the       *)
(* queue.  A caller whose buffer has too little room for the first body    *)
(* loses the packages the call had seen.                                   *)
(*   At any time the queue may break: what is in it is lost, and the taker *)
(* gets whatever it gets, until the queue mends.                           *)
(***************************************************************************)
EXTENDS Naturals, Sequences

CONSTANTS Bodies, Caps

VARIABLES
  queue,     \* the bodies put and not yet taken
  room,      \* the room of the caller's buffer, then the length of its content
  got,       \* the content of the caller's buffer
  copied,    \* the first body was copied out and has not left the queue yet
  broken

fifoVars == <<queue, room, got, copied, broken>>

FifoInit ==
  queue = <<>> /\ room = 0 /\ got = <<>> /\ copied = FALSE /\ broken \in BOOLEAN

Put(body) ==
  /\ ~broken
  /\ queue' = Append(queue, body)
  /\ UNCHANGED <<room, got, copied, broken>>

Ask(cap) ==
  /\ ~broken /\ ~copied
  /\ room' = cap
  /\ UNCHANGED <<queue, got, copied, broken>>

Copy ==
  /\ ~broken /\ queue # <<>> /\ ~copied /\ Len(Head(queue)) <= room
  /\ got' = Head(queue) /\ room' = Len(Head(queue)) /\ copied' = TRUE
  /\ UNCHANGED <<queue, broken>>

Take ==
  /\ ~broken /\ copied
  /\ queue' = Tail(queue) /\ copied' = FALSE
  /\ UNCHANGED <<room, got, broken>>

Drop ==
  /\ ~broken /\ queue # <<>> /\ ~copied /\ Len(Head(queue)) > room
  /\ \E n \in 1 .. Len(queue) : queue' = SubSeq(queue, n + 1, Len(queue))
  /\ UNCHANGED <<room, got, copied, broken>>

\* The taker dies; a body it had copied and not yet taken stays in the queue.
Restart ==
  /\ ~broken
  /\ room' = 0 /\ got' = <<>> /\ copied' = FALSE
  /\ UNCHANGED <<queue, broken>>

Break ==
  /\ ~broken /\ broken'
  /\ queue' = <<>> /\ copied' = FALSE
  /\ UNCHANGED <<room, got>>

Anything ==
  /\ broken /\ broken'
  /\ room' \in Nat /\ got' \in Seq(Nat)
  /\ UNCHANGED <<queue, copied>>

Mend ==
  /\ broken /\ ~broken'
  /\ UNCHANGED <<queue, room, got, copied>>

FifoNext ==
  \/ \E body \in Bodies : Put(body)
  \/ \E cap \in Caps : Ask(cap)
  \/ Copy \/ Take \/ Drop \/ Restart
  \/ Break \/ Anything \/ Mend

FifoSpec == FifoInit /\ [][FifoNext]_fifoVars

\* A taker that keeps asking shortens a queue that is not empty.
FifoFairSpec == FifoSpec /\ WF_fifoVars(Take \/ Drop)
=============================================================================
