----------------------------- MODULE ByteStream -----------------------------
(***************************************************************************)
(* What a socket stream promises: the bytes that arrive are held in order, *)
(* and leave from the front, once.  A byte is named by its position in the *)
(* stream, so bytes lost, repeated or swapped show.                        *)
(***************************************************************************)
EXTENDS Naturals, Sequences

CONSTANTS
  StreamLen,     \* the number of bytes that ever arrive
  Lens           \* the lengths that are asked for

VARIABLES
  arrived,       \* the number of bytes that arrived
  pending,       \* the bytes held
  out            \* the bytes last handed out

streamVars == <<arrived, pending, out>>

StreamInit == arrived = 0 /\ pending = <<>> /\ out = <<>>

Arrive(n) ==
  /\ arrived + n <= StreamLen
  /\ arrived' = arrived + n
  /\ pending' = pending \o [k \in 1 .. n |-> arrived + k]
  /\ UNCHANGED out

Front(n) == SubSeq(pending, 1, n)
Rest(n)  == SubSeq(pending, n + 1, Len(pending))

Take(n) ==
  /\ n <= Len(pending)
  /\ out' = Front(n) /\ pending' = Rest(n)
  /\ UNCHANGED arrived

Look(n) ==
  /\ n <= Len(pending)
  /\ out' = Front(n)
  /\ UNCHANGED <<arrived, pending>>

Discard(n) ==
  /\ n <= Len(pending)
  /\ pending' = Rest(n)
  /\ UNCHANGED <<arrived, out>>

Clear == pending' = <<>> /\ UNCHANGED <<arrived, out>>

StreamNext ==
  \/ \E n \in 1 .. StreamLen : Arrive(n)
  \/ \E n \in Lens : Take(n) \/ Look(n) \/ Discard(n)
  \/ Clear

StreamSpec == StreamInit /\ [][StreamNext]_streamVars
=============================================================================
