---------------------------- MODULE ConfigStore ----------------------------
(***************************************************************************)
(* What the configuration promises to the program that reads it: a map     *)
(* from keys to values.  Loading a file starts an empty map and puts one   *)
(* entry after another; the program may put and remove entries too.  A map *)
(* can be lost: freed, or not loaded.                                      *)
(***************************************************************************)
CONSTANTS Keys, Values, MISSING, LOST

VARIABLE map

Empty == [k \in Keys |-> MISSING]

Open == map' = Empty
Put(k, v) == map # LOST /\ v \in Values /\ map' = [map EXCEPT ![k] = v]
Remove(k) == map # LOST /\ map' = [map EXCEPT ![k] = MISSING]
Lose == map' = LOST

StoreInit == map = LOST

StoreNext ==
  \/ Open \/ Lose
  \/ \E k \in Keys : Remove(k) \/ Put(k, map'[k])

StoreSpec == StoreInit /\ [][StoreNext]_map
=============================================================================
