----------------------------- MODULE Dictionary -----------------------------
(***************************************************************************)
(* conf/dictionary.cpp: a table of associations.  Each function is an      *)
(* operator on the structure d, with its three arrays over the slots       *)
(* 0 .. size - 1; a lookup walks all of them, an insertion probes for an   *)
(* empty one from slot n on.                                               *)
(***************************************************************************)
EXTENDS Naturals, FiniteSetsExt

CONSTANTS
  Keys,          \* the strings used as keys
  Hash,          \* dictionary_hash, a number for each key
  NULL,          \* a null pointer, in key and in val
  DICTMINSZ,     \* 128 in the code
  PTR            \* sizeof(char*) / sizeof(char)

\* The empty string, and few others, have the hash 0; such a key would be found
\* after dictionary_clear.
ASSUME DictionaryAssumption ==
  /\ Hash \in [Keys -> Nat \ {0}]
  /\ NULL \notin Keys
  /\ DICTMINSZ \in Nat \ {0} /\ PTR \in Nat \ {0}

Slots(d) == 0 .. d.size - 1

dictionary_new ==
  [n |-> 0, size |-> DICTMINSZ,
   key |-> [i \in 0 .. DICTMINSZ - 1 |-> NULL],
   val |-> [i \in 0 .. DICTMINSZ - 1 |-> NULL],
   hash |-> [i \in 0 .. DICTMINSZ - 1 |-> 0]]

\* Bug: the hash decides alone.
Bug_HashOnly(d, k) == {i \in Slots(d) : d.key[i] # NULL /\ d.hash[i] = Hash[k]}

\* The slots at which a search for k can stop; it stops at the first.
Matches(d, k) == {i \in Slots(d) : d.key[i] = k /\ d.hash[i] = Hash[k]}

dictionary_get(d, k, def) ==
  IF Matches(d, k) = {} THEN def ELSE d.val[Min(Matches(d, k))]

mem_double(array, size, zero) ==
  [i \in 0 .. 2 * size - 1 |-> IF i < size THEN array[i] ELSE zero]

Grown(d) ==
  [n |-> d.n, size |-> 2 * d.size,
   key |-> mem_double(d.key, d.size, NULL),
   val |-> mem_double(d.val, d.size, NULL),
   hash |-> mem_double(d.hash, d.size, 0)]

\* The first empty slot from n on, around the end.
ProbedSlot(d) ==
  LET free == {i \in Slots(d) : d.key[i] = NULL}
      behind == {i \in free : i >= d.n}
  IN  Min(IF behind # {} THEN behind ELSE free)

Inserted(d, k, v) ==
  LET i == ProbedSlot(d)
  IN  [d EXCEPT !.key[i] = k, !.val[i] = v, !.hash[i] = Hash[k], !.n = @ + 1]

Found(d, k) == d.n > 0 /\ Matches(d, k) # {}

MustGrow(d, k) == ~Found(d, k) /\ d.n = d.size

\* Bug: a key that is there is added once more.
Bug_AlwaysAdds(d, k, v) == Inserted(IF d.n = d.size THEN Grown(d) ELSE d, k, v)

dictionary_set(d, k, v) ==
  IF Found(d, k) THEN [d EXCEPT !.val[Min(Matches(d, k))] = v]
  ELSE Inserted(IF MustGrow(d, k) THEN Grown(d) ELSE d, k, v)

\* Bug: the count goes down for a key that is not there.
Bug_CountsDown(d, k) ==
  IF Matches(d, k) = {} THEN [d EXCEPT !.n = @ - 1]
  ELSE LET i == Min(Matches(d, k))
       IN  [d EXCEPT !.key[i] = NULL, !.val[i] = NULL, !.hash[i] = 0, !.n = @ - 1]

dictionary_unset(d, k) ==
  IF Matches(d, k) = {} THEN d
  ELSE LET i == Min(Matches(d, k))
       IN  [d EXCEPT !.key[i] = NULL, !.val[i] = NULL, !.hash[i] = 0, !.n = @ - 1]

\* The memsets of val and key clear size bytes, not size pointers.
Wiped(d, array) == [i \in Slots(d) |-> IF i < d.size \div PTR THEN NULL ELSE array[i]]

\* Bugs: the count starts over although keys stay; the hashes stay with them.
Bug_Recounts(d) ==
  [d EXCEPT !.n = 0, !.key = Wiped(d, @), !.val = Wiped(d, @), !.hash = [i \in Slots(d) |-> 0]]
Bug_KeepsHashes(d) == [d EXCEPT !.key = Wiped(d, @), !.val = Wiped(d, @)]

\* n stays, and a key left behind has the hash 0 and is not found any more.
dictionary_clear(d) ==
  [d EXCEPT !.key = Wiped(d, @), !.val = Wiped(d, @), !.hash = [i \in Slots(d) |-> 0]]

\* What the lookups show of a dictionary.
View(d, missing) == [k \in Keys |-> dictionary_get(d, k, missing)]
=============================================================================
