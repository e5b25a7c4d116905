---------------------------- MODULE ConfigProof ----------------------------
(***************************************************************************)
(* The dictionary stays a map, whatever is loaded into it, set, removed    *)
(* and reloaded, for any keys, hashes, files and first size of the table;  *)
(* it is what the file says, and what is saved of it is read back.         *)
(***************************************************************************)
EXTENDS IniParser, FiniteSetTheorems, SequenceTheorems, WellFoundedInduction, TLAPS

(***************************************************************************)
(* The functions of dictionary.cpp.                                        *)
(***************************************************************************)
\* A dictionary with its three arrays.
Shape(d) ==
  /\ d = [n |-> d.n, size |-> d.size, key |-> d.key, val |-> d.val, hash |-> d.hash]
  /\ d.n \in Nat /\ d.size \in Nat \ {0}
  /\ d.key \in [Slots(d) -> Keys \cup {NULL}]
  /\ d.val \in [Slots(d) -> Values]
  /\ d.hash \in [Slots(d) -> Nat]

\* Every key that is in the table is counted, and no key is found twice.
Used(d) == {i \in Slots(d) : d.key[i] # NULL}
Counted(d) == Cardinality(Used(d)) <= d.n /\ d.n <= d.size
Single(d) == \A k \in Keys : \A i, j \in Matches(d, k) : i = j

Sound(d) == Shape(d) /\ Counted(d) /\ Single(d)

\* A set of numbers has a least one, and Min gives it.
LEMMA LeastOne ==
  ASSUME NEW S \in SUBSET Nat, S # {}
  PROVE  Min(S) \in S /\ \A x \in S : Min(S) <= x
<1>1. PICK R : R = OpToRel(<, Nat)
  OBVIOUS
<1>2. OpToRel(<, Nat) = {ss \in Nat \X Nat : ss[1] < ss[2]}
  BY Zenon DEF OpToRel
<1>3. R = {ss \in Nat \X Nat : ss[1] < ss[2]} /\ IsWellFoundedOn(R, Nat)
  BY <1>1, <1>2, NatLessThanWellFounded, Zenon
<1>4. PICK m \in S : \A x \in S : ~ <<x, m>> \in R
  <2>1. \E m \in S : \A x \in S : ~ <<x, m>> \in R
    BY <1>3, WFMin
  <2>2. QED
    BY <2>1
<1>5. \A x \in Nat : x < m => <<x, m>> \in R
  BY <1>3
<1>6. ASSUME NEW x \in S PROVE m <= x
  <2>1. ~ (x < m)
    BY <1>4, <1>5
  <2>2. x \in Nat /\ m \in Nat
    OBVIOUS
  <2>3. QED
    BY <2>1, <2>2
<1>7. QED
  BY <1>6 DEF Min

\* The slots in use are finitely many,
LEMMA UsedFinite ==
  ASSUME NEW d, Shape(d)
  PROVE  IsFiniteSet(Used(d)) /\ Cardinality(Used(d)) \in Nat
<1>1. IsFiniteSet(Slots(d))
  <2>1. d.size - 1 \in Int
    BY DEF Shape
  <2>2. QED
    BY <2>1, FS_Interval DEF Slots
<1>2. IsFiniteSet(Used(d))
  BY <1>1, FS_Subset DEF Used
<1>3. QED
  BY <1>2, FS_CardinalityType

\* and have numbers from 0 on.
LEMMA UsedNumbers ==
  ASSUME NEW d, Sound(d)
  PROVE  IsFiniteSet(Used(d)) /\ Used(d) \subseteq Nat
<1>1. IsFiniteSet(Used(d))
  BY UsedFinite DEF Sound
<1>2. d.size \in Nat
  BY DEF Sound, Shape
<1>3. Used(d) \subseteq Nat
  BY <1>2 DEF Used, Slots
<1>4. QED
  BY <1>1, <1>3

\* A search that succeeds ends at the one slot that has the key.
LEMMA MatchIsUsed ==
  ASSUME NEW d, Shape(d), NEW k \in Keys, NEW i \in Matches(d, k)
  PROVE  i \in Used(d) /\ d.key[i] = k /\ d.hash[i] = Hash[k]
BY DictionaryAssumption DEF Matches, Used

\* A key that is found is found in one slot only.
LEMMA OneMatch ==
  ASSUME NEW d, Sound(d), NEW k \in Keys, Matches(d, k) # {}
  PROVE  /\ Min(Matches(d, k)) \in Matches(d, k)
         /\ Matches(d, k) = {Min(Matches(d, k))}
<1>1. Matches(d, k) \subseteq Nat
  BY DEF Sound, Shape, Matches, Slots
<1>2. QED
  BY <1>1, LeastOne DEF Sound, Single

\* What a lookup answers.
LEMMA Lookup ==
  ASSUME NEW d, Sound(d), NEW k \in Keys, NEW m
  PROVE  /\ Matches(d, k) = {} => View(d, m)[k] = m
         /\ \A i \in Matches(d, k) : View(d, m)[k] = d.val[i]
         /\ View(d, m)[k] \in Values \cup {m}
<1>1. View(d, m)[k] = IF Matches(d, k) = {} THEN m ELSE d.val[Min(Matches(d, k))]
  BY DEF View, dictionary_get
<1>2. ASSUME NEW i \in Matches(d, k) PROVE i = Min(Matches(d, k)) /\ i \in Slots(d)
  <2>1. Min(Matches(d, k)) \in Matches(d, k)
    BY OneMatch
  <2>2. QED
    BY <2>1 DEF Sound, Single, Matches
<1>3. QED
  BY <1>1, <1>2 DEF Sound, Shape

\* The lookups are a function of the keys.
LEMMA ViewType ==
  ASSUME NEW d, Sound(d), NEW m
  PROVE  View(d, m) \in [Keys -> Values \cup {m}]
BY Lookup DEF View

\* n says how many there are at least: a key that is there is looked for.
LEMMA FoundIfThere ==
  ASSUME NEW d, Sound(d), NEW k \in Keys
  PROVE  Found(d, k) <=> Matches(d, k) # {}
<1>1. ASSUME NEW i \in Matches(d, k) PROVE d.n > 0
  <2>1. Cardinality(Used(d)) # 0
    BY MatchIsUsed, UsedFinite, FS_EmptySet DEF Sound
  <2>2. QED
    BY <2>1, UsedFinite DEF Sound, Counted, Shape
<1>2. QED
  BY <1>1 DEF Found

\* The shape of a dictionary that is put together from its arrays.
LEMMA Fields ==
  ASSUME NEW n, NEW size, NEW key, NEW val, NEW hash, NEW r,
         r = [n |-> n, size |-> size, key |-> key, val |-> val, hash |-> hash]
  PROVE  /\ r.n = n /\ r.size = size /\ r.key = key /\ r.val = val /\ r.hash = hash
         /\ r = [n |-> r.n, size |-> r.size, key |-> r.key, val |-> r.val, hash |-> r.hash]
OBVIOUS

\* Two dictionaries that find the same slot and hold the same there.
LEMMA SameView ==
  ASSUME NEW d, Sound(d), NEW r, Sound(r), NEW m, NEW k \in Keys,
         Matches(r, k) = Matches(d, k),
         \A i \in Matches(d, k) : r.val[i] = d.val[i]
  PROVE  View(r, m)[k] = View(d, m)[k]
<1>1. CASE Matches(d, k) = {}
  BY <1>1, Lookup
<1>2. CASE Matches(d, k) # {}
  <2>1. PICK i : i \in Matches(d, k)
    BY <1>2
  <2>2. View(d, m)[k] = d.val[i] /\ View(r, m)[k] = r.val[i]
    BY <2>1, Lookup
  <2>3. QED
    BY <2>1, <2>2
<1>3. QED
  BY <1>1, <1>2

\* A new dictionary is empty.
LEMMA NewSound ==
  /\ Sound(dictionary_new)
  /\ \A m : View(dictionary_new, m) = [k \in Keys |-> m]
<1>1. PICK r : r = dictionary_new
  OBVIOUS
<1>2. /\ Shape(r) /\ r.n = 0 /\ Slots(r) = 0 .. DICTMINSZ - 1
      /\ \A i \in Slots(r) : r.key[i] = NULL
  BY <1>1, DictionaryAssumption DEF dictionary_new, Shape, Slots, Values
<1>3. Used(r) = {}
  BY <1>2 DEF Used
<1>4. Counted(r)
  BY <1>2, <1>3, FS_EmptySet DEF Counted, Shape
<1>5. \A k \in Keys : Matches(r, k) = {}
  BY <1>2, DictionaryAssumption DEF Matches
<1>6. QED
  BY <1>1, <1>2, <1>4, <1>5 DEF Sound, Single, View, dictionary_get

\* A table that grows keeps every entry where it is.
LEMMA GrownSound ==
  ASSUME NEW d, Sound(d)
  PROVE  /\ Sound(Grown(d)) /\ Grown(d).n = d.n /\ Grown(d).size = 2 * d.size
         /\ \A k \in Keys : Matches(Grown(d), k) = Matches(d, k)
         /\ \A i \in Slots(d) : Grown(d).val[i] = d.val[i]
<1>1. PICK r : r = Grown(d)
  OBVIOUS
<1>2. /\ d.size \in Nat \ {0} /\ d.n \in Nat /\ d.n <= d.size
      /\ d.key \in [Slots(d) -> Keys \cup {NULL}] /\ d.val \in [Slots(d) -> Values]
      /\ d.hash \in [Slots(d) -> Nat]
  BY DEF Sound, Shape, Counted
<1>3. /\ r.n = d.n /\ r.size = 2 * d.size
      /\ r.key = mem_double(d.key, d.size, NULL) /\ r.val = mem_double(d.val, d.size, NULL)
      /\ r.hash = mem_double(d.hash, d.size, 0)
      /\ r = [n |-> r.n, size |-> r.size, key |-> r.key, val |-> r.val, hash |-> r.hash]
  BY <1>1, Fields DEF Grown
<1>4. /\ Slots(r) = 0 .. 2 * d.size - 1 /\ Slots(d) \subseteq Slots(r)
      /\ \A i \in Slots(r) : i < d.size <=> i \in Slots(d)
  BY <1>2, <1>3 DEF Slots
<1>5. /\ r.key \in [Slots(r) -> Keys \cup {NULL}]
      /\ \A i \in Slots(r) : r.key[i] = IF i \in Slots(d) THEN d.key[i] ELSE NULL
  BY <1>2, <1>3, <1>4 DEF mem_double
<1>6. /\ r.val \in [Slots(r) -> Values] /\ \A i \in Slots(d) : r.val[i] = d.val[i]
  BY <1>2, <1>3, <1>4 DEF mem_double, Values
<1>7. /\ r.hash \in [Slots(r) -> Nat] /\ \A i \in Slots(d) : r.hash[i] = d.hash[i]
  BY <1>2, <1>3, <1>4 DEF mem_double
<1>8. \A k \in Keys : Matches(r, k) = Matches(d, k)
  BY <1>4, <1>5, <1>7, DictionaryAssumption DEF Matches
<1>9. Used(r) = Used(d)
  BY <1>4, <1>5 DEF Used
<1>10. Shape(r)
  BY <1>2, <1>3, <1>5, <1>6, <1>7 DEF Shape
<1>11. Counted(r)
  BY <1>2, <1>3, <1>9 DEF Sound, Counted
<1>12. Single(r)
  BY <1>8 DEF Sound, Single
<1>13. QED
  BY <1>1, <1>3, <1>6, <1>8, <1>10, <1>11, <1>12 DEF Sound

\* The probe for an empty slot ends at one: fewer keys are there than slots.
LEMMA ProbeFinds ==
  ASSUME NEW d, Sound(d), d.n < d.size
  PROVE  ProbedSlot(d) \in Slots(d) /\ d.key[ProbedSlot(d)] = NULL
<1>1. DEFINE free == {i \in Slots(d) : d.key[i] = NULL}
             behind == {i \in free : i >= d.n}
<1>2. free # {}
  <2>1. SUFFICES ASSUME free = {} PROVE FALSE
    OBVIOUS
  <2>2. Used(d) = Slots(d)
    BY <2>1 DEF Used
  <2>3. d.size \in Nat \ {0} /\ d.n \in Nat
    BY DEF Sound, Shape
  <2>4. Cardinality(Slots(d)) = d.size
    <3>1. 0 \in Int /\ d.size - 1 \in Int /\ ~(0 > d.size - 1) /\ (d.size - 1) - 0 + 1 = d.size
      BY <2>3
    <3>2. QED
      BY <3>1, FS_Interval DEF Slots
  <2>5. QED
    BY <2>2, <2>3, <2>4 DEF Sound, Counted
<1>3. free \subseteq Nat /\ behind \subseteq free
  BY DEF Slots
<1>4. ProbedSlot(d) = Min(IF behind # {} THEN behind ELSE free)
  BY DEF ProbedSlot
<1>5. ProbedSlot(d) \in free
  <2>1. behind # {} => Min(behind) \in behind
    BY <1>3, LeastOne
  <2>2. Min(free) \in free
    BY <1>2, <1>3, LeastOne
  <2>3. QED
    BY <1>3, <1>4, <2>1, <2>2
<1>6. QED
  BY <1>5

\* A dictionary that differs in one slot, and in n.
LEMMA SlotFields ==
  ASSUME NEW d, Shape(d), NEW i \in Slots(d), NEW k, NEW v, NEW h, NEW n, NEW r,
         r = [d EXCEPT !.key[i] = k, !.val[i] = v, !.hash[i] = h, !.n = n]
  PROVE  /\ r = [n |-> r.n, size |-> r.size, key |-> r.key, val |-> r.val, hash |-> r.hash]
         /\ r.n = n /\ r.size = d.size /\ Slots(r) = Slots(d)
         /\ r.key = [d.key EXCEPT ![i] = k]
         /\ r.val = [d.val EXCEPT ![i] = v]
         /\ r.hash = [d.hash EXCEPT ![i] = h]
BY DEF Shape, Slots

\* A key put into an empty slot changes what that key gives, and nothing else.
LEMMA InsertSound ==
  ASSUME NEW d, Sound(d), d.n < d.size, NEW k \in Keys, NEW v \in Values, NEW m,
         Matches(d, k) = {}
  PROVE  /\ Sound(Inserted(d, k, v))
         /\ View(Inserted(d, k, v), m) = [View(d, m) EXCEPT ![k] = v]
<1>1. PICK r, i : r = Inserted(d, k, v) /\ i = ProbedSlot(d)
  OBVIOUS
<1>2. i \in Slots(d) /\ d.key[i] = NULL
  BY <1>1, ProbeFinds
<1>3. r = [d EXCEPT !.key[i] = k, !.val[i] = v, !.hash[i] = Hash[k], !.n = d.n + 1]
  BY <1>1 DEF Inserted
<1>4. /\ r = [n |-> r.n, size |-> r.size, key |-> r.key, val |-> r.val, hash |-> r.hash]
      /\ r.n = d.n + 1 /\ r.size = d.size /\ Slots(r) = Slots(d)
      /\ r.key = [d.key EXCEPT ![i] = k]
      /\ r.val = [d.val EXCEPT ![i] = v]
      /\ r.hash = [d.hash EXCEPT ![i] = Hash[k]]
  <2>1. PICK h, n : h = Hash[k] /\ n = d.n + 1
    OBVIOUS
  <2>2. Shape(d) /\ r = [d EXCEPT !.key[i] = k, !.val[i] = v, !.hash[i] = h, !.n = n]
    BY <1>3, <2>1 DEF Sound
  <2>3. i \in Slots(d)
    BY <1>2
  <2>4. QED
    BY <2>1, <2>2, <2>3 DEF Shape, Slots
<1>5. /\ d.size \in Nat \ {0} /\ d.n \in Nat /\ Cardinality(Used(d)) <= d.n
      /\ d.key \in [Slots(d) -> Keys \cup {NULL}] /\ d.val \in [Slots(d) -> Values]
      /\ d.hash \in [Slots(d) -> Nat]
      /\ Hash[k] \in Nat /\ k # NULL /\ NULL \notin Keys
  <2>1. Hash[k] \in Nat /\ k # NULL /\ NULL \notin Keys
    BY DictionaryAssumption
  <2>2. QED
    BY <2>1 DEF Sound, Shape, Counted
<1>6. Shape(r)
  <2>1. r.n \in Nat /\ r.size \in Nat \ {0}
    BY <1>4, <1>5
  <2>2. r.key \in [Slots(r) -> Keys \cup {NULL}]
    <3>1. [d.key EXCEPT ![i] = k] \in [Slots(d) -> Keys \cup {NULL}]
      BY <1>5
    <3>2. QED
      BY <1>4, <3>1
  <2>3. r.val \in [Slots(r) -> Values]
    <3>1. [d.val EXCEPT ![i] = v] \in [Slots(d) -> Values]
      BY <1>5
    <3>2. QED
      BY <1>4, <3>1
  <2>4. r.hash \in [Slots(r) -> Nat]
    BY <1>4, <1>5
  <2>5. QED
    BY <1>4, <2>1, <2>2, <2>3, <2>4 DEF Shape
<1>7. Counted(r)
  <2>1. Used(r) = Used(d) \cup {i} /\ i \notin Used(d)
    BY <1>2, <1>4, <1>5 DEF Used
  <2>2. Cardinality(Used(r)) = Cardinality(Used(d)) + 1
    BY <2>1, UsedFinite, FS_AddElement DEF Sound
  <2>3. Cardinality(Used(d)) \in Nat
    BY UsedFinite DEF Sound
  <2>4. QED
    BY <1>4, <1>5, <2>2, <2>3 DEF Counted
<1>8. Matches(r, k) = {i}
  <2>1. \A j \in Slots(d) \ {i} : r.key[j] = d.key[j] /\ r.hash[j] = d.hash[j]
    BY <1>4, <1>5
  <2>2. r.key[i] = k /\ r.hash[i] = Hash[k]
    BY <1>2, <1>4, <1>5
  <2>3. QED
    BY <1>2, <1>4, <2>1, <2>2 DEF Matches
<1>9. \A l \in Keys \ {k} : Matches(r, l) = Matches(d, l)
  BY <1>2, <1>4, <1>5 DEF Matches
<1>10. Single(r)
  BY <1>8, <1>9 DEF Sound, Single
<1>11. Sound(r)
  BY <1>6, <1>7, <1>10 DEF Sound
<1>12. View(r, m)[k] = v
  <2>1. View(r, m)[k] = r.val[i]
    BY <1>8, <1>11, Lookup
  <2>2. QED
    BY <1>2, <1>4, <1>5, <2>1
<1>13. ASSUME NEW l \in Keys \ {k} PROVE View(r, m)[l] = View(d, m)[l]
  <2>1. \A j \in Matches(d, l) : j \in Slots(d) /\ j # i
    BY <1>2, <1>5 DEF Matches
  <2>2. \A j \in Matches(d, l) : r.val[j] = d.val[j]
    BY <1>4, <1>5, <2>1
  <2>3. QED
    BY <1>9, <1>11, <2>2, SameView
<1>14. View(r, m) = [View(d, m) EXCEPT ![k] = v]
  BY <1>12, <1>13 DEF View
<1>15. QED
  BY <1>1, <1>11, <1>14

\* dictionary_set changes what one key gives, in a table that may have grown.
LEMMA SetSound ==
  ASSUME NEW d, Sound(d), NEW k \in Keys, NEW v \in Values, NEW m
  PROVE  /\ Sound(dictionary_set(d, k, v))
         /\ View(dictionary_set(d, k, v), m) = [View(d, m) EXCEPT ![k] = v]
<1>1. CASE Found(d, k)
  <2>1. PICK r, i : r = dictionary_set(d, k, v) /\ i = Min(Matches(d, k))
    OBVIOUS
  <2>2. i \in Matches(d, k) /\ i \in Slots(d) /\ Matches(d, k) = {i}
    <3>1. Min(Matches(d, k)) \in Matches(d, k) /\ Matches(d, k) = {Min(Matches(d, k))}
      BY <1>1, FoundIfThere, OneMatch
    <3>2. Matches(d, k) \subseteq Slots(d)
      BY DEF Matches
    <3>3. QED
      BY <2>1, <3>1, <3>2
  <2>3. r = [d EXCEPT !.val[i] = v]
    BY <1>1, <2>1 DEF dictionary_set
  <2>4. /\ r = [n |-> r.n, size |-> r.size, key |-> r.key, val |-> r.val, hash |-> r.hash]
        /\ r.n = d.n /\ r.size = d.size /\ Slots(r) = Slots(d)
        /\ r.key = d.key /\ r.hash = d.hash /\ r.val = [d.val EXCEPT ![i] = v]
    BY <2>3 DEF Sound, Shape, Slots
  <2>5. /\ Shape(r) /\ Used(r) = Used(d) /\ \A l \in Keys : Matches(r, l) = Matches(d, l)
    BY <2>2, <2>4 DEF Sound, Shape, Used, Matches
  <2>6. Sound(r)
    BY <2>4, <2>5 DEF Sound, Counted, Single
  <2>7. View(r, m)[k] = v
    <3>1. View(r, m)[k] = r.val[i] /\ d.val \in [Slots(d) -> Values]
      BY <2>2, <2>5, <2>6, Lookup DEF Sound, Shape
    <3>2. QED
      BY <2>2, <2>4, <3>1
  <2>8. ASSUME NEW l \in Keys \ {k} PROVE View(r, m)[l] = View(d, m)[l]
    <3>1. \A j \in Matches(d, l) : j \in Slots(d) /\ j # i
      BY <2>2 DEF Matches
    <3>2. \A j \in Matches(d, l) : r.val[j] = d.val[j]
      BY <2>4, <3>1 DEF Sound, Shape
    <3>3. QED
      BY <2>5, <2>6, <3>2, SameView
  <2>9. View(r, m) = [View(d, m) EXCEPT ![k] = v]
    BY <2>7, <2>8 DEF View
  <2>10. QED
    BY <2>1, <2>6, <2>9
<1>2. CASE ~Found(d, k)
  <2>1. Matches(d, k) = {}
    BY <1>2, FoundIfThere
  <2>2. PICK g : g = IF MustGrow(d, k) THEN Grown(d) ELSE d
    OBVIOUS
  <2>3. /\ Sound(g) /\ g.n < g.size /\ Matches(g, k) = {}
        /\ View(g, m) = View(d, m)
    <3>1. d.n \in Nat /\ d.size \in Nat \ {0} /\ d.n <= d.size
      BY DEF Sound, Shape, Counted
    <3>2. CASE MustGrow(d, k)
      <4>1. Sound(g) /\ Matches(g, k) = {} /\ g.n < g.size
        BY <2>1, <2>2, <3>1, <3>2, GrownSound
      <4>2. \A l \in Keys : \A j \in Matches(d, l) : j \in Slots(d)
        BY DEF Matches
      <4>3. \A l \in Keys : View(g, m)[l] = View(d, m)[l]
        BY <2>2, <3>2, <4>1, <4>2, GrownSound, SameView
      <4>4. QED
        BY <4>1, <4>3 DEF View
    <3>3. CASE ~MustGrow(d, k)
      BY <1>2, <2>1, <2>2, <3>1, <3>3 DEF MustGrow
    <3>4. QED
      BY <3>2, <3>3
  <2>4. dictionary_set(d, k, v) = Inserted(g, k, v)
    BY <1>2, <2>2 DEF dictionary_set
  <2>5. QED
    BY <2>3, <2>4, InsertSound
<1>3. QED
  BY <1>1, <1>2

\* A removal: one key less is there, and one less is counted.
LEMMA UnsetSound ==
  ASSUME NEW d, Sound(d), NEW k \in Keys, NEW m
  PROVE  /\ Sound(dictionary_unset(d, k))
         /\ View(dictionary_unset(d, k), m) = [View(d, m) EXCEPT ![k] = m]
<1>1. CASE Matches(d, k) = {}
  <2>1. View(d, m)[k] = m
    BY <1>1, Lookup
  <2>2. QED
    BY <1>1, <2>1 DEF dictionary_unset, View
<1>2. CASE Matches(d, k) # {}
  <2>1. PICK r, i : r = dictionary_unset(d, k) /\ i = Min(Matches(d, k))
    OBVIOUS
  <2>2. i \in Slots(d) /\ Matches(d, k) = {i} /\ d.key[i] = k
    <3>1. Min(Matches(d, k)) \in Matches(d, k) /\ Matches(d, k) = {Min(Matches(d, k))}
      BY <1>2, OneMatch
    <3>2. \A j \in Matches(d, k) : j \in Slots(d) /\ d.key[j] = k
      BY DEF Matches
    <3>3. QED
      BY <2>1, <3>1, <3>2
  <2>3. r = [d EXCEPT !.key[i] = NULL, !.val[i] = NULL, !.hash[i] = 0, !.n = d.n - 1]
    BY <1>2, <2>1 DEF dictionary_unset
  <2>4. /\ r = [n |-> r.n, size |-> r.size, key |-> r.key, val |-> r.val, hash |-> r.hash]
        /\ r.n = d.n - 1 /\ r.size = d.size /\ Slots(r) = Slots(d)
        /\ r.key = [d.key EXCEPT ![i] = NULL]
        /\ r.val = [d.val EXCEPT ![i] = NULL]
        /\ r.hash = [d.hash EXCEPT ![i] = 0]
    <3>1. Shape(d)
      BY DEF Sound
    <3>2. QED
      BY <2>2, <2>3, <3>1 DEF Shape, Slots
  <2>5. /\ d.size \in Nat \ {0} /\ d.n \in Nat
        /\ Cardinality(Used(d)) <= d.n /\ d.n <= d.size
        /\ d.key \in [Slots(d) -> Keys \cup {NULL}] /\ d.val \in [Slots(d) -> Values]
        /\ d.hash \in [Slots(d) -> Nat]
    BY DEF Sound, Shape, Counted
  <2>6. k # NULL /\ NULL \notin Keys /\ NULL \in Values
    BY DictionaryAssumption DEF Values
  <2>7. Used(r) = Used(d) \ {i} /\ i \in Used(d)
    BY <2>2, <2>4, <2>5, <2>6 DEF Used
  <2>8. Cardinality(Used(r)) = Cardinality(Used(d)) - 1 /\ Cardinality(Used(d)) \in Nat
        /\ Cardinality(Used(r)) \in Nat
    <3>1. IsFiniteSet(Used(d)) /\ Cardinality(Used(d)) \in Nat
      BY UsedFinite DEF Sound
    <3>2. IsFiniteSet(Used(d) \ {i})
      BY <3>1, FS_Subset
    <3>3. Cardinality(Used(d) \ {i}) = Cardinality(Used(d)) - 1
      BY <2>7, <3>1, FS_RemoveElement
    <3>4. Cardinality(Used(d) \ {i}) \in Nat
      BY <3>2, FS_CardinalityType
    <3>5. QED
      BY <2>7, <3>1, <3>3, <3>4
  <2>9. Shape(r)
    <3>1. r.n \in Nat /\ r.size \in Nat \ {0}
      BY <2>4, <2>5, <2>8
    <3>2. [d.key EXCEPT ![i] = NULL] \in [Slots(d) -> Keys \cup {NULL}]
      BY <2>5
    <3>3. [d.val EXCEPT ![i] = NULL] \in [Slots(d) -> Values]
      BY <2>5, <2>6
    <3>4. [d.hash EXCEPT ![i] = 0] \in [Slots(d) -> Nat]
      BY <2>5
    <3>5. QED
      BY <2>4, <3>1, <3>2, <3>3, <3>4 DEF Shape
  <2>10. Counted(r)
    BY <2>4, <2>5, <2>8 DEF Counted
  <2>11. \A j \in Slots(d) \ {i} :
           r.key[j] = d.key[j] /\ r.hash[j] = d.hash[j] /\ r.val[j] = d.val[j]
    BY <2>4, <2>5
  <2>12. r.key[i] = NULL
    BY <2>2, <2>4, <2>5
  <2>13. Matches(r, k) = {}
    BY <2>2, <2>4, <2>6, <2>11, <2>12 DEF Matches
  <2>14. \A l \in Keys \ {k} : Matches(r, l) = Matches(d, l) /\ i \notin Matches(d, l)
    BY <2>2, <2>4, <2>6, <2>11, <2>12 DEF Matches
  <2>15. Single(r)
    BY <2>13, <2>14 DEF Sound, Single
  <2>16. Sound(r)
    BY <2>9, <2>10, <2>15 DEF Sound
  <2>17. View(r, m)[k] = m
    BY <2>13, <2>16, Lookup
  <2>18. ASSUME NEW l \in Keys \ {k} PROVE View(r, m)[l] = View(d, m)[l]
    <3>1. \A j \in Matches(d, l) : r.val[j] = d.val[j]
      BY <2>11, <2>14 DEF Matches
    <3>2. QED
      BY <2>14, <2>16, <3>1, SameView
  <2>19. View(r, m) = [View(d, m) EXCEPT ![k] = m]
    BY <2>17, <2>18 DEF View
  <2>20. QED
    BY <2>1, <2>16, <2>19
<1>3. QED
  BY <1>1, <1>2

\* After dictionary_clear nothing is found, although n and some keys stay.
LEMMA ClearSound ==
  ASSUME NEW d, Sound(d), NEW m
  PROVE  /\ Sound(dictionary_clear(d))
         /\ View(dictionary_clear(d), m) = [k \in Keys |-> m]
<1>1. PICK r : r = dictionary_clear(d)
  OBVIOUS
<1>2. /\ r = [n |-> r.n, size |-> r.size, key |-> r.key, val |-> r.val, hash |-> r.hash]
      /\ r.n = d.n /\ r.size = d.size /\ Slots(r) = Slots(d)
      /\ r.key = Wiped(d, d.key) /\ r.val = Wiped(d, d.val)
      /\ r.hash = [i \in Slots(d) |-> 0]
  BY <1>1 DEF dictionary_clear, Sound, Shape, Slots
<1>3. /\ d.size \in Nat \ {0} /\ d.n \in Nat
      /\ Cardinality(Used(d)) <= d.n /\ d.n <= d.size
      /\ d.key \in [Slots(d) -> Keys \cup {NULL}] /\ d.val \in [Slots(d) -> Values]
  BY DEF Sound, Shape, Counted
<1>4. /\ r.key \in [Slots(r) -> Keys \cup {NULL}]
      /\ \A i \in Slots(r) : r.key[i] \in {NULL, d.key[i]}
  BY <1>2, <1>3 DEF Wiped
<1>5. r.val \in [Slots(r) -> Values]
  BY <1>2, <1>3 DEF Wiped, Values
<1>6. r.hash \in [Slots(r) -> Nat] /\ \A i \in Slots(r) : r.hash[i] = 0
  BY <1>2
<1>7. Shape(r)
  BY <1>2, <1>3, <1>4, <1>5, <1>6 DEF Shape
<1>8. Counted(r)
  <2>1. Used(r) \subseteq Used(d)
    BY <1>2, <1>4 DEF Used
  <2>2. Cardinality(Used(r)) <= Cardinality(Used(d))
    BY <2>1, UsedFinite, FS_Subset DEF Sound
  <2>3. Cardinality(Used(r)) \in Nat /\ Cardinality(Used(d)) \in Nat
    BY <1>7, UsedFinite DEF Sound
  <2>4. QED
    BY <1>2, <1>3, <2>2, <2>3 DEF Counted
<1>9. \A k \in Keys : Matches(r, k) = {}
  BY <1>6, DictionaryAssumption DEF Matches
<1>10. QED
  BY <1>1, <1>7, <1>8, <1>9 DEF Sound, Single, View, dictionary_get

(***************************************************************************)
(* The program and its dictionary.                                         *)
(***************************************************************************)
Busy == pc \in {"load", "reload"}

\* What the pointer points to is a dictionary, or known not to be one.
Tabled == dict \in {NoDict, Gone} \/ Sound(dict)

Ranges ==
  /\ pc \in {"idle", "load", "reload", "dead"} /\ errs \in {-1} \cup (0 .. MaxLines)
  /\ ret \in {0, 2, -1, -3} /\ asFile \in BOOLEAN /\ reloaded \in BOOLEAN

\* In the loops: a line to go on with began as a value or a comment, and the
\* dictionary is there as long as no memory was missing.
Unfinished(x) ==
  /\ x \in LineType /\ x.kind \in {"value", "skip"}
  /\ x.kind = "value" => \A s \in Sections : <<s, x.name>> \in Keys
Reading ==
  Busy => /\ file \in Seq(Lines) /\ errs <= Len(file)
          /\ section \in Sections
          /\ last # NULL => Unfinished(last)
          /\ errs >= 0 => Sound(dict)

IInv == Tabled /\ Ranges /\ Reading

\* A dictionary is not taken for a null pointer, nor for freed memory.
LEMMA SoundIsAlive ==
  ASSUME NEW d, Sound(d)
  PROVE  d # NoDict /\ d # Gone
BY DEF Sound, Shape, NoDict, Gone

\* What stands for no dictionary has the type of one with no slots.
LEMMA NothingTyped ==
  ASSUME NEW d \in {NoDict, Gone}
  PROVE  /\ d.n \in Nat /\ d.size \in Nat
         /\ d.key \in [Slots(d) -> Keys \cup {NULL}]
         /\ d.val \in [Slots(d) -> Values]
         /\ d.hash \in [Slots(d) -> Nat]
<1>1. d.n \in Nat /\ d.size = 0 /\ d.key = <<>> /\ d.val = <<>> /\ d.hash = <<>>
  BY DEF NoDict, Gone
<1>2. Slots(d) = {}
  BY <1>1 DEF Slots
<1>3. \A S : <<>> \in [{} -> S]
  OBVIOUS
<1>4. QED
  BY <1>1, <1>2, <1>3

\* The inductive invariant says the types.
LEMMA IInvTyped == IInv => TypeOK
<1>1. SUFFICES ASSUME IInv PROVE TypeOK
  OBVIOUS
<1>2. CASE dict \in {NoDict, Gone}
  BY <1>1, <1>2, NothingTyped DEF IInv, Ranges, TypeOK
<1>3. CASE Sound(dict)
  BY <1>1, <1>3 DEF IInv, Ranges, TypeOK, Sound, Shape
<1>4. QED
  BY <1>1, <1>2, <1>3 DEF IInv, Tabled

\* The range of errs is not empty.
LEMMA Bounds == MaxLines \in Nat /\ 0 \in 0 .. MaxLines
<1>1. MaxLines \in Nat
  BY IniParserAssumption, Zenon
<1>2. QED
  BY <1>1

\* The program uses keys and values of the right type.
LEMMA UserTyped == UserKeys \subseteq Keys /\ UserValues \subseteq Values
BY IniParserAssumption, Zenon

\* At the start there is no dictionary.
LEMMA IInvInit == Init => IInv
<1>1. Init => Tabled
  BY DEF Init, Tabled
<1>2. Init => Ranges
  BY Bounds DEF Init, Ranges
<1>3. Init => Reading
  BY DEF Init, Reading, Busy
<1>4. QED
  BY <1>1, <1>2, <1>3 DEF IInv

\* The key and the value a complete line stores are ones the dictionary takes.
LEMMA LineTyped ==
  ASSUME NEW line \in Lines
  PROVE  /\ line \in LineType
         /\ line.kind \in {"section", "value", "skip", "error", "long"}
         /\ line.value \in Seq(Words) /\ line.text \in Seq(Words) /\ line.more \in BOOLEAN
         /\ line.more => line.kind \in {"value", "skip"}
         /\ line.kind = "section" => line.name = NULL \/ <<line.name>> \in Keys
         /\ line.kind = "value" => \A s \in Sections : <<s, line.name>> \in Keys
<1>1. line \in LineType
  BY IniParserAssumption
<1>2. /\ line.kind \in {"section", "value", "skip", "error", "long"}
      /\ line.value \in Seq(Words) /\ line.text \in Seq(Words) /\ line.more \in BOOLEAN
  BY <1>1 DEF LineType
<1>3. QED
  BY <1>1, <1>2, IniParserAssumption

\* A line joined to the one it continues is a line.
LEMMA JoinedTyped ==
  ASSUME IInv, Busy, NEW line \in Lines, line.kind # "long"
  PROVE  /\ Joined(line) \in LineType
         /\ Joined(line).value \in Seq(Words)
         /\ line.more => Unfinished(Joined(line))
         /\ Joined(line).kind = "section" => Joined(line) = line
         /\ Joined(line).kind = "value" => \A s \in Sections : <<s, Joined(line).name>> \in Keys
<1>1. CASE last = NULL
  BY <1>1, LineTyped DEF Joined, Unfinished
<1>2. CASE last # NULL
  <2>1. PICK x, j : x = last /\ j = Joined(line)
    OBVIOUS
  <2>2. Unfinished(x)
    BY <1>2, <2>1 DEF IInv, Reading
  <2>3. j = [x EXCEPT !.value = x.value \o line.text, !.more = line.more]
    BY <1>2, <2>1 DEF Joined
  <2>4. x.value \o line.text \in Seq(Words) /\ line.more \in BOOLEAN
    <3>1. x.value \in Seq(Words) /\ line.text \in Seq(Words) /\ line.more \in BOOLEAN
      BY <2>2, LineTyped DEF Unfinished, LineType
    <3>2. QED
      BY <3>1, ConcatProperties
  <2>5. /\ j \in LineType /\ j.kind = x.kind /\ j.name = x.name /\ j.value = x.value \o line.text
    BY <2>2, <2>3, <2>4 DEF Unfinished, LineType
  <2>6. QED
    BY <2>1, <2>2, <2>4, <2>5 DEF Unfinished
<1>3. QED
  BY <1>1, <1>2

\* The key a section line sets is a key.
LEMMA SectionTyped ==
  ASSUME IInv, NEW line \in Lines, Complete(line, "section")
  PROVE  /\ SectionOf(line) \in Sections /\ <<SectionOf(line)>> \in Keys
         /\ Joined(line) = line
<1>1. Busy /\ line.kind # "long" /\ Joined(line).kind = "section"
      /\ (line.kind = "section" /\ line.name = NULL => section # "")
  BY DEF Complete, Reads, Busy
<1>2. Joined(line) = line /\ line.kind = "section"
  BY <1>1, JoinedTyped
<1>3. section \in Sections
  BY <1>1 DEF IInv, Reading
<1>4. CASE line.name = NULL
  <2>1. SectionOf(line) = section /\ section # ""
    BY <1>1, <1>2, <1>4 DEF SectionOf
  <2>2. PICK l \in Lines : l.kind = "section" /\ l.name = section /\ section # NULL
    BY <1>3, <2>1 DEF Sections
  <2>3. <<section>> \in Keys
    BY <2>2, LineTyped
  <2>4. QED
    BY <1>2, <1>3, <2>1, <2>3
<1>5. CASE line.name # NULL
  BY <1>2, <1>5, LineTyped DEF SectionOf, Sections
<1>6. QED
  BY <1>4, <1>5

\* What comes before a mark is made of words.
LEMMA UpToTyped ==
  ASSUME NEW v \in Seq(Words), NEW S
  PROVE  UpTo(v, S) \in Seq(Words)
<1>1. PICK at : at = {i \in 1 .. Len(v) : v[i] \in S}
  OBVIOUS
<1>2. at # {} => Min(at) \in 1 .. Len(v)
  <2>1. SUFFICES ASSUME at # {} PROVE Min(at) \in 1 .. Len(v)
    OBVIOUS
  <2>2. at \in SUBSET Nat /\ at \subseteq 1 .. Len(v)
    BY <1>1
  <2>3. Min(at) \in at
    BY <2>1, <2>2, LeastOne
  <2>4. QED
    BY <2>2, <2>3
<1>3. PICK n : n = IF at = {} THEN Len(v) ELSE Min(at) - 1
  OBVIOUS
<1>4. n \in Int /\ n <= Len(v)
  BY <1>2, <1>3
<1>5. SubSeq(v, 1, n) \in Seq(Words)
  <2>1. \A i \in 1 .. n : v[i] \in Words
    BY <1>4
  <2>2. QED
    BY <1>4, <2>1, SubSeqProperties
<1>6. QED
  BY <1>1, <1>3, <1>5 DEF UpTo

\* What is read of a value is a value.
LEMMA ParsedTyped ==
  ASSUME NEW v \in Seq(Words)
  PROVE  Parsed(v) \in Seq(Words)
<1>1. Quoted(v) => Tail(v) \in Seq(Words)
  BY DEF Quoted
<1>2. PICK read : read = IF Quoted(v) THEN UpTo(Tail(v), {v[1]}) ELSE UpTo(v, Marks)
  OBVIOUS
<1>3. read \in Seq(Words)
  BY <1>1, <1>2, UpToTyped
<1>4. Parsed(v) \in {<<>>, read}
  BY <1>2 DEF Parsed
<1>5. <<>> \in Seq(Words)
  OBVIOUS
<1>6. QED
  BY <1>3, <1>4, <1>5

\* So is the one a value line sets, and its value is a value.
LEMMA ValueTyped ==
  ASSUME IInv, NEW line \in Lines, Complete(line, "value")
  PROVE  <<section, Joined(line).name>> \in Keys /\ Parsed(Joined(line).value) \in Values
<1>1. Busy /\ line.kind # "long" /\ Joined(line).kind = "value"
  BY DEF Complete, Reads, Busy
<1>2. section \in Sections
  BY <1>1 DEF IInv, Reading
<1>3. Parsed(Joined(line).value) \in Seq(Words)
  BY <1>1, JoinedTyped, ParsedTyped
<1>4. QED
  BY <1>1, <1>2, <1>3, JoinedTyped DEF Values

\* The parts of a step that several actions share.
LEMMA ReadsOne ==
  ASSUME IInv, NEW line \in Lines, Reads(line)
  PROVE  /\ Busy /\ Sound(dict) /\ errs \in 0 .. MaxLines /\ section \in Sections
         /\ file' \in Seq(Lines) /\ Len(file') = Len(file) + 1
         /\ Len(file') \in 0 .. MaxLines /\ errs < Len(file')
         /\ last # NULL => Unfinished(last)
<1>1. Busy /\ errs >= 0 /\ Len(file) < MaxLines /\ file' = Append(file, line)
  BY DEF Reads, Busy
<1>2. /\ Sound(dict) /\ section \in Sections /\ file \in Seq(Lines) /\ errs <= Len(file)
      /\ last # NULL => Unfinished(last)
  BY <1>1 DEF IInv, Reading
<1>3. errs \in 0 .. MaxLines
  BY <1>1, Bounds DEF IInv, Ranges
<1>4. Len(file) \in Nat /\ file' \in Seq(Lines) /\ Len(file') = Len(file) + 1
  BY <1>1, <1>2
<1>5. QED
  BY <1>1, <1>2, <1>3, <1>4, Bounds

\* The beginning of a load or a reload.
LEMMA BeginStep ==
  ASSUME NEW d, Sound(d), Begin(d), IInv, ret' = ret,
         pc' \in {"load", "reload"}, reloaded' \in BOOLEAN
  PROVE  IInv'
<1>1. /\ dict' = d /\ section' = "" /\ last' = NULL /\ errs' = 0
      /\ file' = <<>> /\ asFile' = TRUE
  BY DEF Begin
<1>2. Tabled'
  BY <1>1 DEF Tabled
<1>3. Ranges'
  BY <1>1, Bounds DEF IInv, Ranges
<1>4. Reading'
  <2>1. "" \in Sections
    BY DEF Sections
  <2>2. <<>> \in Seq(Lines) /\ Len(<<>>) = 0
    OBVIOUS
  <2>3. file' \in Seq(Lines) /\ errs' <= Len(file')
    <3>1. file' = <<>> /\ errs' = 0
      BY <1>1
    <3>2. file' \in Seq(Lines) /\ Len(file') = 0
      BY <2>2, <3>1, Zenon
    <3>3. QED
      BY <3>1, <3>2
  <2>4. section' \in Sections /\ Sound(dict') /\ last' = NULL
    BY <1>1, <2>1
  <2>5. QED
    BY <2>3, <2>4 DEF Reading
<1>5. QED
  BY <1>2, <1>3, <1>4 DEF IInv

\* The end of a load or a reload.
LEMMA ReturnStep ==
  ASSUME NEW d, d \in {NoDict, Gone} \/ Sound(d), NEW r \in {0, 2, -1, -3}, Return(d, r),
         IInv, asFile' = asFile, reloaded' = reloaded
  PROVE  IInv'
<1>1. /\ dict' = (IF pc = "load" /\ d = Gone THEN NoDict ELSE d)
      /\ ret' = (IF pc = "load" THEN 0 ELSE r)
      /\ pc' = "idle" /\ section' = "" /\ last' = NULL /\ errs' = 0
  BY DEF Return
<1>2. Tabled'
  BY <1>1 DEF Tabled
<1>3. Ranges'
  BY <1>1, Bounds DEF IInv, Ranges
<1>4. Reading'
  BY <1>1 DEF Reading, Busy
<1>5. QED
  BY <1>2, <1>3, <1>4 DEF IInv

\* An answer of the program's calls: no loop is running afterwards.
LEMMA CallStep ==
  ASSUME IInv, pc' \in {"idle", "dead"}, dict' \in {NoDict, Gone} \/ Sound(dict'),
         errs' \in {errs, 0}, ret' \in {ret, 0, 2, -1},
         asFile' \in {asFile, FALSE}, reloaded' \in {reloaded, FALSE}
  PROVE  IInv'
<1>1. Tabled'
  BY DEF Tabled
<1>2. Ranges'
  BY Bounds DEF IInv, Ranges
<1>3. Reading'
  BY DEF Reading, Busy
<1>4. QED
  BY <1>1, <1>2, <1>3 DEF IInv

\* A turn of the loop that ends with a dictionary.
LEMMA LineStep ==
  ASSUME IInv, NEW line \in Lines, Reads(line), Sound(dict'),
         pc' = pc, ret' = ret, section' \in Sections,
         last' = NULL \/ Unfinished(last'), errs' \in {0, errs, errs + 1}
  PROVE  IInv'
<1>1. /\ errs \in 0 .. MaxLines /\ file' \in Seq(Lines)
      /\ Len(file') \in 0 .. MaxLines /\ errs < Len(file')
  BY ReadsOne
<1>2. asFile' = asFile /\ reloaded' = reloaded
  BY DEF Reads
<1>3. errs' \in 0 .. MaxLines /\ errs' <= Len(file')
  BY <1>1, Bounds
<1>4. Tabled'
  BY DEF Tabled
<1>5. Ranges'
  BY <1>2, <1>3 DEF IInv, Ranges
<1>6. Reading'
  BY <1>1, <1>3 DEF Reading
<1>7. QED
  BY <1>4, <1>5, <1>6 DEF IInv

\* Each turn of the loop over the lines.
LEMMA LineNext ==
  ASSUME IInv, NEW line \in Lines,
         \/ LineTooLong(line) \/ LineContinues(line) \/ LineSkipped(line)
         \/ LineError(line) \/ LineSection(line) \/ LineValue(line) \/ LineNoMemory(line)
  PROVE  IInv'
<1>1. CASE LineTooLong(line)
  <2>1. Return(Gone, -3) /\ asFile' = asFile /\ reloaded' = reloaded
    BY <1>1 DEF LineTooLong, Reads
  <2>2. QED
    BY <2>1, ReturnStep
<1>2. CASE LineContinues(line)
  <2>1. /\ line.kind # "long" /\ line.more /\ Reads(line) /\ last' = Joined(line)
        /\ dict' = dict /\ pc' = pc /\ section' = section /\ errs' = errs /\ ret' = ret
    BY <1>2 DEF LineContinues
  <2>2. Sound(dict) /\ section \in Sections /\ Busy
    BY <2>1, ReadsOne
  <2>3. Unfinished(Joined(line))
    BY <2>1, <2>2, JoinedTyped
  <2>4. Sound(dict') /\ section' \in Sections /\ Unfinished(last')
    BY <2>1, <2>2, <2>3
  <2>5. QED
    BY <2>1, <2>4, LineStep
<1>3. CASE LineSkipped(line) \/ LineError(line)
  <2>1. /\ Reads(line) /\ last' = NULL /\ errs' \in {errs, errs + 1}
        /\ dict' = dict /\ pc' = pc /\ section' = section /\ ret' = ret
    BY <1>3 DEF LineSkipped, LineError, Complete
  <2>2. Sound(dict) /\ section \in Sections
    BY <2>1, ReadsOne
  <2>3. Sound(dict') /\ section' \in Sections
    BY <2>1, <2>2
  <2>4. QED
    BY <2>1, <2>3, LineStep
<1>4. CASE LineSection(line)
  <2>1. /\ Complete(line, "section") /\ Reads(line) /\ last' = NULL /\ errs' = 0 /\ pc' = pc
        /\ ret' = ret /\ section' = SectionOf(line)
        /\ dict' = dictionary_set(dict, <<SectionOf(line)>>, NULL)
    BY <1>4 DEF LineSection, Stored, Complete
  <2>2. Sound(dict) /\ SectionOf(line) \in Sections /\ <<SectionOf(line)>> \in Keys
        /\ NULL \in Values
    BY <2>1, ReadsOne, SectionTyped DEF Values
  <2>3. Sound(dict') /\ section' \in Sections
    BY <2>1, <2>2, SetSound
  <2>4. QED
    BY <2>1, <2>3, LineStep
<1>5. CASE LineValue(line)
  <2>1. /\ Complete(line, "value") /\ Reads(line) /\ last' = NULL /\ errs' = 0 /\ pc' = pc
        /\ ret' = ret /\ section' = section
        /\ dict' = dictionary_set(dict, <<section, Joined(line).name>>,
                                        Parsed(Joined(line).value))
    BY <1>5 DEF LineValue, Stored, Complete
  <2>2. /\ Sound(dict) /\ section \in Sections
        /\ <<section, Joined(line).name>> \in Keys /\ Parsed(Joined(line).value) \in Values
    BY <2>1, ReadsOne, ValueTyped
  <2>3. Sound(dict') /\ section' \in Sections
    BY <2>1, <2>2, SetSound
  <2>4. QED
    BY <2>1, <2>3, LineStep
<1>6. CASE LineNoMemory(line)
  <2>1. /\ Reads(line) /\ last' = NULL /\ ret' = ret /\ dict' = Gone
        /\ asFile' = asFile /\ reloaded' = reloaded
        /\ \/ pc' = "dead" /\ section' = section /\ errs' = errs
           \/ errs' = -1 /\ pc' = pc /\ section' = section
    BY <1>6 DEF LineNoMemory, Complete, Reads
  <2>2. /\ section \in Sections /\ file' \in Seq(Lines) /\ Len(file') \in Nat
    BY <2>1, ReadsOne
  <2>3. Tabled'
    BY <2>1 DEF Tabled
  <2>4. Ranges'
    BY <2>1 DEF IInv, Ranges
  <2>5. Reading'
    BY <2>1, <2>2 DEF Reading, Busy
  <2>6. QED
    BY <2>3, <2>4, <2>5 DEF IInv
<1>7. QED
  BY <1>1, <1>2, <1>3, <1>4, <1>5, <1>6

\* The type of the dictionary an idle program has.
LEMMA AliveIsSound == IInv /\ Alive => Sound(dict)
BY DEF IInv, Tabled, Alive

\* Every step keeps the inductive invariant.
LEMMA IInvNext == IInv /\ [Next]_vars => IInv'
<1>1. SUFFICES ASSUME IInv, [Next]_vars PROVE IInv'
  OBVIOUS
<1>2. CASE Load
  <2>1. /\ Begin(dictionary_new) /\ ret' = ret /\ pc' \in {"load", "reload"}
        /\ reloaded' \in BOOLEAN
    BY <1>2 DEF Load
  <2>2. QED
    BY <1>1, <2>1, NewSound, BeginStep
<1>3. CASE Reload
  <2>1. /\ Begin(dictionary_clear(dict)) /\ ret' = ret /\ pc' \in {"load", "reload"}
        /\ reloaded' \in BOOLEAN /\ Alive
    BY <1>3 DEF Reload
  <2>2. Sound(dictionary_clear(dict))
    BY <1>1, <2>1, AliveIsSound, ClearSound
  <2>3. QED
    BY <1>1, <2>1, <2>2, BeginStep
<1>4. CASE ReloadNoFile
  BY <1>1, <1>4, CallStep DEF ReloadNoFile, IInv, Tabled, locals
<1>5. CASE \E line \in Lines :
             \/ LineTooLong(line) \/ LineContinues(line) \/ LineSkipped(line)
             \/ LineError(line) \/ LineSection(line) \/ LineValue(line) \/ LineNoMemory(line)
  BY <1>1, <1>5, LineNext
<1>6. CASE EndOfFile
  <2>1. PICK d : d = IF errs # 0 THEN Gone ELSE dict
    OBVIOUS
  <2>2. Return(d, 0) /\ asFile' = asFile /\ reloaded' = reloaded
    BY <1>6, <2>1 DEF EndOfFile
  <2>3. d \in {NoDict, Gone} \/ Sound(d)
    BY <1>1, <2>1 DEF IInv, Tabled
  <2>4. QED
    BY <1>1, <2>2, <2>3, ReturnStep
<1>7. CASE \E k \in UserKeys : \E v \in UserValues : iniparser_set(k, v)
  <2>1. PICK k \in Keys, v \in Values : iniparser_set(k, v)
    BY <1>7, UserTyped
  <2>2. /\ Alive /\ dict' = dictionary_set(dict, k, v) /\ ret' = 0 /\ pc' = "idle"
        /\ errs' = errs /\ asFile' = FALSE /\ reloaded' = reloaded
    BY <2>1 DEF iniparser_set, locals
  <2>3. Sound(dict')
    BY <1>1, <2>2, AliveIsSound, SetSound
  <2>4. QED
    BY <1>1, <2>2, <2>3, CallStep
<1>8. CASE \E k \in UserKeys : SetNoMemory(k)
  <2>1. /\ dict' = Gone /\ ret' = -1 /\ pc' = "idle" /\ errs' = errs
        /\ asFile' = asFile /\ reloaded' = reloaded
    BY <1>8 DEF SetNoMemory, locals
  <2>2. QED
    BY <1>1, <2>1, CallStep
<1>9. CASE \E k \in UserKeys : iniparser_unset(k)
  <2>1. PICK k \in Keys : iniparser_unset(k)
    BY <1>9, UserTyped
  <2>2. /\ Alive /\ dict' = dictionary_unset(dict, k) /\ ret' = ret /\ pc' = "idle"
        /\ errs' = errs /\ asFile' = FALSE /\ reloaded' = reloaded
    BY <2>1 DEF iniparser_unset, locals
  <2>3. Sound(dict')
    BY <1>1, <2>2, AliveIsSound, UnsetSound
  <2>4. QED
    BY <1>1, <2>2, <2>3, CallStep
<1>10. CASE UseGone \/ \E k \in Keys : GetNumber(k)
  <2>1. /\ dict' = Gone /\ ret' = ret /\ pc' = "dead" /\ errs' = errs
        /\ asFile' = asFile /\ reloaded' = reloaded
    BY <1>10 DEF UseGone, GetNumber, Die, locals
  <2>2. QED
    BY <1>1, <2>1, CallStep
<1>11. CASE iniparser_freedict
  <2>1. /\ dict' = NoDict /\ ret' = ret /\ pc' = "idle" /\ errs' = errs
        /\ asFile' = asFile /\ reloaded' = reloaded
    BY <1>11 DEF iniparser_freedict, locals
  <2>2. QED
    BY <1>1, <2>1, CallStep
<1>12. CASE Restart
  <2>1. /\ dict' = NoDict /\ ret' = 0 /\ pc' = "idle" /\ errs' = 0
        /\ asFile' = FALSE /\ reloaded' = FALSE
    BY <1>12 DEF Restart
  <2>2. QED
    BY <1>1, <2>1, CallStep
<1>13. CASE UNCHANGED vars
  BY <1>1, <1>13 DEF vars, locals, IInv, Tabled, Ranges, Reading, Busy
<1>14. QED
  BY <1>1, <1>2, <1>3, <1>4, <1>5, <1>6, <1>7, <1>8, <1>9, <1>10, <1>11, <1>12, <1>13 DEF Next

\* The invariant behind the theorems below holds in every state.
THEOREM ConfigInvariance == Spec => []IInv
BY IInvInit, IInvNext, PTL DEF Spec

\* The dictionary and the locals of the loops have their types.
THEOREM ConfigTypeCorrect == Spec => []TypeOK
BY ConfigInvariance, IInvTyped, PTL

\* No more keys are there than are counted, so a probe for an empty slot ends.
THEOREM ProbesEnd == Spec => []ProbeEnds
<1>1. IInv => ProbeEnds
  BY AliveIsSound DEF ProbeEnds, Sound, Counted, Used
<1>2. QED
  BY <1>1, ConfigInvariance, PTL

(***************************************************************************)
(* The map that the lookups show.                                          *)
(***************************************************************************)
Shown == IF Alive THEN View(dict, MISSING) ELSE NULL

\* What the lookups show is a map, or nothing.
LEMMA ShownMap ==
  ASSUME IInv, Alive
  PROVE  /\ Sound(dict) /\ Shown = View(dict, MISSING)
         /\ Shown \in [Keys -> Values \cup {MISSING}] /\ Shown # NULL
<1>1. Sound(dict) /\ Shown = View(dict, MISSING)
  BY AliveIsSound DEF Shown
<1>2. Shown \in [Keys -> Values \cup {MISSING}]
  BY <1>1, ViewType
<1>3. NULL \notin [Keys -> Values \cup {MISSING}]
  BY IniParserAssumption, Zenon
<1>4. QED
  BY <1>1, <1>2, <1>3

\* What the lookups show after a step.
LEMMA ShownNext ==
  /\ Sound(dict') => Shown' = View(dict', MISSING)
  /\ dict' \in {NoDict, Gone} => Shown' = NULL
  /\ dict' = dict => Shown' = Shown
<1>1. Shown' = IF dict' # NoDict /\ dict' # Gone THEN View(dict', MISSING) ELSE NULL
  BY DEF Shown, Alive
<1>2. Shown = IF dict # NoDict /\ dict # Gone THEN View(dict, MISSING) ELSE NULL
  BY DEF Shown, Alive
<1>3. Sound(dict') => dict' # NoDict /\ dict' # Gone
  BY SoundIsAlive
<1>4. QED
  BY <1>1, <1>2, <1>3

\* A set puts the value it is given at its key.
LEMMA SetPuts ==
  ASSUME IInv, Sound(dict), NEW k \in Keys, NEW v \in Values,
         dict' = dictionary_set(dict, k, v)
  PROVE  Store!Put(k, v)
<1>1. Alive
  BY SoundIsAlive DEF Alive
<1>2. Sound(dict') /\ View(dict', MISSING) = [View(dict, MISSING) EXCEPT ![k] = v]
  BY SetSound
<1>3. Shown # NULL /\ Shown' = [Shown EXCEPT ![k] = v]
  BY <1>1, <1>2, ShownMap, ShownNext
<1>4. QED
  BY <1>3 DEF Store!Put, Shown

\* So does a line with a section, and one with a value.
LEMMA LinePuts ==
  ASSUME IInv, NEW line \in Lines
  PROVE  /\ LineSection(line) => /\ <<SectionOf(line)>> \in Keys
                                 /\ Store!Put(<<SectionOf(line)>>, NULL)
         /\ LineValue(line) =>
              /\ <<section, Joined(line).name>> \in Keys
              /\ Store!Put(<<section, Joined(line).name>>, Parsed(Joined(line).value))
<1>1. ASSUME NEW k \in Keys, NEW v \in Values, Reads(line), dict' = dictionary_set(dict, k, v)
      PROVE  Store!Put(k, v)
  BY <1>1, ReadsOne, SetPuts
<1>2. ASSUME LineSection(line)
      PROVE  <<SectionOf(line)>> \in Keys /\ Store!Put(<<SectionOf(line)>>, NULL)
  <2>1. /\ Complete(line, "section") /\ Reads(line)
        /\ dict' = dictionary_set(dict, <<SectionOf(line)>>, NULL)
    BY <1>2 DEF LineSection, Stored, Complete
  <2>2. <<SectionOf(line)>> \in Keys /\ NULL \in Values
    BY <2>1, SectionTyped DEF Values
  <2>3. QED
    BY <1>1, <2>1, <2>2
<1>3. ASSUME LineValue(line)
      PROVE  /\ <<section, Joined(line).name>> \in Keys
             /\ Store!Put(<<section, Joined(line).name>>, Parsed(Joined(line).value))
  <2>1. /\ Complete(line, "value") /\ Reads(line)
        /\ dict' = dictionary_set(dict, <<section, Joined(line).name>>,
                                        Parsed(Joined(line).value))
    BY <1>3 DEF LineValue, Stored, Complete
  <2>2. <<section, Joined(line).name>> \in Keys /\ Parsed(Joined(line).value) \in Values
    BY <2>1, ValueTyped
  <2>3. QED
    BY <1>1, <2>1, <2>2
<1>4. QED
  BY <1>2, <1>3

\* The program's own set puts its value, and unset removes.
LEMMA CallTells ==
  ASSUME IInv, NEW k \in Keys
  PROVE  /\ iniparser_unset(k) => Store!Remove(k)
         /\ \A v \in Values : iniparser_set(k, v) => Store!Put(k, v)
<1>1. ASSUME iniparser_unset(k) PROVE Store!Remove(k)
  <2>1. Alive /\ dict' = dictionary_unset(dict, k)
    BY <1>1 DEF iniparser_unset
  <2>2. Sound(dict') /\ View(dict', MISSING) = [View(dict, MISSING) EXCEPT ![k] = MISSING]
    BY <2>1, AliveIsSound, UnsetSound
  <2>3. Shown # NULL /\ Shown' = [Shown EXCEPT ![k] = MISSING]
    BY <2>1, <2>2, ShownMap, ShownNext
  <2>4. QED
    BY <2>3 DEF Store!Remove, Shown
<1>2. ASSUME NEW v \in Values, iniparser_set(k, v) PROVE Store!Put(k, v)
  <2>1. Alive /\ dict' = dictionary_set(dict, k, v)
    BY <1>2 DEF iniparser_set
  <2>2. QED
    BY <2>1, AliveIsSound, SetPuts
<1>3. QED
  BY <1>1, <1>2

\* A load and a reload begin with an empty map.
LEMMA BeginsEmpty == IInv /\ (Load \/ Reload) => Store!Open
<1>1. SUFFICES ASSUME IInv, Load \/ Reload PROVE Store!Open
  OBVIOUS
<1>2. Sound(dict') /\ View(dict', MISSING) = [k \in Keys |-> MISSING]
  <2>1. CASE Load
    <3>1. dict' = dictionary_new
      BY <2>1 DEF Load, Begin
    <3>2. QED
      BY <3>1, NewSound
  <2>2. CASE Reload
    <3>1. dict' = dictionary_clear(dict) /\ Alive
      BY <2>2 DEF Reload, Begin
    <3>2. QED
      BY <1>1, <3>1, AliveIsSound, ClearSound
  <2>3. QED
    BY <1>1, <2>1, <2>2
<1>3. Shown' = [k \in Keys |-> MISSING]
  BY <1>2, ShownNext
<1>4. QED
  BY <1>3 DEF Store!Open, Store!Empty, Shown

\* What changes nothing else loses the map at most.
LEMMA OthersLose ==
  ASSUME [Next]_vars, ~Changes
  PROVE  dict' = dict \/ Store!Lose
<1>1. dict' = dict \/ dict' \in {NoDict, Gone}
  <2>1. CASE \E line \in Lines :
               \/ LineTooLong(line) \/ LineContinues(line) \/ LineSkipped(line)
               \/ LineError(line) \/ LineSection(line) \/ LineValue(line) \/ LineNoMemory(line)
    BY <2>1 DEF Changes, LineTooLong, LineContinues, LineSkipped, LineError, LineNoMemory, Return
  <2>2. CASE \E k \in UserKeys :
               \/ \E v \in UserValues : iniparser_set(k, v)
               \/ SetNoMemory(k) \/ iniparser_unset(k)
    BY <2>2 DEF Changes, SetNoMemory
  <2>3. CASE ReloadNoFile \/ EndOfFile \/ UNCHANGED vars
    BY <2>3 DEF ReloadNoFile, EndOfFile, Return, vars
  <2>4. CASE UseGone \/ (\E k \in Keys : GetNumber(k)) \/ iniparser_freedict \/ Restart
    BY <2>4 DEF UseGone, GetNumber, Die, iniparser_freedict, Restart
  <2>5. QED
    BY <2>1, <2>2, <2>3, <2>4 DEF Changes, Next
<1>2. dict' \in {NoDict, Gone} => Shown' = NULL
  BY ShownNext
<1>3. QED
  BY <1>1, <1>2 DEF Store!Lose, Shown

\* Each line and each call does to the map what it says.
LEMMA StepsTold == IInv /\ [Next]_vars => AsTold
<1>1. SUFFICES ASSUME IInv, [Next]_vars PROVE AsTold
  OBVIOUS
<1>2. Load \/ Reload => Store!Open
  BY <1>1, BeginsEmpty
<1>3. ASSUME NEW k \in UserKeys
      PROVE  /\ iniparser_unset(k) => Store!Remove(k)
             /\ \A v \in UserValues : iniparser_set(k, v) => Store!Put(k, v)
  BY <1>1, CallTells, UserTyped
<1>4. ASSUME NEW line \in Lines
      PROVE  /\ LineSection(line) => Store!Put(<<SectionOf(line)>>, NULL)
             /\ LineValue(line) =>
                  Store!Put(<<section, Joined(line).name>>, Parsed(Joined(line).value))
  BY <1>1, LinePuts
<1>5. ~Changes => dict' = dict \/ Store!Lose
  BY <1>1, OthersLose
<1>6. QED
  BY <1>2, <1>3, <1>4, <1>5 DEF AsTold

\* Such a step is one of the store.
LEMMA ToldIsNext == IInv /\ [Next]_vars => [Store!StoreNext]_Shown
<1>1. SUFFICES ASSUME IInv, [Next]_vars PROVE Store!StoreNext \/ Shown' = Shown
  OBVIOUS
<1>2. AsTold
  BY <1>1, StepsTold
<1>3. ASSUME NEW k \in Keys, NEW v, Store!Put(k, v) PROVE Store!StoreNext
  <2>1. Shown # NULL /\ v \in Values /\ Shown' = [Shown EXCEPT ![k] = v]
    BY <1>3 DEF Store!Put, Shown
  <2>2. Shown \in [Keys -> Values \cup {MISSING}]
    BY <1>1, <2>1, ShownMap DEF Shown
  <2>3. Shown'[k] = v
    BY <2>1, <2>2
  <2>4. Store!Put(k, Shown'[k])
    BY <1>3, <2>3
  <2>5. QED
    BY <2>4 DEF Store!StoreNext, Shown
<1>4. CASE Load \/ Reload
  BY <1>2, <1>4 DEF AsTold, Store!StoreNext
<1>5. CASE \E k \in UserKeys : iniparser_unset(k) \/ \E v \in UserValues : iniparser_set(k, v)
  <2>1. PICK k \in UserKeys : iniparser_unset(k) \/ \E v \in UserValues : iniparser_set(k, v)
    BY <1>5
  <2>2. k \in Keys
    BY UserTyped
  <2>3. Store!Remove(k) \/ \E v \in UserValues : Store!Put(k, v)
    BY <1>2, <2>1 DEF AsTold
  <2>4. QED
    BY <1>3, <2>2, <2>3 DEF Store!StoreNext
<1>6. CASE \E line \in Lines : LineSection(line) \/ LineValue(line)
  <2>1. PICK line \in Lines : LineSection(line) \/ LineValue(line)
    BY <1>6
  <2>2. \E k \in Keys, v \in Values : Store!Put(k, v)
    <3>1. CASE LineSection(line)
      BY <1>1, <3>1, LinePuts DEF Values
    <3>2. CASE LineValue(line)
      <4>1. Complete(line, "value")
        BY <3>2 DEF LineValue
      <4>2. QED
        BY <1>1, <3>2, <4>1, LinePuts, ValueTyped
    <3>3. QED
      BY <2>1, <3>1, <3>2
  <2>3. QED
    BY <1>3, <2>2
<1>7. CASE ~Changes
  <2>1. dict' = dict \/ Store!Lose
    BY <1>2, <1>7 DEF AsTold
  <2>2. QED
    BY <2>1, ShownNext DEF Store!StoreNext
<1>8. QED
  BY <1>4, <1>5, <1>6, <1>7 DEF Changes

\* The lookups are those of a map: every line and every call changes the entry
\* it names to the value it gives, and nothing else, whatever the table went
\* through before.
THEOREM ConfigImplementsStore == Spec => ImplementsStore
<1>1. Init => Store!StoreInit
  BY DEF Init, Alive, Store!StoreInit
<1>2. IInv /\ [Next]_vars => [Store!StoreNext]_Shown /\ [AsTold]_vars
  BY StepsTold, ToldIsNext
<1>3. Spec => Store!StoreInit /\ [][Store!StoreNext]_Shown /\ [][AsTold]_vars
  BY <1>1, <1>2, ConfigInvariance, PTL DEF Spec
<1>4. QED
  BY <1>3 DEF ImplementsStore, Store!StoreSpec, Shown

(***************************************************************************)
(* What errs tells of the lines before.                                    *)
(***************************************************************************)
Telling == {"section", "value", "error"}
\* The complete lines of some kinds.
Ended(f, K) ==
  {i \in Starts(f) : f[i].kind \in K /\ \E j \in i .. Len(f) : ~f[j].more}
Said(f) == Ended(f, Telling)

\* errs is that of the last line that counts.
ErrorsTell ==
  \/ Said(file) = {} /\ errs = 0
  \/ \E x \in Said(file) : /\ \A y \in Said(file) : y <= x
                           /\ errs # 0 <=> file[x].kind = "error"

\* last is there while the line that began at s goes on.
OpenFrom(f, s) == s \in Starts(f) /\ \A j \in s .. Len(f) : f[j].more
Cut ==
  /\ last = NULL => Len(file) = 0 \/ ~file[Len(file)].more
  /\ last # NULL => \E s \in Starts(file) : OpenFrom(file, s) /\ last.kind = file[s].kind

Tells == Busy /\ errs >= 0 => ErrorsTell /\ Cut

\* g is f and one line more.
Longer(f, l, g) ==
  /\ Len(f) \in Nat /\ Len(g) = Len(f) + 1 /\ g[Len(f) + 1] = l
  /\ \A i \in 1 .. Len(f) : g[i] = f[i]
  /\ Starts(f) \subseteq 1 .. Len(f) /\ Starts(g) \subseteq 1 .. (Len(f) + 1)
  /\ \A i \in 1 .. Len(f) : i \in Starts(g) <=> i \in Starts(f)
  /\ Len(f) + 1 \in Starts(g) <=> Len(f) = 0 \/ ~f[Len(f)].more

\* A line that is read is put after the others.
LEMMA AppendIsLonger ==
  ASSUME NEW f \in Seq(Lines), NEW l \in Lines, NEW g, g = Append(f, l)
  PROVE  Longer(f, l, g)
<1>1. /\ Len(f) \in Nat /\ Len(g) = Len(f) + 1 /\ g[Len(f) + 1] = l
      /\ \A i \in 1 .. Len(f) : g[i] = f[i]
  OBVIOUS
<1>2. Starts(f) \subseteq 1 .. Len(f) /\ Starts(g) \subseteq 1 .. (Len(f) + 1)
  BY <1>1 DEF Starts
<1>3. ASSUME NEW i \in 1 .. Len(f) PROVE i \in Starts(g) <=> i \in Starts(f)
  <2>1. i # 1 => g[i - 1] = f[i - 1]
    BY <1>1
  <2>2. QED
    BY <1>1, <2>1 DEF Starts
<1>4. Len(f) + 1 \in Starts(g) <=> Len(f) = 0 \/ ~f[Len(f)].more
  <2>1. Len(f) # 0 => g[(Len(f) + 1) - 1] = f[Len(f)]
    BY <1>1
  <2>2. QED
    BY <1>1, <2>1 DEF Starts
<1>5. QED
  BY <1>1, <1>2, <1>3, <1>4 DEF Longer

\* A line that is to be continued says nothing yet.
LEMMA EndedNoMore ==
  ASSUME NEW f, NEW l, NEW g, Longer(f, l, g), l.more, NEW K
  PROVE  Ended(g, K) = Ended(f, K)
<1>1. ASSUME NEW i \in Ended(g, K) PROVE i \in Ended(f, K)
  <2>1. PICK j \in i .. Len(g) : ~g[j].more
    BY DEF Ended
  <2>2. i \in 1 .. (Len(f) + 1) /\ i \in Starts(g) /\ g[i].kind \in K
    BY DEF Longer, Ended
  <2>3. j # Len(f) + 1 /\ j \in i .. Len(f) /\ i \in 1 .. Len(f) /\ j \in 1 .. Len(f)
    BY <2>1, <2>2 DEF Longer
  <2>4. i \in Starts(f) /\ f[i].kind \in K /\ ~f[j].more
    BY <2>1, <2>2, <2>3 DEF Longer
  <2>5. QED
    BY <2>3, <2>4 DEF Ended
<1>2. ASSUME NEW i \in Ended(f, K) PROVE i \in Ended(g, K)
  <2>1. PICK j \in i .. Len(f) : ~f[j].more
    BY DEF Ended
  <2>2. i \in 1 .. Len(f) /\ i \in Starts(f) /\ f[i].kind \in K
    BY DEF Longer, Ended
  <2>3. j \in i .. Len(g) /\ j \in 1 .. Len(f)
    BY <2>2 DEF Longer
  <2>4. i \in Starts(g) /\ g[i].kind \in K /\ ~g[j].more
    BY <2>1, <2>2, <2>3 DEF Longer
  <2>5. QED
    BY <2>3, <2>4 DEF Ended
<1>3. QED
  BY <1>1, <1>2

\* The line that began at s is complete, and the last of all.
LEMMA EndedOneMore ==
  ASSUME NEW f, NEW l, NEW g, Longer(f, l, g), ~l.more, NEW K,
         NEW s, \/ s = Len(f) + 1 /\ (Len(f) = 0 \/ ~f[Len(f)].more)
                \/ OpenFrom(f, s)
  PROVE  /\ s \in 1 .. Len(g) /\ \A y \in Ended(f, K) : y \in 1 .. Len(f) /\ y < s
         /\ Ended(g, K) = IF g[s].kind \in K THEN Ended(f, K) \cup {s} ELSE Ended(f, K)
<1>1. s \in Starts(g) /\ s \in 1 .. (Len(f) + 1) /\ (s # Len(f) + 1 => OpenFrom(f, s))
      /\ (OpenFrom(f, s) => s \in 1 .. Len(f))
  BY DEF Longer, OpenFrom
<1>2. ASSUME NEW i \in Starts(g) PROVE i <= s
  <2>1. SUFFICES ASSUME i > s PROVE FALSE
    BY <1>1 DEF Longer
  <2>2. i \in 1 .. (Len(f) + 1) /\ s \in 1 .. Len(f) /\ OpenFrom(f, s) /\ i # 1
    BY <1>1, <2>1 DEF Longer
  <2>3. ~g[i - 1].more /\ i - 1 \in s .. Len(f) /\ i - 1 \in 1 .. Len(f)
    BY <2>1, <2>2 DEF Starts
  <2>4. QED
    BY <2>2, <2>3 DEF Longer, OpenFrom
<1>3. ASSUME NEW i \in Starts(g), i # s PROVE i < s /\ i \in Starts(f) /\ \E j \in i .. Len(f) : ~f[j].more
  <2>1. i < s /\ i \in 1 .. Len(f) /\ s # 1 /\ s - 1 \in i .. Len(f) /\ s - 1 \in 1 .. Len(f)
    BY <1>1, <1>2, <1>3 DEF Longer
  <2>2. ~g[s - 1].more
    BY <1>1, <2>1 DEF Starts
  <2>3. QED
    BY <2>1, <2>2 DEF Longer
<1>4. s \notin Ended(f, K)
  <2>1. SUFFICES ASSUME s \in Ended(f, K) PROVE FALSE
    OBVIOUS
  <2>2. s \in 1 .. Len(f) /\ \E j \in s .. Len(f) : ~f[j].more
    BY <2>1 DEF Longer, Ended
  <2>3. OpenFrom(f, s)
    BY <1>1, <2>2 DEF Longer
  <2>4. QED
    BY <2>2, <2>3 DEF OpenFrom
<1>5. ASSUME NEW y \in Ended(f, K) PROVE y \in 1 .. Len(f) /\ y \in Starts(g) /\ y < s
  <2>1. y \in Starts(f) /\ y # s
    BY <1>4 DEF Ended
  <2>2. y \in 1 .. Len(f) /\ y \in Starts(g)
    BY <2>1 DEF Longer
  <2>3. QED
    BY <1>3, <2>1, <2>2
<1>6. ASSUME NEW i, i # s PROVE i \in Ended(g, K) <=> i \in Ended(f, K)
  <2>1. ASSUME i \in Ended(g, K) PROVE i \in Ended(f, K)
    <3>1. i \in Starts(g) /\ g[i].kind \in K
      BY <2>1 DEF Ended
    <3>2. i \in Starts(f) /\ i \in 1 .. Len(f) /\ \E j \in i .. Len(f) : ~f[j].more
      BY <1>3, <1>6, <3>1 DEF Longer
    <3>3. f[i].kind \in K
      BY <3>1, <3>2 DEF Longer
    <3>4. QED
      BY <3>2, <3>3 DEF Ended
  <2>2. ASSUME i \in Ended(f, K) PROVE i \in Ended(g, K)
    <3>1. i \in 1 .. Len(f) /\ i \in Starts(g)
      BY <1>5, <2>2
    <3>2. PICK j \in i .. Len(f) : ~f[j].more
      BY <2>2 DEF Ended
    <3>3. f[i].kind \in K /\ j \in i .. Len(g) /\ j \in 1 .. Len(f)
      BY <2>2, <3>1, <3>2 DEF Longer, Ended
    <3>4. g[i].kind \in K /\ ~g[j].more
      BY <3>1, <3>2, <3>3 DEF Longer
    <3>5. QED
      BY <3>1, <3>3, <3>4 DEF Ended
  <2>3. QED
    BY <2>1, <2>2
<1>7. s \in Ended(g, K) <=> g[s].kind \in K
  <2>1. Len(f) + 1 \in s .. Len(g) /\ ~g[Len(f) + 1].more
    BY <1>1 DEF Longer
  <2>2. QED
    BY <1>1, <2>1 DEF Ended
<1>8. CASE g[s].kind \in K
  <2>1. Ended(g, K) = Ended(f, K) \cup {s}
    BY <1>6, <1>7, <1>8
  <2>2. QED
    BY <1>1, <1>5, <1>8, <2>1 DEF Longer
<1>9. CASE g[s].kind \notin K
  <2>1. ASSUME NEW i PROVE i \in Ended(g, K) <=> i \in Ended(f, K)
    BY <1>4, <1>6, <1>7, <1>9
  <2>2. Ended(g, K) = Ended(f, K)
    BY <2>1
  <2>3. QED
    BY <1>1, <1>5, <1>9, <2>2 DEF Longer
<1>10. QED
  BY <1>8, <1>9

\* Where the line that is read began.
LEMMA Began ==
  ASSUME IInv, Tells, NEW line \in Lines, Reads(line)
  PROVE  /\ Longer(file, line, file') /\ ErrorsTell
         /\ \E s : /\ \/ s = Len(file) + 1 /\ (Len(file) = 0 \/ ~file[Len(file)].more)
                      \/ OpenFrom(file, s)
                   /\ file'[s].kind = Joined(line).kind
<1>1. Busy /\ errs >= 0 /\ file' = Append(file, line)
  BY DEF Reads, Busy
<1>2. /\ file \in Seq(Lines) /\ ErrorsTell /\ Cut
      /\ last # NULL => Unfinished(last)
  BY <1>1 DEF IInv, Reading, Tells
<1>3. Longer(file, line, file')
  BY <1>1, <1>2, AppendIsLonger
<1>4. CASE last = NULL
  <2>1. Joined(line) = line /\ (Len(file) = 0 \/ ~file[Len(file)].more)
    BY <1>2, <1>4 DEF Joined, Cut
  <2>2. file'[Len(file) + 1] = line
    BY <1>3 DEF Longer
  <2>3. QED
    BY <1>2, <1>3, <2>1, <2>2
<1>5. CASE last # NULL
  <2>1. PICK s \in Starts(file) : OpenFrom(file, s) /\ last.kind = file[s].kind
    BY <1>2, <1>5 DEF Cut
  <2>2. file'[s].kind = last.kind
    BY <1>3, <2>1 DEF Longer
  <2>3. Joined(line).kind = last.kind
    BY <1>2, <1>5 DEF Joined, Unfinished, LineType
  <2>4. QED
    BY <1>2, <1>3, <2>1, <2>2, <2>3
<1>6. QED
  BY <1>4, <1>5

\* A line that is complete.
LEMMA TellsComplete ==
  ASSUME IInv, Tells, NEW line \in Lines, NEW kind, Complete(line, kind),
         kind = "skip" => errs' = errs,
         kind = "error" => errs' # 0,
         kind \in Telling => kind = "error" \/ errs' = 0,
         kind \in Telling \cup {"skip"}
  PROVE  Tells'
<1>1. /\ Reads(line) /\ line.kind # "long" /\ ~line.more /\ last' = NULL
      /\ Joined(line).kind = kind
  BY DEF Complete
<1>2. /\ Longer(file, line, file') /\ ErrorsTell
      /\ \E s : /\ \/ s = Len(file) + 1 /\ (Len(file) = 0 \/ ~file[Len(file)].more)
                   \/ OpenFrom(file, s)
                /\ file'[s].kind = kind
  BY <1>1, Began
<1>3. PICK s : /\ \/ s = Len(file) + 1 /\ (Len(file) = 0 \/ ~file[Len(file)].more)
                  \/ OpenFrom(file, s)
               /\ file'[s].kind = kind
  BY <1>2
<1>4. /\ s \in 1 .. Len(file') /\ \A y \in Said(file) : y \in 1 .. Len(file) /\ y < s
      /\ Said(file') = IF kind \in Telling THEN Said(file) \cup {s} ELSE Said(file)
  BY <1>1, <1>2, <1>3, EndedOneMore DEF Said
<1>5. ErrorsTell'
  <2>1. CASE kind = "skip"
    <3>1. Said(file') = Said(file) /\ errs' = errs
      BY <1>4, <2>1 DEF Telling
    <3>2. \A x \in Said(file) : file'[x].kind = file[x].kind
      BY <1>2, <1>4 DEF Longer
    <3>3. QED
      BY <1>2, <3>1, <3>2 DEF ErrorsTell
  <2>2. CASE kind # "skip"
    <3>1. Said(file') = Said(file) \cup {s} /\ (errs' # 0 <=> kind = "error")
      BY <1>4, <2>2 DEF Telling
    <3>2. \A y \in Said(file') : y <= s
      BY <1>4, <3>1
    <3>3. QED
      BY <1>3, <3>1, <3>2 DEF ErrorsTell
  <2>3. QED
    BY <2>1, <2>2
<1>6. Cut'
  <2>1. ~file'[Len(file')].more
    BY <1>1, <1>2 DEF Longer
  <2>2. QED
    BY <1>1, <2>1 DEF Cut
<1>7. QED
  BY <1>5, <1>6 DEF Tells

\* A line that goes on.
LEMMA TellsContinues ==
  ASSUME IInv, Tells, NEW line \in Lines, LineContinues(line)
  PROVE  Tells'
<1>1. /\ Reads(line) /\ line.kind # "long" /\ line.more /\ last' = Joined(line)
      /\ errs' = errs
  BY DEF LineContinues
<1>2. /\ Longer(file, line, file') /\ ErrorsTell
      /\ \E s : /\ \/ s = Len(file) + 1 /\ (Len(file) = 0 \/ ~file[Len(file)].more)
                   \/ OpenFrom(file, s)
                /\ file'[s].kind = Joined(line).kind
  BY <1>1, Began
<1>3. Said(file') = Said(file)
  BY <1>1, <1>2, EndedNoMore DEF Said
<1>4. ErrorsTell'
  <2>1. \A x \in Said(file) : file'[x].kind = file[x].kind
    BY <1>2 DEF Longer, Said, Ended
  <2>2. QED
    BY <1>1, <1>2, <1>3, <2>1 DEF ErrorsTell
<1>5. Cut'
  <2>1. last' # NULL
    <3>1. Joined(line) \in LineType
      BY <1>1, ReadsOne, JoinedTyped
    <3>2. NULL \notin LineType
      BY IniParserAssumption, Zenon
    <3>3. QED
      BY <1>1, <3>1, <3>2
  <2>2. PICK s : /\ \/ s = Len(file) + 1 /\ (Len(file) = 0 \/ ~file[Len(file)].more)
                    \/ OpenFrom(file, s)
                 /\ file'[s].kind = Joined(line).kind
    BY <1>2
  <2>3. s \in Starts(file')
    BY <1>2, <2>2 DEF Longer, OpenFrom
  <2>4. ASSUME NEW j \in s .. Len(file') PROVE file'[j].more
    <3>1. CASE j = Len(file) + 1
      BY <1>1, <1>2, <3>1 DEF Longer
    <3>2. CASE j # Len(file) + 1
      <4>1. s \in 1 .. (Len(file) + 1) /\ Len(file) \in Nat /\ Len(file') = Len(file) + 1
        BY <1>2, <2>3 DEF Longer
      <4>2. s # Len(file) + 1 /\ j \in s .. Len(file) /\ j \in 1 .. Len(file)
        BY <3>2, <4>1
      <4>3. file[j].more /\ file'[j] = file[j]
        BY <1>2, <2>2, <4>2 DEF Longer, OpenFrom
      <4>4. QED
        BY <4>3
    <3>3. QED
      BY <3>1, <3>2
  <2>5. OpenFrom(file', s)
    BY <2>3, <2>4 DEF OpenFrom
  <2>6. QED
    BY <1>1, <2>1, <2>2, <2>3, <2>5 DEF Cut
<1>6. QED
  BY <1>4, <1>5 DEF Tells

\* The first turn has nothing behind it.
LEMMA TellsBegin ==
  ASSUME NEW d, Begin(d)
  PROVE  Tells'
<1>1. last' = NULL /\ errs' = 0 /\ file' = <<>>
  BY DEF Begin
<1>2. Starts(file') = {} /\ Len(file') = 0
  BY <1>1 DEF Starts
<1>3. ErrorsTell'
  BY <1>1, <1>2 DEF ErrorsTell, Said, Ended
<1>4. Cut'
  BY <1>1, <1>2 DEF Cut
<1>5. QED
  BY <1>3, <1>4 DEF Tells

\* Every step keeps what errs tells.
LEMMA TellsNext == IInv /\ Tells /\ [Next]_vars => Tells'
<1>1. SUFFICES ASSUME IInv, Tells, [Next]_vars PROVE Tells'
  OBVIOUS
<1>2. CASE Load \/ Reload
  BY <1>2, TellsBegin DEF Load, Reload
<1>3. ASSUME NEW line \in Lines,
             \/ LineTooLong(line) \/ LineContinues(line) \/ LineSkipped(line)
             \/ LineError(line) \/ LineSection(line) \/ LineValue(line) \/ LineNoMemory(line)
      PROVE  Tells'
  <2>1. CASE LineTooLong(line)
    BY <2>1 DEF LineTooLong, Return, Tells, Busy
  <2>2. CASE LineContinues(line)
    BY <1>1, <2>2, TellsContinues
  <2>3. CASE LineSkipped(line)
    <3>1. Complete(line, "skip") /\ errs' = errs
      BY <2>3 DEF LineSkipped
    <3>2. QED
      BY <1>1, <3>1, TellsComplete DEF Telling
  <2>4. CASE LineError(line)
    <3>1. Complete(line, "error") /\ Reads(line) /\ errs' = errs + 1
      BY <2>4 DEF LineError, Complete
    <3>2. errs' # 0
      BY <1>1, <3>1, ReadsOne, Bounds
    <3>3. QED
      BY <1>1, <3>1, <3>2, TellsComplete DEF Telling
  <2>5. CASE LineSection(line)
    <3>1. Complete(line, "section") /\ errs' = 0
      BY <2>5 DEF LineSection, Stored
    <3>2. QED
      BY <1>1, <3>1, TellsComplete DEF Telling
  <2>6. CASE LineValue(line)
    <3>1. Complete(line, "value") /\ errs' = 0
      BY <2>6 DEF LineValue, Stored
    <3>2. QED
      BY <1>1, <3>1, TellsComplete DEF Telling
  <2>7. CASE LineNoMemory(line)
    BY <2>7 DEF LineNoMemory, Tells, Busy
  <2>8. QED
    BY <1>3, <2>1, <2>2, <2>3, <2>4, <2>5, <2>6, <2>7
<1>4. CASE EndOfFile
  BY <1>4 DEF EndOfFile, Return, Tells, Busy
<1>5. CASE \/ ReloadNoFile
           \/ \E k \in UserKeys :
                \/ \E v \in UserValues : iniparser_set(k, v)
                \/ SetNoMemory(k) \/ iniparser_unset(k)
           \/ \E k \in Keys : GetNumber(k)
           \/ UseGone \/ iniparser_freedict \/ Restart
  <2>1. pc' \in {"idle", "dead"}
    BY <1>5 DEF ReloadNoFile, iniparser_set, SetNoMemory, iniparser_unset, GetNumber, UseGone,
                Die, iniparser_freedict, Restart
  <2>2. QED
    BY <2>1 DEF Tells, Busy
<1>6. CASE UNCHANGED vars
  BY <1>1, <1>6 DEF vars, locals, Tells, Busy, ErrorsTell, Cut
<1>7. QED
  BY <1>1, <1>2, <1>3, <1>4, <1>5, <1>6 DEF Next

\* Max of a set with a greatest number is that number.
LEMMA LastOfAll ==
  ASSUME NEW S, NEW x \in S, \A y \in S : y \in Nat /\ y <= x
  PROVE  Max(S) = x
BY DEF Max

\* An error that was counted is a line of the file.
LEMMA ErrorsAreLines ==
  ASSUME Tells, Busy, errs >= 0, errs # 0
  PROVE  HasError(file)
<1>1. PICK x \in Said(file) : file[x].kind = "error"
  BY DEF Tells, ErrorsTell
<1>2. QED
  BY <1>1 DEF Said, Ended, HasError

\* A file is refused for an error in it only, whatever else it holds.
THEOREM GoodFilesLoad == Spec => GoodFileLoads
<1>1. Init => Tells
  BY DEF Init, Tells, Busy
<1>2. Spec => [](IInv /\ Tells)
  BY <1>1, IInvInit, IInvNext, TellsNext, PTL DEF Spec
<1>3. ASSUME IInv, Tells, [Next]_vars,
             pc' = "idle", pc \in {"load", "reload"}, errs >= 0, file' = file,
             dict' \in {NoDict, Gone}
      PROVE  HasError(file)
  <2>1. Busy /\ Sound(dict) /\ file \in Seq(Lines)
    BY <1>3 DEF Busy, IInv, Reading
  <2>2. EndOfFile
    <3>1. ASSUME NEW line \in Lines PROVE ~Reads(line)
      <4>1. SUFFICES ASSUME Reads(line) PROVE FALSE
        OBVIOUS
      <4>2. Len(file') = Len(file) + 1 /\ Len(file) \in Nat
        BY <1>3, <2>1, <4>1, ReadsOne
      <4>3. QED
        BY <1>3, <4>2
    <3>2. ASSUME NEW line \in Lines
          PROVE  ~ \/ LineTooLong(line) \/ LineContinues(line) \/ LineSkipped(line)
                   \/ LineError(line) \/ LineSection(line) \/ LineValue(line)
                   \/ LineNoMemory(line)
      BY <3>1 DEF LineTooLong, LineContinues, LineSkipped, LineError, LineSection, LineValue,
                  LineNoMemory, Complete
    <3>3. ~UNCHANGED vars
      BY <1>3 DEF vars
    <3>4. QED
      BY <1>3, <3>2, <3>3 DEF Next, Load, Reload, ReloadNoFile, iniparser_set, SetNoMemory,
         iniparser_unset, GetNumber, UseGone, iniparser_freedict, Restart
  <2>3. dict' = IF errs # 0 THEN (IF pc = "load" THEN NoDict ELSE Gone) ELSE dict
    BY <2>1, <2>2, SoundIsAlive DEF EndOfFile, Return
  <2>4. errs # 0
    BY <1>3, <2>1, <2>3, SoundIsAlive
  <2>5. QED
    BY <1>3, <2>1, <2>4, ErrorsAreLines
<1>4. IInv /\ Tells /\ [Next]_vars => [ReadToEnd /\ Refused => HasError(file)]_vars
  BY <1>3 DEF ReadToEnd, Refused
<1>5. QED
  BY <1>2, <1>4, PTL DEF Spec, GoodFileLoads

(***************************************************************************)
(* Sequences put one after the other.  FlattenSeq is a recursive function; *)
(* that its recursion has a solution, and what it is, follows from a least *)
(* counterexample.                                                         *)
(***************************************************************************)
\* A set of numbers has a least one.
LEMMA Least ==
  ASSUME NEW T, T \subseteq Nat, T # {}
  PROVE  \E x \in T : \A y \in T : x <= y
<1>1. T \in SUBSET Nat
  OBVIOUS
<1>2. QED
  BY <1>1, LeastOne

\* g[i] is the first i of the sequences of s, one after the other.
PutTogether(s, g) ==
  /\ g = [i \in 1 .. Len(s) |-> g[i]]
  /\ \A i \in 1 .. Len(s) : g[i] = IF i = 1 THEN s[1] ELSE g[i - 1] \o s[i]

Flat(s) == CHOOSE f : f = [i \in 1 .. Len(s) |-> IF i = 1 THEN s[i] ELSE f[i - 1] \o s[i]]

\* FlattenSeq is the last value of its recursive function.
LEMMA FlattenIsFlat ==
  ASSUME NEW s, Len(s) # 0
  PROVE  FlattenSeq(s) = Flat(s)[Len(s)]
BY Zenon DEF FlattenSeq, Flat

\* The recursion of FlattenSeq has a solution, up to any of the sequences.
LEMMA PrefixesExist ==
  ASSUME NEW s, Len(s) \in Nat
  PROVE  \E g : PutTogether(s, g)
<1> DEFINE Upto(m, g) ==
             /\ g = [i \in 1 .. m |-> g[i]]
             /\ \A i \in 1 .. m : g[i] = IF i = 1 THEN s[1] ELSE g[i - 1] \o s[i]
           T == {m \in Nat : ~ \E g : Upto(m, g)}
<1>1. SUFFICES ASSUME T # {} PROVE FALSE
  <2>1. T = {} => \E g : Upto(Len(s), g)
    OBVIOUS
  <2>2. QED
    BY <2>1 DEF PutTogether
<1>2. PICK m \in T : \A x \in T : m <= x
  <2>1. T \subseteq Nat
    OBVIOUS
  <2>2. QED
    BY <1>1, <2>1, Least
<1>3. CASE m = 0
  <2>1. Upto(0, [i \in 1 .. 0 |-> s[1]])
    OBVIOUS
  <2>2. QED
    BY <1>2, <1>3, <2>1
<1>4. CASE m # 0
  <2>1. m - 1 \in Nat /\ m - 1 \notin T
    BY <1>2, <1>4
  <2>2. PICK f : Upto(m - 1, f)
    BY <2>1
  <2>3. PICK g : g = [i \in 1 .. m |-> IF i = m THEN (IF m = 1 THEN s[1] ELSE f[m - 1] \o s[m]) ELSE f[i]]
    OBVIOUS
  <2>4. g = [i \in 1 .. m |-> g[i]]
    BY <2>3
  <2>5. ASSUME NEW i \in 1 .. m PROVE g[i] = IF i = 1 THEN s[1] ELSE g[i - 1] \o s[i]
    <3>1. CASE i = m
      <4>1. g[m] = IF m = 1 THEN s[1] ELSE f[m - 1] \o s[m]
        BY <2>3, <3>1
      <4>2. m # 1 => g[m - 1] = f[m - 1]
        <5>1. m # 1 => m - 1 \in 1 .. m /\ m - 1 # m
          BY <1>2, <1>4
        <5>2. QED
          BY <2>3, <5>1
      <4>3. QED
        BY <3>1, <4>1, <4>2
    <3>2. CASE i # m
      <4>1. i \in 1 .. (m - 1) /\ (i # 1 => i - 1 \in 1 .. m /\ i - 1 # m)
        BY <1>2, <3>2
      <4>2. g[i] = f[i] /\ (i # 1 => g[i - 1] = f[i - 1])
        BY <2>3, <3>2, <4>1
      <4>3. f[i] = IF i = 1 THEN s[1] ELSE f[i - 1] \o s[i]
        BY <2>2, <4>1
      <4>4. QED
        BY <4>2, <4>3
    <3>3. QED
      BY <3>1, <3>2
  <2>6. Upto(m, g)
    BY <2>4, <2>5
  <2>7. QED
    BY <1>2, <2>6
<1>5. QED
  BY <1>3, <1>4

\* The recursive function of FlattenSeq satisfies its equation.
LEMMA FlatUnfolds ==
  ASSUME NEW s, Len(s) \in Nat
  PROVE  PutTogether(s, Flat(s))
<1>1. PICK g : PutTogether(s, g)
  BY PrefixesExist
<1>2. g = [i \in 1 .. Len(s) |-> IF i = 1 THEN s[i] ELSE g[i - 1] \o s[i]]
  BY <1>1 DEF PutTogether
<1>3. PICK f : f = Flat(s)
  OBVIOUS
<1>4. f = [i \in 1 .. Len(s) |-> IF i = 1 THEN s[i] ELSE f[i - 1] \o s[i]]
  BY <1>2, <1>3 DEF Flat
<1>5. \A i \in 1 .. Len(s) : f[i] = IF i = 1 THEN s[1] ELSE f[i - 1] \o s[i]
  <2>1. ASSUME NEW i \in 1 .. Len(s) PROVE f[i] = IF i = 1 THEN s[1] ELSE f[i - 1] \o s[i]
    <3>1. f[i] = IF i = 1 THEN s[i] ELSE f[i - 1] \o s[i]
      BY <1>4
    <3>2. QED
      BY <3>1
  <2>2. QED
    BY <2>1
<1>6. f = [i \in 1 .. Len(s) |-> f[i]]
  <2>1. DOMAIN f = 1 .. Len(s)
    BY <1>4
  <2>2. f = [i \in DOMAIN f |-> f[i]]
    BY <1>4
  <2>3. QED
    BY <2>1, <2>2
<1>7. QED
  BY <1>3, <1>5, <1>6 DEF PutTogether

\* Two lists that begin with the same sequences.
LEMMA SamePrefixes ==
  ASSUME NEW s, NEW t, NEW f, NEW g, PutTogether(s, f), PutTogether(t, g),
         Len(s) \in Nat, Len(t) \in Nat, NEW m \in Nat, m <= Len(s), m <= Len(t),
         \A i \in 1 .. m : s[i] = t[i]
  PROVE  \A i \in 1 .. m : f[i] = g[i]
<1> DEFINE T == {i \in 1 .. m : f[i] # g[i]}
<1>1. SUFFICES ASSUME T # {} PROVE FALSE
  OBVIOUS
<1>2. PICK i \in T : \A x \in T : i <= x
  <2>1. T \subseteq Nat
    OBVIOUS
  <2>2. QED
    BY <1>1, <2>1, Least
<1>3. i \in 1 .. m /\ i \in 1 .. Len(s) /\ i \in 1 .. Len(t) /\ s[i] = t[i] /\ s[1] = t[1]
  BY <1>2
<1>4. i # 1 => f[i - 1] = g[i - 1]
  <2>1. i # 1 => i - 1 \in 1 .. m /\ ~(i <= i - 1)
    BY <1>3
  <2>2. QED
    BY <1>2, <2>1
<1>5. f[i] = (IF i = 1 THEN s[1] ELSE f[i - 1] \o s[i])
      /\ g[i] = (IF i = 1 THEN t[1] ELSE g[i - 1] \o t[i])
  BY <1>3 DEF PutTogether
<1>6. f[i] = g[i]
  BY <1>3, <1>4, <1>5
<1>7. QED
  BY <1>2, <1>6

\* One sequence more is put at the end.
LEMMA FlattenOneMore ==
  ASSUME NEW T, NEW m \in Nat, NEW s, NEW t, Len(s) = m, Len(t) = m + 1,
         m = 0 => s = <<>>, \A i \in 1 .. m : t[i] = s[i], t[m + 1] \in Seq(T)
  PROVE  FlattenSeq(t) = FlattenSeq(s) \o t[m + 1]
<1>1. PutTogether(s, Flat(s)) /\ PutTogether(t, Flat(t)) /\ FlattenSeq(t) = Flat(t)[m + 1]
  <2>1. Len(t) # 0 /\ Len(t) \in Nat /\ Len(s) \in Nat
    OBVIOUS
  <2>2. QED
    BY <2>1, FlatUnfolds, FlattenIsFlat
<1>2. CASE m = 0
  <2>1. FlattenSeq(s) = <<>>
    BY <1>2 DEF FlattenSeq
  <2>2. Flat(t)[1] = t[1]
    BY <1>1, <1>2 DEF PutTogether
  <2>3. <<>> \o t[1] = t[1]
    BY <1>2, ConcatEmptySeq
  <2>4. QED
    BY <1>1, <1>2, <2>1, <2>2, <2>3
<1>3. CASE m # 0
  <2>1. FlattenSeq(s) = Flat(s)[m]
    BY <1>3, FlattenIsFlat
  <2>2. m <= Len(s) /\ m <= Len(t) /\ Len(s) \in Nat /\ Len(t) \in Nat
    OBVIOUS
  <2>3. \A i \in 1 .. m : Flat(s)[i] = Flat(t)[i]
    BY <1>1, <2>2, SamePrefixes
  <2>4. Flat(t)[m + 1] = Flat(t)[m] \o t[m + 1]
    <3>1. m + 1 \in 1 .. Len(t) /\ m + 1 # 1 /\ (m + 1) - 1 = m
      BY <1>3
    <3>2. QED
      BY <1>1, <3>1 DEF PutTogether
  <2>5. m \in 1 .. m
    BY <1>3
  <2>6. QED
    BY <1>1, <2>1, <2>3, <2>4, <2>5
<1>4. QED
  BY <1>2, <1>3

\* No sequences make the empty one.
LEMMA FlattenNone == FlattenSeq(<<>>) = <<>>
BY DEF FlattenSeq

\* The sequences put together have the elements of those.
LEMMA FlatTyped ==
  ASSUME NEW T, NEW s, Len(s) \in Nat, \A i \in 1 .. Len(s) : s[i] \in Seq(T),
         NEW g, PutTogether(s, g)
  PROVE  \A i \in 1 .. Len(s) : g[i] \in Seq(T)
<1> DEFINE W == {i \in 1 .. Len(s) : g[i] \notin Seq(T)}
<1>1. SUFFICES ASSUME W # {} PROVE FALSE
  OBVIOUS
<1>2. PICK i \in W : \A x \in W : i <= x
  <2>1. W \subseteq Nat
    OBVIOUS
  <2>2. QED
    BY <1>1, <2>1, Least
<1>3. CASE i = 1
  BY <1>2, <1>3 DEF PutTogether
<1>4. CASE i # 1
  <2>1. i - 1 \in 1 .. Len(s) /\ ~(i <= i - 1)
    BY <1>2, <1>4
  <2>2. g[i - 1] \in Seq(T) /\ s[i] \in Seq(T)
    BY <1>2, <2>1
  <2>3. g[i - 1] \o s[i] \in Seq(T)
    BY <2>2, ConcatProperties
  <2>4. QED
    BY <1>2, <1>4, <2>3 DEF PutTogether
<1>5. QED
  BY <1>3, <1>4

\* What is put together has the elements of the sequences.
LEMMA FlattenType ==
  ASSUME NEW T, NEW s, Len(s) \in Nat, s = [i \in 1 .. Len(s) |-> s[i]],
         \A i \in 1 .. Len(s) : s[i] \in Seq(T)
  PROVE  FlattenSeq(s) \in Seq(T)
<1>1. CASE Len(s) = 0
  <2>1. s = <<>>
    BY <1>1
  <2>2. FlattenSeq(s) = <<>>
    BY <2>1, FlattenNone, Zenon
  <2>3. QED
    BY <2>2
<1>2. CASE Len(s) # 0
  <2>1. PICK g : g = Flat(s)
    OBVIOUS
  <2>2. PutTogether(s, g) /\ FlattenSeq(s) = g[Len(s)]
    BY <1>2, <2>1, FlatUnfolds, FlattenIsFlat
  <2>3. \A i \in 1 .. Len(s) : g[i] \in Seq(T)
    BY <2>2, FlatTyped
  <2>4. QED
    BY <1>2, <2>2, <2>3
<1>3. QED
  BY <1>1, <1>2

(***************************************************************************)
(* The map a file describes, one line more at a time.                      *)
(***************************************************************************)
Setting == {"section", "value"}

\* The lines that set something are the ended sections and values.
LEMMA AssigningIsEnded ==
  ASSUME NEW f
  PROVE  Assigning(f) = Ended(f, Setting)
BY DEF Assigning, Ended, Setting

\* A set of numbers with a bound has a greatest one.
LEMMA GreatestOne ==
  ASSUME NEW n \in Nat, NEW S, S \subseteq 1 .. n, S # {}
  PROVE  Max(S) \in S /\ \A y \in S : y <= Max(S)
<1> DEFINE T == {n - y : y \in S}
<1>1. T \subseteq Nat /\ T # {}
  OBVIOUS
<1>2. PICK x \in T : \A y \in T : x <= y
  BY <1>1, Least
<1>3. PICK m \in S : x = n - m
  BY <1>2
<1>4. \A y \in S : y \in Nat /\ y <= m
  <2>1. ASSUME NEW y \in S PROVE y \in Nat /\ y <= m
    <3>1. n - y \in T /\ y \in Nat /\ m \in Nat
      OBVIOUS
    <3>2. n - m <= n - y
      BY <1>2, <1>3, <3>1
    <3>3. QED
      BY <3>1, <3>2
  <2>2. QED
    BY <2>1
<1>5. Max(S) = m
  BY <1>3, <1>4, LastOfAll
<1>6. QED
  BY <1>3, <1>4, <1>5

\* Min of a set with a least number is that number.
LEMMA LeastIs ==
  ASSUME NEW S, NEW x \in S, \A y \in S : y \in Nat /\ x <= y
  PROVE  Min(S) = x
BY DEF Min

\* The lines that name a section, up to the i-th.
Naming(f, i) == {j \in Assigning(f) : j <= i /\ f[j].kind = "section" /\ f[j].name # NULL}

\* The section of a line, by the lines that name one.
LEMMA SectionAtIs ==
  ASSUME NEW f, NEW i
  PROVE  SectionAt(f, i) = IF Naming(f, i) = {} THEN "" ELSE f[Max(Naming(f, i))].name
BY DEF SectionAt, Naming

\* The section at the end of the file.
Under(f) == SectionAt(f, Len(f))

Sets(f, k) == {i \in Assigning(f) : KeyAt(f, i) = k}

\* What a file says of a key, by the lines that set it.
LEMMA MeaningIs ==
  ASSUME NEW f, NEW k \in Keys
  PROVE  Meaning(f)[k] = IF Sets(f, k) = {} THEN MISSING ELSE ValueAt(f, Max(Sets(f, k)))
BY DEF Meaning, Sets

\* The text of a line that begins at s, up to line e.
Spelled(f, s, e) == f[s].value \o FlattenSeq([j \in 1 .. e - s |-> f[s + j].text])

\* The value of a line, by what is spelled from it on.
LEMMA ValueAtIs ==
  ASSUME NEW f, NEW i
  PROVE  ValueAt(f, i) =
           IF f[i].kind = "section" THEN NULL ELSE Parsed(Spelled(f, i, EndsAt(f, i)))
BY DEF ValueAt, Spelled

\* One line more leaves alone what the lines before say.
LEMMA SaysTheSame ==
  ASSUME NEW f, NEW l, NEW g, Longer(f, l, g), NEW i \in Assigning(f),
         \A j \in Assigning(g) : j <= i => j \in Assigning(f),
         Assigning(f) \subseteq Assigning(g)
  PROVE  /\ SectionAt(g, i) = SectionAt(f, i)
         /\ KeyAt(g, i) = KeyAt(f, i)
         /\ ValueAt(g, i) = ValueAt(f, i)
<1>1. /\ Len(f) \in Nat /\ Len(g) = Len(f) + 1
      /\ \A j \in 1 .. Len(f) : g[j] = f[j]
      /\ Assigning(f) \subseteq 1 .. Len(f)
  BY DEF Longer, Assigning
<1>2. Naming(g, i) = Naming(f, i) /\ Naming(f, i) \subseteq 1 .. Len(f)
  <2>1. ASSUME NEW j PROVE j \in Naming(g, i) <=> j \in Naming(f, i)
    <3>1. CASE j \in Assigning(f)
      <4>1. g[j] = f[j] /\ j \in Assigning(g)
        BY <1>1, <3>1
      <4>2. QED
        BY <3>1, <4>1 DEF Naming
    <3>2. CASE j \notin Assigning(f)
      BY <3>2 DEF Naming
    <3>3. QED
      BY <3>1, <3>2
  <2>2. Naming(f, i) \subseteq Assigning(f)
    BY DEF Naming
  <2>3. Naming(g, i) = Naming(f, i)
    BY <2>1
  <2>4. QED
    BY <1>1, <2>2, <2>3
<1>3. SectionAt(g, i) = SectionAt(f, i)
  <2>1. CASE Naming(f, i) = {}
    BY <1>2, <2>1, SectionAtIs
  <2>2. CASE Naming(f, i) # {}
    <3>1. Max(Naming(f, i)) \in 1 .. Len(f)
      BY <1>1, <1>2, <2>2, GreatestOne
    <3>2. g[Max(Naming(f, i))] = f[Max(Naming(f, i))]
      BY <1>1, <3>1
    <3>3. QED
      BY <1>2, <2>2, <3>2, SectionAtIs
  <2>3. QED
    BY <2>1, <2>2
<1>4. i \in 1 .. Len(f) /\ g[i] = f[i]
  BY <1>1
<1>5. KeyAt(g, i) = KeyAt(f, i)
  BY <1>3, <1>4 DEF KeyAt
<1>6. EndsAt(g, i) = EndsAt(f, i) /\ EndsAt(f, i) \in i .. Len(f)
  <2> DEFINE F == {j \in i .. Len(f) : ~f[j].more}
             G == {j \in i .. Len(g) : ~g[j].more}
  <2>1. F \in SUBSET Nat /\ F # {}
    BY <1>1, <1>4 DEF Assigning
  <2>2. PICK m : m = Min(F) /\ m \in F /\ \A x \in F : m <= x
    BY <2>1, LeastOne
  <2>3. m \in i .. Len(f) /\ m \in 1 .. Len(f)
    BY <1>4, <2>2
  <2>4. m \in G
    BY <1>1, <2>2, <2>3
  <2>5. ASSUME NEW y \in G PROVE y \in Nat /\ m <= y
    <3>1. CASE y = Len(f) + 1
      BY <1>1, <2>3, <3>1
    <3>2. CASE y # Len(f) + 1
      <4>1. y \in i .. Len(f) /\ y \in 1 .. Len(f)
        BY <1>1, <1>4, <2>5, <3>2
      <4>2. y \in F
        BY <1>1, <2>5, <4>1
      <4>3. QED
        BY <2>2, <4>1, <4>2
    <3>3. QED
      BY <3>1, <3>2
  <2>6. Min(G) = m
    BY <2>4, <2>5, LeastIs
  <2>7. EndsAt(f, i) = Min(F) /\ EndsAt(g, i) = Min(G)
    BY DEF EndsAt
  <2>8. QED
    BY <2>2, <2>3, <2>6, <2>7
<1>7. PICK e : e = EndsAt(f, i)
  OBVIOUS
<1>8. Spelled(g, i, e) = Spelled(f, i, e)
  <2>1. \A j \in 1 .. e - i : i + j \in 1 .. Len(f)
    BY <1>1, <1>4, <1>6, <1>7
  <2>2. \A j \in 1 .. e - i : g[i + j].text = f[i + j].text
    BY <1>1, <2>1
  <2>3. [j \in 1 .. e - i |-> g[i + j].text] = [j \in 1 .. e - i |-> f[i + j].text]
    BY <2>2
  <2>4. QED
    BY <1>4, <2>3 DEF Spelled
<1>9. ValueAt(g, i) = ValueAt(f, i)
  BY <1>4, <1>6, <1>7, <1>8, ValueAtIs
<1>10. QED
  BY <1>3, <1>5, <1>9

\* The lines that set something are lines of the file.
LEMMA AssigningInFile ==
  ASSUME NEW f, Len(f) \in Nat
  PROVE  Assigning(f) \subseteq 1 .. Len(f)
BY DEF Assigning, Starts

\* The section at the end is the one at the last line that sets something.
LEMMA UnderLast ==
  ASSUME NEW f, Len(f) \in Nat, NEW s \in Assigning(f), \A y \in Assigning(f) : y <= s
  PROVE  SectionAt(f, s) = Under(f)
<1>1. Naming(f, s) = Naming(f, Len(f))
  <2>1. \A j \in Assigning(f) : j <= s /\ j <= Len(f)
    BY AssigningInFile
  <2>2. QED
    BY <2>1 DEF Naming
<1>2. QED
  BY <1>1, SectionAtIs DEF Under

\* A line that sets nothing, or does not end yet.
LEMMA MeaningKept ==
  ASSUME NEW f, NEW l, NEW g, Longer(f, l, g), Assigning(g) = Assigning(f)
  PROVE  Meaning(g) = Meaning(f) /\ Under(g) = Under(f)
<1>1. Len(f) \in Nat /\ Len(g) = Len(f) + 1 /\ \A j \in 1 .. Len(f) : g[j] = f[j]
  BY DEF Longer
<1>2. Assigning(f) \subseteq 1 .. Len(f)
  BY <1>1, AssigningInFile
<1>3. \A i \in Assigning(f) : KeyAt(g, i) = KeyAt(f, i) /\ ValueAt(g, i) = ValueAt(f, i)
  BY SaysTheSame
<1>4. ASSUME NEW k \in Keys PROVE Meaning(g)[k] = Meaning(f)[k]
  <2>1. Sets(g, k) = Sets(f, k) /\ Sets(f, k) \subseteq Assigning(f)
    BY <1>3 DEF Sets
  <2>2. CASE Sets(f, k) = {}
    BY <2>1, <2>2, MeaningIs
  <2>3. CASE Sets(f, k) # {}
    <3>1. Max(Sets(f, k)) \in Sets(f, k)
      BY <1>1, <1>2, <2>1, <2>3, GreatestOne
    <3>2. ValueAt(g, Max(Sets(f, k))) = ValueAt(f, Max(Sets(f, k)))
      BY <1>3, <2>1, <3>1
    <3>3. QED
      BY <2>1, <2>3, <3>2, MeaningIs
  <2>4. QED
    BY <2>2, <2>3
<1>5. Meaning(g) = Meaning(f)
  BY <1>4 DEF Meaning
<1>6. Naming(g, Len(g)) = Naming(f, Len(f)) /\ Naming(f, Len(f)) \subseteq 1 .. Len(f)
  <2>1. \A j \in Assigning(f) : g[j] = f[j] /\ j <= Len(f) /\ j <= Len(g)
    BY <1>1, <1>2
  <2>2. Naming(g, Len(g)) = Naming(f, Len(f))
    BY <2>1 DEF Naming
  <2>3. Naming(f, Len(f)) \subseteq Assigning(f)
    BY DEF Naming
  <2>4. QED
    BY <1>2, <2>2, <2>3
<1>7. Under(g) = Under(f)
  <2>1. CASE Naming(f, Len(f)) = {}
    BY <1>6, <2>1, SectionAtIs DEF Under
  <2>2. CASE Naming(f, Len(f)) # {}
    <3>1. Max(Naming(f, Len(f))) \in 1 .. Len(f)
      BY <1>1, <1>6, <2>2, GreatestOne
    <3>2. g[Max(Naming(f, Len(f)))] = f[Max(Naming(f, Len(f)))]
      BY <1>1, <3>1
    <3>3. QED
      BY <1>6, <2>2, <3>2, SectionAtIs DEF Under
  <2>3. QED
    BY <2>1, <2>2
<1>8. QED
  BY <1>5, <1>7

\* The line that began at s sets an entry, the last to be set.
LEMMA MeaningOneMore ==
  ASSUME NEW f, NEW l, NEW g, Longer(f, l, g), NEW s \in 1 .. Len(g),
         Assigning(g) = Assigning(f) \cup {s}, \A y \in Assigning(f) : y < s,
         NEW k \in Keys, KeyAt(g, s) = k, NEW v, ValueAt(g, s) = v
  PROVE  Meaning(g) = [Meaning(f) EXCEPT ![k] = v]
<1>1. Len(f) \in Nat /\ Len(g) = Len(f) + 1
  BY DEF Longer
<1>2. Assigning(f) \subseteq 1 .. Len(f) /\ Assigning(g) \subseteq 1 .. Len(g)
  BY <1>1, AssigningInFile
<1>3. \A i \in Assigning(f) : KeyAt(g, i) = KeyAt(f, i) /\ ValueAt(g, i) = ValueAt(f, i)
  <2>1. ASSUME NEW i \in Assigning(f)
        PROVE  KeyAt(g, i) = KeyAt(f, i) /\ ValueAt(g, i) = ValueAt(f, i)
    <3>1. i \in Nat /\ s \in Nat /\ i < s
      BY <1>2
    <3>2. \A j \in Assigning(g) : j <= i => j \in Assigning(f)
      BY <3>1
    <3>3. QED
      BY <3>2, SaysTheSame
  <2>2. QED
    BY <2>1
<1>4. Meaning(g)[k] = v
  <2>1. s \in Sets(g, k)
    BY DEF Sets
  <2>2. \A y \in Sets(g, k) : y \in Nat /\ y <= s
    BY <1>1, <1>2 DEF Sets
  <2>3. Max(Sets(g, k)) = s
    BY <2>1, <2>2, LastOfAll
  <2>4. QED
    BY <2>1, <2>3, MeaningIs
<1>5. ASSUME NEW x \in Keys \ {k} PROVE Meaning(g)[x] = Meaning(f)[x]
  <2>1. Sets(g, x) = Sets(f, x) /\ Sets(f, x) \subseteq Assigning(f)
    BY <1>3 DEF Sets
  <2>2. CASE Sets(f, x) = {}
    BY <2>1, <2>2, MeaningIs
  <2>3. CASE Sets(f, x) # {}
    <3>1. Max(Sets(f, x)) \in Sets(f, x)
      BY <1>1, <1>2, <2>1, <2>3, GreatestOne
    <3>2. ValueAt(g, Max(Sets(f, x))) = ValueAt(f, Max(Sets(f, x)))
      BY <1>3, <2>1, <3>1
    <3>3. QED
      BY <2>1, <2>3, <3>2, MeaningIs
  <2>4. QED
    BY <2>2, <2>3
<1>6. QED
  BY <1>4, <1>5 DEF Meaning

\* The section under which the line that began at s stands.
LEMMA UnderOneMore ==
  ASSUME NEW f, NEW l, NEW g, Longer(f, l, g), NEW s \in 1 .. Len(g),
         Assigning(g) = Assigning(f) \cup {s}, \A y \in Assigning(f) : y < s
  PROVE  Under(g) = IF g[s].kind = "section" /\ g[s].name # NULL THEN g[s].name ELSE Under(f)
<1>1. Len(f) \in Nat /\ Len(g) = Len(f) + 1 /\ \A j \in 1 .. Len(f) : g[j] = f[j]
  BY DEF Longer
<1>2. Assigning(f) \subseteq 1 .. Len(f)
  BY <1>1, AssigningInFile
<1>3. CASE g[s].kind = "section" /\ g[s].name # NULL
  <2>1. s \in Naming(g, Len(g))
    BY <1>1, <1>3 DEF Naming
  <2>2. \A y \in Naming(g, Len(g)) : y \in Nat /\ y <= s
    BY <1>1, <1>2 DEF Naming
  <2>3. Max(Naming(g, Len(g))) = s
    BY <2>1, <2>2, LastOfAll
  <2>4. QED
    BY <1>3, <2>1, <2>3, SectionAtIs DEF Under
<1>4. CASE ~(g[s].kind = "section" /\ g[s].name # NULL)
  <2>1. \A j \in Assigning(f) : g[j] = f[j] /\ j <= Len(f) /\ j <= Len(g)
    BY <1>1, <1>2
  <2>2. Naming(g, Len(g)) = Naming(f, Len(f))
    BY <1>4, <2>1 DEF Naming
  <2>3. Naming(f, Len(f)) \subseteq 1 .. Len(f)
    BY <1>2 DEF Naming
  <2>4. CASE Naming(f, Len(f)) = {}
    BY <1>4, <2>2, <2>4, SectionAtIs DEF Under
  <2>5. CASE Naming(f, Len(f)) # {}
    <3>1. Max(Naming(f, Len(f))) \in 1 .. Len(f)
      BY <1>1, <2>3, <2>5, GreatestOne
    <3>2. g[Max(Naming(f, Len(f)))] = f[Max(Naming(f, Len(f)))]
      BY <1>1, <3>1
    <3>3. QED
      BY <1>4, <2>2, <2>5, <3>2, SectionAtIs DEF Under
  <2>6. QED
    BY <2>4, <2>5
<1>5. QED
  BY <1>3, <1>4

(***************************************************************************)
(* What is loaded is what the file says.                                   *)
(***************************************************************************)
\* The line to go on with, as the file has it.
Carried ==
  last # NULL => \E s \in Starts(file) :
                   /\ OpenFrom(file, s)
                   /\ last.kind = file[s].kind /\ last.name = file[s].name
                   /\ last.value = Spelled(file, s, Len(file))

Means ==
  /\ Busy /\ errs >= 0 =>
       /\ View(dict, MISSING) = Meaning(file)
       /\ section = Under(file)
       /\ Carried
  /\ LoadedMeansFile

\* The words of one more line are put at the end of those before.
LEMMA TextOneMore ==
  ASSUME NEW m \in Nat, NEW a, NEW b, Len(a) = m, m = 0 => a = <<>>, Len(b) = m + 1,
         b[m + 1] \in Seq(Words), \A i \in 1 .. m : b[i] = a[i]
  PROVE  FlattenSeq(b) = FlattenSeq(a) \o b[m + 1]
BY FlattenOneMore

\* Words put one after the other, in either order of putting.
LEMMA TextsAssociate ==
  ASSUME NEW x \in Seq(Words), NEW y \in Seq(Words), NEW z \in Seq(Words)
  PROVE  x \o (y \o z) = (x \o y) \o z
BY SMTT(30)

\* One line more is spelled at the end.
LEMMA SpelledOn ==
  ASSUME NEW f, NEW l \in Lines, NEW g, Longer(f, l, g),
         \A i \in 1 .. Len(f) : f[i] \in Lines, NEW s \in 1 .. Len(f)
  PROVE  Spelled(g, s, Len(g)) = Spelled(f, s, Len(f)) \o l.text
<1>1. /\ Len(f) \in Nat /\ Len(g) = Len(f) + 1 /\ g[Len(f) + 1] = l
      /\ \A i \in 1 .. Len(f) : g[i] = f[i] /\ f[i] \in Lines
  BY DEF Longer
<1>2. PICK m \in Nat : m = Len(f) - s
  BY <1>1
<1>3. PICK a : a = [j \in 1 .. m |-> f[s + j].text]
  OBVIOUS
<1>4. PICK b : b = [j \in 1 .. m + 1 |-> g[s + j].text]
  OBVIOUS
<1>5. /\ Len(a) = m /\ (m = 0 => a = <<>>) /\ a = [i \in 1 .. Len(a) |-> a[i]]
      /\ Len(b) = m + 1
  BY <1>3, <1>4
<1>6. ASSUME NEW i \in 1 .. m PROVE b[i] = a[i] /\ a[i] \in Seq(Words)
  <2>1. s + i \in 1 .. Len(f)
    BY <1>1, <1>2
  <2>2. g[s + i] = f[s + i] /\ f[s + i] \in Lines
    BY <1>1, <2>1
  <2>3. f[s + i].text \in Seq(Words)
    BY <2>2, LineTyped
  <2>4. i \in 1 .. m + 1
    OBVIOUS
  <2>5. QED
    BY <1>3, <1>4, <2>2, <2>3, <2>4
<1>7. b[m + 1] = l.text
  <2>1. m + 1 \in 1 .. m + 1 /\ s + (m + 1) = Len(f) + 1
    BY <1>1, <1>2
  <2>2. QED
    BY <1>1, <1>4, <2>1
<1>8. l.text \in Seq(Words) /\ f[s].value \in Seq(Words) /\ g[s].value = f[s].value
  BY <1>1, LineTyped
<1>9. FlattenSeq(b) = FlattenSeq(a) \o l.text
  <2>1. b[m + 1] \in Seq(Words) /\ \A i \in 1 .. m : b[i] = a[i]
    BY <1>6, <1>7, <1>8
  <2>2. Len(a) = m /\ Len(b) = m + 1 /\ (m = 0 => a = <<>>)
    BY <1>5
  <2>3. FlattenSeq(b) = FlattenSeq(a) \o b[m + 1]
    BY <2>1, <2>2, TextOneMore, Zenon
  <2>4. QED
    BY <1>7, <2>3
<1>10. FlattenSeq(a) \in Seq(Words)
  <2>1. Len(a) \in Nat /\ \A i \in 1 .. Len(a) : a[i] \in Seq(Words)
    BY <1>5, <1>6
  <2>2. QED
    BY <1>5, <2>1, FlattenType
<1>11. Spelled(f, s, Len(f)) = f[s].value \o FlattenSeq(a)
  BY <1>2, <1>3 DEF Spelled
<1>12. Spelled(g, s, Len(g)) = g[s].value \o FlattenSeq(b)
  <2>1. Len(g) - s = m + 1
    BY <1>1, <1>2
  <2>2. QED
    BY <1>4, <2>1 DEF Spelled
<1>13. f[s].value \o (FlattenSeq(a) \o l.text) = (f[s].value \o FlattenSeq(a)) \o l.text
  BY <1>8, <1>10, TextsAssociate, Zenon
<1>14. QED
  BY <1>8, <1>9, <1>11, <1>12, <1>13

\* A line that nothing follows.
LEMMA SpelledAlone ==
  ASSUME NEW f, NEW l \in Lines, NEW g, Longer(f, l, g)
  PROVE  Spelled(g, Len(g), Len(g)) = l.value
<1>1. Len(g) \in Nat /\ g[Len(g)] = l /\ l.value \in Seq(Words)
  <2>1. Len(f) \in Nat /\ Len(g) = Len(f) + 1 /\ g[Len(f) + 1] = l
    BY DEF Longer
  <2>2. l.value \in Seq(Words)
    BY LineTyped
  <2>3. g[Len(g)] = l
    BY <2>1, Zenon
  <2>4. QED
    BY <2>1, <2>2, <2>3
<1>2. [j \in 1 .. Len(g) - Len(g) |-> g[Len(g) + j].text] = <<>>
  BY <1>1
<1>3. FlattenSeq([j \in 1 .. Len(g) - Len(g) |-> g[Len(g) + j].text]) = <<>>
  BY <1>2, FlattenNone, Zenon
<1>4. l.value \o <<>> = l.value
  BY <1>1, ConcatEmptySeq
<1>5. QED
  BY <1>1, <1>3, <1>4 DEF Spelled

\* Where the line that is read began, and what it is so far.
LEMMA Gathered ==
  ASSUME IInv, Tells, Means, NEW line \in Lines, Reads(line)
  PROVE  /\ Longer(file, line, file') /\ Sound(dict)
         /\ View(dict, MISSING) = Meaning(file) /\ section = Under(file)
         /\ \E s \in 1 .. Len(file') :
              /\ \/ s = Len(file) + 1 /\ (Len(file) = 0 \/ ~file[Len(file)].more)
                 \/ OpenFrom(file, s)
              /\ file'[s].kind = Joined(line).kind /\ file'[s].name = Joined(line).name
              /\ Joined(line).value = Spelled(file', s, Len(file'))
<1>1. Busy /\ errs >= 0 /\ file' = Append(file, line)
  BY DEF Reads, Busy
<1>2. /\ file \in Seq(Lines) /\ Cut /\ Carried /\ Sound(dict)
      /\ View(dict, MISSING) = Meaning(file) /\ section = Under(file)
      /\ last # NULL => Unfinished(last)
  BY <1>1 DEF IInv, Reading, Tells, Means
<1>3. Longer(file, line, file')
  BY <1>1, <1>2, AppendIsLonger
<1>4. CASE last = NULL
  <2>1. Joined(line) = line /\ (Len(file) = 0 \/ ~file[Len(file)].more)
    BY <1>2, <1>4 DEF Joined, Cut
  <2>2. /\ Len(file') = Len(file) + 1 /\ Len(file) \in Nat /\ file'[Len(file')] = line
        /\ Len(file') \in 1 .. Len(file')
    BY <1>3 DEF Longer
  <2>3. Spelled(file', Len(file'), Len(file')) = line.value
    BY <1>3, SpelledAlone
  <2>4. QED
    BY <1>2, <1>3, <2>1, <2>2, <2>3
<1>5. CASE last # NULL
  <2>1. PICK s \in Starts(file) :
          /\ OpenFrom(file, s)
          /\ last.kind = file[s].kind /\ last.name = file[s].name
          /\ last.value = Spelled(file, s, Len(file))
    BY <1>2, <1>5 DEF Carried
  <2>2. s \in 1 .. Len(file) /\ s \in 1 .. Len(file') /\ file'[s] = file[s]
    BY <1>3, <2>1 DEF Longer
  <2>3. /\ Joined(line).kind = last.kind /\ Joined(line).name = last.name
        /\ Joined(line).value = last.value \o line.text
    <3>1. PICK x : x = last
      OBVIOUS
    <3>2. x \in LineType
      BY <1>2, <1>5, <3>1 DEF Unfinished
    <3>3. Joined(line) = [x EXCEPT !.value = x.value \o line.text, !.more = line.more]
      BY <1>5, <3>1 DEF Joined
    <3>4. QED
      BY <3>1, <3>2, <3>3 DEF LineType
  <2>4. Spelled(file', s, Len(file')) = Spelled(file, s, Len(file)) \o line.text
    <3>1. \A i \in 1 .. Len(file) : file[i] \in Lines
      BY <1>2
    <3>2. QED
      BY <1>3, <2>2, <3>1, SpelledOn
  <2>5. QED
    BY <1>2, <1>3, <2>1, <2>2, <2>3, <2>4
<1>6. QED
  BY <1>4, <1>5

\* A line that goes on says nothing yet.
LEMMA MeansContinues ==
  ASSUME IInv, Tells, Means, NEW line \in Lines, LineContinues(line)
  PROVE  Means'
<1>1. /\ Reads(line) /\ line.kind # "long" /\ line.more /\ last' = Joined(line)
      /\ errs' = errs /\ dict' = dict /\ section' = section /\ pc' = pc
  BY DEF LineContinues
<1>2. PICK s \in 1 .. Len(file') :
        /\ \/ s = Len(file) + 1 /\ (Len(file) = 0 \/ ~file[Len(file)].more)
           \/ OpenFrom(file, s)
        /\ file'[s].kind = Joined(line).kind /\ file'[s].name = Joined(line).name
        /\ Joined(line).value = Spelled(file', s, Len(file'))
  BY <1>1, Gathered
<1>3. /\ Longer(file, line, file') /\ View(dict, MISSING) = Meaning(file)
      /\ section = Under(file)
  BY <1>1, Gathered
<1>4. Assigning(file') = Assigning(file)
  BY <1>1, <1>3, EndedNoMore, AssigningIsEnded
<1>5. Meaning(file') = Meaning(file) /\ Under(file') = Under(file)
  BY <1>3, <1>4, MeaningKept
<1>6. s \in Starts(file')
  BY <1>2, <1>3 DEF Longer, OpenFrom
<1>7. ASSUME NEW j \in s .. Len(file') PROVE file'[j].more
  <2>1. CASE j = Len(file) + 1
    BY <1>1, <1>3, <2>1 DEF Longer
  <2>2. CASE j # Len(file) + 1
    <3>1. s \in 1 .. (Len(file) + 1) /\ Len(file) \in Nat /\ Len(file') = Len(file) + 1
      BY <1>2, <1>3 DEF Longer
    <3>2. s # Len(file) + 1 /\ j \in s .. Len(file) /\ j \in 1 .. Len(file)
      BY <2>2, <3>1
    <3>3. file[j].more /\ file'[j] = file[j]
      BY <1>2, <1>3, <3>2 DEF Longer, OpenFrom
    <3>4. QED
      BY <3>3
  <2>3. QED
    BY <2>1, <2>2
<1>8. Carried'
  <2>1. OpenFrom(file', s)
    BY <1>6, <1>7 DEF OpenFrom
  <2>2. QED
    BY <1>1, <1>2, <1>6, <2>1 DEF Carried
<1>9. Busy
  BY <1>1 DEF Reads, Busy
<1>10. LoadedMeansFile'
  BY <1>1, <1>9 DEF LoadedMeansFile, Busy
<1>11. QED
  BY <1>1, <1>3, <1>5, <1>8, <1>10 DEF Means

\* A complete line that sets nothing.
LEMMA MeansNothing ==
  ASSUME IInv, Tells, Means, NEW line \in Lines, NEW kind \in {"skip", "error"},
         Complete(line, kind), dict' = dict, section' = section, pc' = pc
  PROVE  Means'
<1>1. /\ Reads(line) /\ ~line.more /\ Joined(line).kind = kind /\ last' = NULL
  BY DEF Complete
<1>2. PICK s \in 1 .. Len(file') :
        /\ \/ s = Len(file) + 1 /\ (Len(file) = 0 \/ ~file[Len(file)].more)
           \/ OpenFrom(file, s)
        /\ file'[s].kind = Joined(line).kind /\ file'[s].name = Joined(line).name
        /\ Joined(line).value = Spelled(file', s, Len(file'))
  BY <1>1, Gathered
<1>3. /\ Longer(file, line, file') /\ View(dict, MISSING) = Meaning(file)
      /\ section = Under(file)
  BY <1>1, Gathered
<1>4. Assigning(file') = Assigning(file)
  <2>1. file'[s].kind \notin Setting
    BY <1>1, <1>2 DEF Setting
  <2>2. Ended(file', Setting) = Ended(file, Setting)
    BY <1>1, <1>2, <1>3, <2>1, EndedOneMore
  <2>3. QED
    BY <2>2, AssigningIsEnded
<1>5. Meaning(file') = Meaning(file) /\ Under(file') = Under(file)
  BY <1>3, <1>4, MeaningKept
<1>6. Carried'
  BY <1>1 DEF Carried
<1>7. Busy
  BY <1>1 DEF Reads, Busy
<1>8. LoadedMeansFile'
  BY <1>7 DEF LoadedMeansFile, Busy
<1>9. QED
  BY <1>3, <1>5, <1>6, <1>8 DEF Means

\* A complete line that sets an entry.
LEMMA MeansOneMore ==
  ASSUME IInv, Tells, Means, NEW line \in Lines, NEW kind \in Setting,
         Complete(line, kind), pc' = pc,
         NEW k \in Keys, NEW v \in Values, dict' = dictionary_set(dict, k, v),
         section' = (IF kind = "section" /\ Joined(line).name # NULL THEN Joined(line).name
                     ELSE section),
         k = (IF kind = "section" THEN <<section'>> ELSE <<section, Joined(line).name>>),
         v = (IF kind = "section" THEN NULL ELSE Parsed(Joined(line).value))
  PROVE  Means'
<1>1. /\ Reads(line) /\ ~line.more /\ Joined(line).kind = kind /\ last' = NULL
  BY DEF Complete
<1>2. PICK s \in 1 .. Len(file') :
        /\ \/ s = Len(file) + 1 /\ (Len(file) = 0 \/ ~file[Len(file)].more)
           \/ OpenFrom(file, s)
        /\ file'[s].kind = Joined(line).kind /\ file'[s].name = Joined(line).name
        /\ Joined(line).value = Spelled(file', s, Len(file'))
  BY <1>1, Gathered
<1>3. /\ Longer(file, line, file') /\ View(dict, MISSING) = Meaning(file)
      /\ section = Under(file) /\ Sound(dict)
  BY <1>1, Gathered
<1>4. Len(file) \in Nat /\ Len(file') = Len(file) + 1 /\ file'[Len(file')] = line
  BY <1>3 DEF Longer
<1>5. /\ Assigning(file') = Assigning(file) \cup {s}
      /\ \A y \in Assigning(file) : y \in 1 .. Len(file) /\ y < s
  <2>1. file'[s].kind \in Setting
    BY <1>1, <1>2
  <2>2. /\ Ended(file', Setting) = Ended(file, Setting) \cup {s}
        /\ \A y \in Ended(file, Setting) : y \in 1 .. Len(file) /\ y < s
    BY <1>1, <1>2, <1>3, <2>1, EndedOneMore
  <2>3. QED
    BY <2>2, AssigningIsEnded
<1>6. section' = Under(file')
  <2>1. Under(file') = IF file'[s].kind = "section" /\ file'[s].name # NULL
                       THEN file'[s].name ELSE Under(file)
    BY <1>3, <1>5, UnderOneMore
  <2>2. QED
    BY <1>1, <1>2, <1>3, <2>1
<1>7. SectionAt(file', s) = section'
  <2>1. s \in Assigning(file') /\ \A y \in Assigning(file') : y <= s
    BY <1>5
  <2>2. Len(file') \in Nat
    BY <1>4
  <2>3. QED
    BY <1>6, <2>1, <2>2, UnderLast
<1>8. KeyAt(file', s) = k
  BY <1>1, <1>2, <1>7 DEF KeyAt, Setting
<1>9. EndsAt(file', s) = Len(file')
  <2> DEFINE G == {j \in s .. Len(file') : ~file'[j].more}
  <2>1. Len(file') \in G
    BY <1>1, <1>4
  <2>2. ASSUME NEW y \in G PROVE y \in Nat /\ Len(file') <= y
    <3>1. SUFFICES ASSUME y # Len(file) + 1 PROVE FALSE
      BY <1>4
    <3>2. y \in s .. Len(file) /\ y \in 1 .. Len(file) /\ s # Len(file) + 1
      BY <1>4, <3>1
    <3>3. file[y].more /\ file'[y] = file[y]
      BY <1>2, <1>3, <3>2 DEF Longer, OpenFrom
    <3>4. QED
      BY <2>2, <3>3
  <2>3. Min(G) = Len(file')
    BY <2>1, <2>2, LeastIs
  <2>4. QED
    BY <2>3 DEF EndsAt
<1>10. ValueAt(file', s) = v
  BY <1>1, <1>2, <1>9, ValueAtIs DEF Setting
<1>11. Meaning(file') = [Meaning(file) EXCEPT ![k] = v]
  <2>1. \A y \in Assigning(file) : y < s
    BY <1>5
  <2>2. QED
    BY <1>3, <1>5, <1>8, <1>10, <2>1, MeaningOneMore
<1>12. View(dict', MISSING) = Meaning(file')
  <2>1. View(dict', MISSING) = [View(dict, MISSING) EXCEPT ![k] = v]
    BY <1>3, SetSound
  <2>2. QED
    BY <1>3, <1>11, <2>1
<1>13. Carried'
  BY <1>1 DEF Carried
<1>14. Busy
  BY <1>1 DEF Reads, Busy
<1>15. LoadedMeansFile'
  BY <1>14 DEF LoadedMeansFile, Busy
<1>16. QED
  BY <1>6, <1>12, <1>13, <1>15 DEF Means

\* An empty file says nothing.
LEMMA MeansBegin ==
  ASSUME NEW d, Begin(d), View(d, MISSING) = [k \in Keys |-> MISSING],
         pc' \in {"load", "reload"}
  PROVE  Means'
<1>1. dict' = d /\ section' = "" /\ last' = NULL /\ file' = <<>>
  BY DEF Begin
<1>2. PICK f : f = file'
  OBVIOUS
<1>3. Assigning(f) = {}
  <2>1. 1 .. Len(f) = {}
    <3>1. f = <<>>
      BY <1>1, <1>2
    <3>2. Len(f) = 0
      BY <3>1
    <3>3. QED
      BY <3>2
  <2>2. Starts(f) \subseteq 1 .. Len(f)
    BY DEF Starts
  <2>3. QED
    BY <2>1, <2>2 DEF Assigning
<1>4. \A k \in Keys : Meaning(f)[k] = MISSING
  BY <1>3, MeaningIs DEF Sets
<1>5. Meaning(f) = [k \in Keys |-> MISSING]
  BY <1>4 DEF Meaning
<1>6. Under(f) = ""
  BY <1>3, SectionAtIs DEF Under, Naming
<1>7. View(dict', MISSING) = Meaning(file') /\ section' = Under(file')
  BY <1>1, <1>2, <1>5, <1>6
<1>8. Carried'
  BY <1>1 DEF Carried
<1>9. LoadedMeansFile'
  BY DEF LoadedMeansFile
<1>10. QED
  BY <1>7, <1>8, <1>9 DEF Means

\* After a call of the program that leaves the dictionary, takes it away, or changes it.
LEMMA MeansCall ==
  ASSUME Means, pc' \in {"idle", "dead"},
         \/ dict' \in {NoDict, Gone}
         \/ asFile' = FALSE
         \/ pc' = "dead"
         \/ dict' = dict /\ asFile' = asFile /\ file' = file /\ pc = "idle"
  PROVE  Means'
<1>1. ~ Busy'
  BY DEF Busy
<1>2. LoadedMeansFile'
  <2>1. CASE dict' \in {NoDict, Gone}
    BY <2>1 DEF LoadedMeansFile, Alive
  <2>2. CASE asFile' = FALSE
    BY <2>2 DEF LoadedMeansFile
  <2>3. CASE pc' = "dead"
    BY <2>3 DEF LoadedMeansFile
  <2>4. CASE dict' = dict /\ asFile' = asFile /\ file' = file /\ pc = "idle"
    <3>1. LoadedMeansFile
      BY DEF Means
    <3>2. QED
      BY <2>4, <3>1 DEF LoadedMeansFile, Alive
  <2>5. QED
    BY <2>1, <2>2, <2>3, <2>4
<1>3. QED
  BY <1>1, <1>2 DEF Means

\* Each turn of the loop over the lines.
LEMMA MeansLine ==
  ASSUME IInv, Tells, Means, NEW line \in Lines,
         \/ LineTooLong(line) \/ LineContinues(line) \/ LineSkipped(line)
         \/ LineError(line) \/ LineSection(line) \/ LineValue(line) \/ LineNoMemory(line)
  PROVE  Means'
<1>1. CASE LineTooLong(line)
  <2>1. pc' = "idle" /\ dict' \in {NoDict, Gone}
    BY <1>1 DEF LineTooLong, Return
  <2>2. QED
    BY <2>1, MeansCall
<1>2. CASE LineContinues(line)
  BY <1>2, MeansContinues
<1>3. CASE LineSkipped(line)
  <2>1. Complete(line, "skip") /\ dict' = dict /\ section' = section /\ pc' = pc
    BY <1>3 DEF LineSkipped
  <2>2. QED
    BY <2>1, MeansNothing
<1>4. CASE LineError(line)
  <2>1. Complete(line, "error") /\ dict' = dict /\ section' = section /\ pc' = pc
    BY <1>4 DEF LineError
  <2>2. QED
    BY <2>1, MeansNothing
<1>5. CASE LineSection(line)
  <2>1. /\ Complete(line, "section") /\ pc' = pc /\ section' = SectionOf(line)
        /\ dict' = dictionary_set(dict, <<SectionOf(line)>>, NULL)
    BY <1>5 DEF LineSection, Stored
  <2>2. <<SectionOf(line)>> \in Keys /\ Joined(line) = line /\ NULL \in Values
    BY <2>1, SectionTyped DEF Values
  <2>3. section' = IF Joined(line).name # NULL THEN Joined(line).name ELSE section
    BY <2>1, <2>2 DEF SectionOf
  <2>4. PICK k \in Keys : k = <<section'>> /\ dict' = dictionary_set(dict, k, NULL)
    BY <2>1, <2>2
  <2>5. "section" \in Setting
    BY DEF Setting
  <2>6. QED
    BY <2>1, <2>2, <2>3, <2>4, <2>5, MeansOneMore
<1>6. CASE LineValue(line)
  <2>1. /\ Complete(line, "value") /\ pc' = pc /\ section' = section
        /\ dict' = dictionary_set(dict, <<section, Joined(line).name>>,
                                        Parsed(Joined(line).value))
    BY <1>6 DEF LineValue, Stored
  <2>2. <<section, Joined(line).name>> \in Keys /\ Parsed(Joined(line).value) \in Values
    BY <2>1, ValueTyped
  <2>3. PICK k \in Keys, v \in Values :
          /\ k = <<section, Joined(line).name>> /\ v = Parsed(Joined(line).value)
          /\ dict' = dictionary_set(dict, k, v)
    BY <2>1, <2>2
  <2>4. "value" \in Setting
    BY DEF Setting
  <2>5. QED
    BY <2>1, <2>3, <2>4, MeansOneMore
<1>7. CASE LineNoMemory(line)
  <2>1. \/ pc' = "dead" /\ dict' = Gone
        \/ dict' = Gone /\ errs' = -1 /\ pc' = pc
    BY <1>7 DEF LineNoMemory
  <2>2. pc \in {"load", "reload"}
    BY <1>7 DEF LineNoMemory, Complete, Reads
  <2>3. LoadedMeansFile'
    BY <2>1, <2>2 DEF LoadedMeansFile
  <2>4. ~(Busy' /\ errs' >= 0)
    BY <2>1 DEF Busy
  <2>5. QED
    BY <2>3, <2>4 DEF Means
<1>8. QED
  BY <1>1, <1>2, <1>3, <1>4, <1>5, <1>6, <1>7

\* Every step keeps the dictionary and the file in agreement.
LEMMA MeansNext == IInv /\ Tells /\ Means /\ [Next]_vars => Means'
<1>1. SUFFICES ASSUME IInv, Tells, Means, [Next]_vars PROVE Means'
  OBVIOUS
<1>2. CASE Load
  <2>1. Begin(dictionary_new) /\ pc' \in {"load", "reload"}
    BY <1>2 DEF Load
  <2>2. View(dictionary_new, MISSING) = [k \in Keys |-> MISSING]
    BY NewSound
  <2>3. QED
    BY <2>1, <2>2, MeansBegin
<1>3. CASE Reload
  <2>1. Begin(dictionary_clear(dict)) /\ pc' \in {"load", "reload"} /\ Alive
    BY <1>3 DEF Reload
  <2>2. View(dictionary_clear(dict), MISSING) = [k \in Keys |-> MISSING]
    BY <1>1, <2>1, AliveIsSound, ClearSound
  <2>3. QED
    BY <2>1, <2>2, MeansBegin
<1>4. CASE \E line \in Lines :
             \/ LineTooLong(line) \/ LineContinues(line) \/ LineSkipped(line)
             \/ LineError(line) \/ LineSection(line) \/ LineValue(line) \/ LineNoMemory(line)
  BY <1>1, <1>4, MeansLine
<1>5. CASE EndOfFile
  <2>1. /\ Busy /\ pc' = "idle" /\ file' = file
        /\ dict' = dict \/ dict' \in {NoDict, Gone}
        /\ errs # 0 => dict' \in {NoDict, Gone}
    BY <1>5 DEF EndOfFile, Return, Busy
  <2>2. CASE dict' \in {NoDict, Gone}
    BY <1>1, <2>1, <2>2, MeansCall
  <2>3. CASE errs = 0 /\ dict' = dict
    <3>1. View(dict, MISSING) = Meaning(file)
      BY <1>1, <2>1, <2>3 DEF Means
    <3>2. View(dict', MISSING) = Meaning(file')
      BY <2>1, <2>3, <3>1
    <3>3. QED
      BY <2>1, <3>2 DEF Means, LoadedMeansFile, Busy
  <2>4. QED
    BY <2>1, <2>2, <2>3
<1>6. CASE \/ ReloadNoFile
           \/ \E k \in UserKeys :
                \/ \E v \in UserValues : iniparser_set(k, v)
                \/ SetNoMemory(k) \/ iniparser_unset(k)
           \/ \E k \in Keys : GetNumber(k)
           \/ UseGone \/ iniparser_freedict \/ Restart
  <2>1. /\ pc' \in {"idle", "dead"}
        /\ \/ dict' \in {NoDict, Gone}
           \/ asFile' = FALSE
           \/ pc' = "dead"
           \/ dict' = dict /\ asFile' = asFile /\ file' = file /\ pc = "idle"
    BY <1>6 DEF ReloadNoFile, iniparser_set, SetNoMemory, iniparser_unset, GetNumber, UseGone,
                Die, iniparser_freedict, Restart
  <2>2. QED
    BY <1>1, <2>1, MeansCall
<1>7. CASE UNCHANGED vars
  <2>1. /\ dict' = dict /\ pc' = pc /\ section' = section /\ last' = last /\ errs' = errs
        /\ file' = file /\ asFile' = asFile
    BY <1>7 DEF vars, locals
  <2>2. Busy' = Busy
    BY <2>1 DEF Busy
  <2>3. Carried' = Carried
    BY <2>1 DEF Carried
  <2>4. LoadedMeansFile' = LoadedMeansFile
    BY <2>1 DEF LoadedMeansFile, Alive
  <2>5. QED
    BY <1>1, <2>1, <2>2, <2>3, <2>4 DEF Means
<1>8. QED
  BY <1>1, <1>2, <1>3, <1>4, <1>5, <1>6, <1>7 DEF Next

\* At the start nothing is loaded,
LEMMA TellsInit == Init => Tells
BY DEF Init, Tells, Busy

\* and no file was read.
LEMMA MeansInit == Init => Means
BY DEF Init, Means, Busy, LoadedMeansFile

\* What the lookups answer after a load or a reload is what the file says.
THEOREM LoadedIsTheFile == Spec => []LoadedMeansFile
<1>1. Spec => [](IInv /\ Tells /\ Means)
  BY IInvInit, IInvNext, TellsInit, TellsNext, MeansInit, MeansNext, PTL DEF Spec
<1>2. Means => LoadedMeansFile
  BY DEF Means
<1>3. QED
  BY <1>1, <1>2, PTL

(***************************************************************************)
(* The slots a program is given, in order.                                 *)
(***************************************************************************)
Below(S, i) == {j \in S : j < i}

\* InOrder by the counts of the numbers below.
LEMMA InOrderIs ==
  ASSUME NEW S
  PROVE  InOrder(S) =
           [n \in 1 .. Cardinality(S) |-> CHOOSE i \in S : Cardinality(Below(S, i)) = n - 1]
BY DEF InOrder, Below

\* No two numbers have as many below them.
LEMMA BelowDiffers ==
  ASSUME NEW S, S \subseteq Nat, IsFiniteSet(S), NEW i \in S, NEW j \in S, i < j
  PROVE  Cardinality(Below(S, i)) < Cardinality(Below(S, j))
<1>1. PICK T, U : T = Below(S, i) /\ U = Below(S, j)
  OBVIOUS
<1>2. U \in SUBSET S /\ T \in SUBSET U /\ i \in U /\ i \notin T
  <2>1. i \in Nat /\ j \in Nat /\ \A x \in S : x \in Nat
    OBVIOUS
  <2>2. i \in U /\ i \notin T /\ T \subseteq S /\ U \subseteq S
    BY <1>1, <2>1 DEF Below
  <2>3. \A x \in T : x \in U
    BY <1>1, <2>1 DEF Below
  <2>4. QED
    BY <2>2, <2>3
<1>3. IsFiniteSet(U)
  BY <1>2, FS_Subset
<1>4. IsFiniteSet(T) /\ Cardinality(T) <= Cardinality(U) /\ (Cardinality(U) = Cardinality(T) => U = T)
  BY <1>2, <1>3, FS_Subset
<1>5. Cardinality(T) \in Nat /\ Cardinality(U) \in Nat
  BY <1>3, <1>4, FS_CardinalityType
<1>6. QED
  BY <1>1, <1>2, <1>4, <1>5

\* A number has fewer below it than there are.
LEMMA BelowBound ==
  ASSUME NEW S, S \subseteq Nat, IsFiniteSet(S), NEW i \in S
  PROVE  Cardinality(Below(S, i)) \in 0 .. Cardinality(S) - 1
<1>1. PICK T : T = Below(S, i)
  OBVIOUS
<1>2. T \in SUBSET S /\ i \notin T
  BY <1>1 DEF Below
<1>3. IsFiniteSet(T) /\ Cardinality(T) <= Cardinality(S) /\ (Cardinality(S) = Cardinality(T) => S = T)
  BY <1>2, FS_Subset
<1>4. Cardinality(T) \in Nat /\ Cardinality(S) \in Nat
  BY <1>3, FS_CardinalityType
<1>5. QED
  BY <1>1, <1>2, <1>3, <1>4

\* The count tells a number from the others.
LEMMA BelowOnce ==
  ASSUME NEW S, S \subseteq Nat, IsFiniteSet(S), NEW i \in S, NEW j \in S,
         Cardinality(Below(S, i)) = Cardinality(Below(S, j))
  PROVE  i = j
<1>1. i \in Nat /\ j \in Nat
  OBVIOUS
<1>2. ASSUME NEW x \in S, NEW y \in S, x < y,
             Cardinality(Below(S, x)) = Cardinality(Below(S, y))
      PROVE  FALSE
  <2>1. Cardinality(Below(S, x)) < Cardinality(Below(S, y))
    BY <1>2, BelowDiffers, Zenon
  <2>2. Cardinality(Below(S, x)) \in 0 .. Cardinality(S) - 1 /\ Cardinality(S) \in Nat
    BY BelowBound, FS_CardinalityType, Zenon
  <2>3. QED
    BY <1>2, <2>1, <2>2
<1>3. ~(i < j) /\ ~(j < i)
  BY <1>2, Zenon
<1>4. QED
  BY <1>1, <1>3

\* Each count is that of one of them.
LEMMA BelowAll ==
  ASSUME NEW S, S \subseteq Nat, IsFiniteSet(S), NEW n \in 0 .. Cardinality(S) - 1
  PROVE  \E i \in S : Cardinality(Below(S, i)) = n
<1>1. SUFFICES ASSUME \A i \in S : Cardinality(Below(S, i)) # n PROVE FALSE
  OBVIOUS
<1>2. PICK c \in Nat : c = Cardinality(S)
  BY FS_CardinalityType
<1>3. PICK all : all = 0 .. c - 1
  OBVIOUS
<1>4. IsFiniteSet(all) /\ Cardinality(all) = c /\ n \in all
  <2>1. 0 \in Int /\ c - 1 \in Int /\ ~(0 > c - 1) /\ (c - 1) - 0 + 1 = c
    BY <1>2
  <2>2. QED
    BY <1>2, <1>3, <2>1, FS_Interval
<1>5. IsFiniteSet(all \ {n}) /\ Cardinality(all \ {n}) = c - 1
  BY <1>4, FS_RemoveElement
<1>6. PICK r : r = [i \in S |-> Cardinality(Below(S, i))]
  OBVIOUS
<1>7. r \in [S -> all \ {n}]
  BY <1>1, <1>2, <1>3, <1>6, BelowBound
<1>8. Cardinality(all \ {n}) < Cardinality(S)
  BY <1>2, <1>5
<1>9. PICK x, y \in S : x # y /\ r[x] = r[y]
  BY <1>5, <1>7, <1>8, FS_PigeonHole
<1>10. QED
  BY <1>6, <1>9, BelowOnce

\* Each of the numbers is listed, once, and nothing else.
LEMMA Listed ==
  ASSUME NEW S, S \subseteq Nat, IsFiniteSet(S)
  PROVE  /\ Cardinality(S) \in Nat
         /\ InOrder(S) \in [1 .. Cardinality(S) -> S]
         /\ Len(InOrder(S)) = Cardinality(S)
         /\ \A i \in S : \E n \in 1 .. Cardinality(S) : InOrder(S)[n] = i
         /\ \A m, n \in 1 .. Cardinality(S) : InOrder(S)[m] = InOrder(S)[n] => m = n
<1>1. PICK c \in Nat : c = Cardinality(S)
  BY FS_CardinalityType
<1>2. PICK o : o = InOrder(S)
  OBVIOUS
<1>3. o = [n \in 1 .. c |-> CHOOSE i \in S : Cardinality(Below(S, i)) = n - 1]
  BY <1>1, <1>2, InOrderIs
<1>4. ASSUME NEW n \in 1 .. c PROVE o[n] \in S /\ Cardinality(Below(S, o[n])) = n - 1
  <2>1. n - 1 \in 0 .. Cardinality(S) - 1
    BY <1>1
  <2>2. \E i \in S : Cardinality(Below(S, i)) = n - 1
    BY <2>1, BelowAll
  <2>3. o[n] = CHOOSE i \in S : Cardinality(Below(S, i)) = n - 1
    BY <1>3
  <2>4. QED
    BY <2>2, <2>3
<1>5. o \in [1 .. c -> S]
  BY <1>3, <1>4
<1>6. ASSUME NEW i \in S PROVE \E n \in 1 .. c : o[n] = i
  <2>1. PICK b : b = Cardinality(Below(S, i))
    OBVIOUS
  <2>2. b \in 0 .. c - 1
    BY <1>1, <2>1, BelowBound
  <2>3. b + 1 \in 1 .. c /\ (b + 1) - 1 = b
    BY <2>2
  <2>4. Cardinality(Below(S, o[b + 1])) = b /\ o[b + 1] \in S
    BY <1>4, <2>3
  <2>5. o[b + 1] = i
    BY <2>1, <2>4, BelowOnce
  <2>6. QED
    BY <2>3, <2>5
<1>7. ASSUME NEW m \in 1 .. c, NEW n \in 1 .. c, o[m] = o[n] PROVE m = n
  <2>1. m - 1 = n - 1
    BY <1>4, <1>7
  <2>2. QED
    BY <2>1
<1>8. Len(o) = c
  BY <1>3
<1>9. QED
  BY <1>1, <1>2, <1>5, <1>6, <1>7, <1>8

(***************************************************************************)
(* The sections and keys a program lists.                                  *)
(***************************************************************************)
\* Each key that is in the table has its hash: dictionary_clear was not called.
Hashed(d) == \A i \in Used(d) : d.hash[i] = Hash[d.key[i]]

\* In a new dictionary no key is.
LEMMA NewHashed == Hashed(dictionary_new)
<1>1. Used(dictionary_new) = {}
  BY DEF Used, Slots, dictionary_new
<1>2. QED
  BY <1>1 DEF Hashed

\* dictionary_set stores a hash with each key it inserts.
LEMMA SetHashed ==
  ASSUME NEW d, Sound(d), Hashed(d), NEW k \in Keys, NEW v
  PROVE  Hashed(dictionary_set(d, k, v))
<1>1. CASE Found(d, k)
  <2>1. PICK r, i : r = dictionary_set(d, k, v) /\ i = Min(Matches(d, k))
    OBVIOUS
  <2>2. r = [d EXCEPT !.val[i] = v]
    BY <1>1, <2>1 DEF dictionary_set
  <2>3. Slots(r) = Slots(d) /\ r.key = d.key /\ r.hash = d.hash
    BY <2>2 DEF Sound, Shape, Slots
  <2>4. QED
    BY <2>1, <2>3 DEF Hashed, Used
<1>2. CASE ~Found(d, k)
  <2>1. PICK g : g = IF MustGrow(d, k) THEN Grown(d) ELSE d
    OBVIOUS
  <2>2. d.n \in Nat /\ d.size \in Nat \ {0} /\ d.n <= d.size
    BY DEF Sound, Shape, Counted
  <2>3. Sound(g) /\ g.n < g.size
    <3>1. CASE MustGrow(d, k)
      BY <2>1, <2>2, <3>1, GrownSound DEF MustGrow
    <3>2. CASE ~MustGrow(d, k)
      BY <1>2, <2>1, <2>2, <3>2 DEF MustGrow
    <3>3. QED
      BY <3>1, <3>2
  <2>4. Hashed(g)
    <3>1. CASE MustGrow(d, k)
      <4>1. /\ g.size = 2 * d.size
            /\ g.key = mem_double(d.key, d.size, NULL) /\ g.hash = mem_double(d.hash, d.size, 0)
        BY <2>1, <3>1 DEF Grown
      <4>2. \A i \in Used(g) : i \in Used(d) /\ g.key[i] = d.key[i] /\ g.hash[i] = d.hash[i]
        BY <2>2, <4>1 DEF mem_double, Used, Slots
      <4>3. QED
        BY <4>2 DEF Hashed
    <3>2. QED
      BY <2>1, <3>1
  <2>5. PICK r, i : r = Inserted(g, k, v) /\ i = ProbedSlot(g)
    OBVIOUS
  <2>6. i \in Slots(g) /\ Shape(g)
    BY <2>3, <2>5, ProbeFinds DEF Sound
  <2>7. r = [g EXCEPT !.key[i] = k, !.val[i] = v, !.hash[i] = Hash[k], !.n = g.n + 1]
    BY <2>5 DEF Inserted
  <2>8. /\ Slots(r) = Slots(g) /\ r.key = [g.key EXCEPT ![i] = k]
        /\ r.hash = [g.hash EXCEPT ![i] = Hash[k]]
    <3>1. PICK h, n : h = Hash[k] /\ n = g.n + 1
      OBVIOUS
    <3>2. r = [g EXCEPT !.key[i] = k, !.val[i] = v, !.hash[i] = h, !.n = n]
      BY <2>7, <3>1
    <3>3. QED
      BY <2>6, <3>1, <3>2 DEF Shape, Slots
  <2>9. ASSUME NEW j \in Used(r) PROVE r.hash[j] = Hash[r.key[j]]
    <3>1. j \in Slots(g) /\ g.key \in [Slots(g) -> Keys \cup {NULL}] /\ g.hash \in [Slots(g) -> Nat]
      BY <2>6, <2>8 DEF Used, Shape
    <3>2. CASE j = i
      <4>1. r.key[j] = k
        BY <2>8, <3>1, <3>2
      <4>2. r.hash[j] = Hash[k]
        BY <2>8, <3>1, <3>2
      <4>3. QED
        BY <4>1, <4>2
    <3>3. CASE j # i
      <4>1. r.key[j] = g.key[j] /\ r.hash[j] = g.hash[j]
        BY <2>8, <3>1, <3>3
      <4>2. j \in Used(g)
        BY <3>1, <4>1 DEF Used
      <4>3. QED
        BY <2>4, <4>1, <4>2 DEF Hashed
    <3>4. QED
      BY <3>2, <3>3
  <2>10. dictionary_set(d, k, v) = r
    BY <1>2, <2>1, <2>5 DEF dictionary_set
  <2>11. QED
    BY <2>9, <2>10 DEF Hashed
<1>3. QED
  BY <1>1, <1>2

\* dictionary_unset leaves the other slots alone.
LEMMA UnsetHashed ==
  ASSUME NEW d, Sound(d), Hashed(d), NEW k \in Keys
  PROVE  Hashed(dictionary_unset(d, k))
<1>1. CASE Matches(d, k) = {}
  BY <1>1 DEF dictionary_unset
<1>2. CASE Matches(d, k) # {}
  <2>1. PICK r, i : r = dictionary_unset(d, k) /\ i = Min(Matches(d, k))
    OBVIOUS
  <2>2. i \in Slots(d) /\ Shape(d)
    <3>1. i \in Matches(d, k)
      BY <1>2, <2>1, OneMatch
    <3>2. QED
      BY <3>1 DEF Matches, Sound
  <2>3. PICK n : n = d.n - 1
    OBVIOUS
  <2>4. r = [d EXCEPT !.key[i] = NULL, !.val[i] = NULL, !.hash[i] = 0, !.n = n]
    BY <1>2, <2>1, <2>3 DEF dictionary_unset
  <2>5. /\ Slots(r) = Slots(d) /\ r.key = [d.key EXCEPT ![i] = NULL]
        /\ r.hash = [d.hash EXCEPT ![i] = 0]
    BY <2>2, <2>4 DEF Shape, Slots
  <2>6. ASSUME NEW j \in Used(r) PROVE r.hash[j] = Hash[r.key[j]]
    <3>1. j \in Slots(d) /\ d.key \in [Slots(d) -> Keys \cup {NULL}] /\ d.hash \in [Slots(d) -> Nat]
      BY <2>2, <2>5 DEF Used, Shape
    <3>2. j # i
      BY <2>5, <3>1 DEF Used
    <3>3. r.key[j] = d.key[j] /\ r.hash[j] = d.hash[j]
      BY <2>5, <3>1, <3>2
    <3>4. j \in Used(d)
      BY <3>1, <3>3 DEF Used
    <3>5. QED
      BY <3>3, <3>4 DEF Hashed
  <2>7. QED
    BY <2>1, <2>6 DEF Hashed
<1>3. QED
  BY <1>1, <1>2

\* A dictionary that was not reloaded.
Fresh == ~reloaded => dict \in {NoDict, Gone} \/ Hashed(dict)

\* At the start nothing was reloaded.
LEMMA FreshInit == Init => Fresh
BY DEF Init, Fresh

\* Each turn of the loop over the lines.
LEMMA FreshLine ==
  ASSUME IInv, Fresh, NEW line \in Lines,
         \/ LineTooLong(line) \/ LineContinues(line) \/ LineSkipped(line)
         \/ LineError(line) \/ LineSection(line) \/ LineValue(line) \/ LineNoMemory(line)
  PROVE  Fresh'
<1>1. reloaded' = reloaded /\ Busy /\ errs >= 0 /\ Sound(dict)
  BY DEF LineTooLong, LineContinues, LineSkipped, LineError, LineSection, LineValue, LineNoMemory,
         Complete, Reads, Busy, IInv, Reading
<1>2. reloaded \/ Hashed(dict)
  BY <1>1, SoundIsAlive DEF Fresh
<1>3. CASE LineTooLong(line)
  <2>1. dict' \in {NoDict, Gone}
    BY <1>3 DEF LineTooLong, Return
  <2>2. QED
    BY <2>1 DEF Fresh
<1>4. CASE LineContinues(line) \/ LineSkipped(line) \/ LineError(line)
  <2>1. dict' = dict
    BY <1>4 DEF LineContinues, LineSkipped, LineError
  <2>2. QED
    BY <1>1, <1>2, <2>1 DEF Fresh, Hashed, Used
<1>5. CASE LineSection(line)
  <2>1. <<SectionOf(line)>> \in Keys /\ dict' = dictionary_set(dict, <<SectionOf(line)>>, NULL)
    BY <1>5, SectionTyped DEF LineSection, Stored
  <2>2. Hashed(dict) => Hashed(dict')
    BY <1>1, <2>1, SetHashed
  <2>3. QED
    BY <1>1, <1>2, <2>2 DEF Fresh
<1>6. CASE LineValue(line)
  <2>1. /\ <<section, Joined(line).name>> \in Keys
        /\ dict' = dictionary_set(dict, <<section, Joined(line).name>>,
                                        Parsed(Joined(line).value))
    BY <1>6, ValueTyped DEF LineValue, Stored
  <2>2. Hashed(dict) => Hashed(dict')
    BY <1>1, <2>1, SetHashed
  <2>3. QED
    BY <1>1, <1>2, <2>2 DEF Fresh
<1>7. CASE LineNoMemory(line)
  <2>1. dict' = Gone
    BY <1>7 DEF LineNoMemory
  <2>2. QED
    BY <2>1 DEF Fresh
<1>8. QED
  BY <1>3, <1>4, <1>5, <1>6, <1>7

\* Until it is reloaded a dictionary keeps each key with its hash.
LEMMA FreshNext == IInv /\ Fresh /\ [Next]_vars => Fresh'
<1>1. SUFFICES ASSUME IInv, Fresh, [Next]_vars PROVE Fresh'
  OBVIOUS
<1>2. CASE Load
  <2>1. dict' = dictionary_new
    BY <1>2 DEF Load, Begin
  <2>2. Hashed(dict')
    BY <2>1, NewHashed, Zenon
  <2>3. QED
    BY <2>2 DEF Fresh
<1>3. CASE Reload
  BY <1>3 DEF Reload, Fresh
<1>4. CASE \E line \in Lines :
             \/ LineTooLong(line) \/ LineContinues(line) \/ LineSkipped(line)
             \/ LineError(line) \/ LineSection(line) \/ LineValue(line) \/ LineNoMemory(line)
  BY <1>1, <1>4, FreshLine
<1>5. CASE EndOfFile
  <2>1. reloaded' = reloaded /\ (dict' = dict \/ dict' \in {NoDict, Gone})
    BY <1>5 DEF EndOfFile, Return
  <2>2. QED
    BY <1>1, <2>1 DEF Fresh, Hashed, Used
<1>6. CASE \E k \in UserKeys :
             \/ \E v \in UserValues : iniparser_set(k, v)
             \/ iniparser_unset(k)
  <2>1. PICK k \in Keys :
          \/ \E v \in UserValues : iniparser_set(k, v)
          \/ iniparser_unset(k)
    BY <1>6, UserTyped
  <2>2. /\ Alive /\ reloaded' = reloaded
        /\ \/ \E v \in UserValues : dict' = dictionary_set(dict, k, v)
           \/ dict' = dictionary_unset(dict, k)
    BY <2>1 DEF iniparser_set, iniparser_unset
  <2>3. Sound(dict)
    BY <1>1, <2>2, AliveIsSound
  <2>4. Hashed(dict) => Hashed(dict')
    BY <2>2, <2>3, SetHashed, UnsetHashed
  <2>5. QED
    BY <1>1, <2>2, <2>4 DEF Fresh, Alive
<1>7. CASE \/ ReloadNoFile \/ (\E k \in UserKeys : SetNoMemory(k))
           \/ (\E k \in Keys : GetNumber(k)) \/ UseGone \/ iniparser_freedict \/ Restart
  <2>1. (reloaded' = reloaded /\ dict' = dict) \/ dict' \in {NoDict, Gone}
    BY <1>7 DEF ReloadNoFile, SetNoMemory, GetNumber, UseGone, Die, iniparser_freedict, Restart
  <2>2. QED
    BY <1>1, <2>1 DEF Fresh, Hashed, Used
<1>8. CASE UNCHANGED vars
  <2>1. reloaded' = reloaded /\ dict' = dict
    BY <1>8 DEF vars
  <2>2. QED
    BY <1>1, <2>1 DEF Fresh, Hashed, Used
<1>9. QED
  BY <1>1, <1>2, <1>3, <1>4, <1>5, <1>6, <1>7, <1>8 DEF Next

\* A key that is found is in one slot.
LEMMA FoundOnce ==
  ASSUME NEW d, Sound(d), Hashed(d), NEW i \in Used(d)
  PROVE  d.key[i] \in Keys /\ Matches(d, d.key[i]) = {i}
<1>1. d.key[i] \in Keys /\ i \in Slots(d) /\ d.hash[i] = Hash[d.key[i]]
  BY DEF Sound, Shape, Used, Hashed
<1>2. i \in Matches(d, d.key[i])
  BY <1>1 DEF Matches
<1>3. QED
  BY <1>1, <1>2 DEF Sound, Single

\* The keys in some of the slots, in order.
Listing(d, S) == [j \in 1 .. Len(InOrder(S)) |-> d.key[InOrder(S)[j]]]

\* The keys of the slots, all of them, and each once if the hashes are there.
LEMMA ListedKeys ==
  ASSUME NEW d, Sound(d), NEW S, S \subseteq Used(d)
  PROVE  /\ Range(Listing(d, S)) = {d.key[i] : i \in S}
         /\ Hashed(d) => IsInjective(Listing(d, S))
<1>1. S \subseteq Nat /\ IsFiniteSet(S)
  <2>1. IsFiniteSet(Used(d)) /\ Used(d) \subseteq Nat
    BY UsedNumbers
  <2>2. QED
    BY <2>1, FS_Subset
<1>2. PICK o, c : o = InOrder(S) /\ c = Cardinality(S)
  OBVIOUS
<1>3. /\ o \in [1 .. c -> S] /\ Len(o) = c
      /\ \A i \in S : \E n \in 1 .. c : o[n] = i
      /\ \A m, n \in 1 .. c : o[m] = o[n] => m = n
  BY <1>1, <1>2, Listed
<1>4. PICK q : q = Listing(d, S)
  OBVIOUS
<1>5. q = [j \in 1 .. c |-> d.key[o[j]]]
  BY <1>2, <1>3, <1>4 DEF Listing
<1>6. Range(q) = {d.key[i] : i \in S}
  BY <1>3, <1>5 DEF Range
<1>7. ASSUME Hashed(d), NEW a \in 1 .. c, NEW b \in 1 .. c, q[a] = q[b] PROVE a = b
  <2>1. o[a] \in Used(d) /\ o[b] \in Used(d) /\ d.key[o[a]] = d.key[o[b]]
    BY <1>3, <1>5, <1>7
  <2>2. o[a] = o[b]
    <3>1. PICK x \in Used(d), y \in Used(d) : x = o[a] /\ y = o[b] /\ d.key[x] = d.key[y]
      BY <2>1
    <3>2. Matches(d, d.key[x]) = {x} /\ Matches(d, d.key[y]) = {y}
      BY <1>7, FoundOnce
    <3>3. QED
      BY <3>1, <3>2
  <2>3. QED
    BY <1>3, <2>2
<1>8. Hashed(d) => IsInjective(q)
  BY <1>5, <1>7 DEF IsInjective
<1>9. QED
  BY <1>4, <1>6, <1>8

\* The keys that are looked up.
Here == {k \in Keys : iniparser_find_entry(k)}

\* A lookup tells a key from INI_INVALID_KEY: no entry has it for value.
LEMMA HereIs ==
  ASSUME Sound(dict), NEW k \in Keys
  PROVE  k \in Here <=> Matches(dict, k) # {}
<1>1. \A i \in Matches(dict, k) : dict.val[i] # MISSING
  BY KeysAssumption DEF Sound, Shape, Matches
<1>2. Matches(dict, k) # {} => Min(Matches(dict, k)) \in Matches(dict, k)
  BY OneMatch
<1>3. QED
  BY <1>1, <1>2 DEF Here, iniparser_find_entry, iniparser_getstring, dictionary_get

\* The slots of the sections, and those of the keys of one.
SectionsAt == {i \in Slots(dict) : IsSection(dict.key[i])}
KeysAt(s) ==
  {i \in Slots(dict) : dict.key[i] # NULL /\ Len(dict.key[i]) = 2 /\ dict.key[i][1] = s[1]}

\* iniparser_getsecname counts through the slots of the sections,
LEMMA SecnamesAre ==
  [j \in 1 .. iniparser_getnsec |-> iniparser_getsecname(j - 1)] = Listing(dict, SectionsAt)
<1>1. PICK o : o = InOrder(SectionsAt)
  OBVIOUS
<1>2. SectionSlots = o
  BY <1>1 DEF SectionSlots, SectionsAt
<1>3. iniparser_getnsec = Len(o)
  BY <1>2 DEF iniparser_getnsec
<1>4. ASSUME NEW j \in 1 .. Len(o) PROVE iniparser_getsecname(j - 1) = dict.key[o[j]]
  <2>1. (j - 1) + 1 = j
    OBVIOUS
  <2>2. QED
    BY <1>2, <2>1 DEF iniparser_getsecname
<1>5. QED
  BY <1>1, <1>3, <1>4 DEF Listing

\* and iniparser_getseckeys through those of the keys of one.
LEMMA SeckeysAre ==
  ASSUME NEW s, iniparser_find_entry(s)
  PROVE  iniparser_getseckeys(s) = Listing(dict, KeysAt(s))
BY DEF iniparser_getseckeys, KeySlots, KeysAt, Listing

\* What is listed, from the invariants.
LEMMA SectionsFound == IInv /\ Fresh => SectionsListed
<1>1. SUFFICES ASSUME IInv, Fresh, pc = "idle", Alive PROVE SectionsListed
  BY DEF SectionsListed
<1>2. Sound(dict) /\ (~reloaded => Hashed(dict))
  BY <1>1, AliveIsSound DEF Fresh, Alive
<1>3. PICK names : names = [j \in 1 .. iniparser_getnsec |-> iniparser_getsecname(j - 1)]
  OBVIOUS
<1>4. PICK sections : sections = {k \in Here : Len(k) = 1}
  OBVIOUS
<1>5. NULL \notin Keys /\ dict.key \in [Slots(dict) -> Keys \cup {NULL}]
  BY <1>2, DictionaryAssumption DEF Sound, Shape
<1>6. /\ Range(names) = {dict.key[i] : i \in SectionsAt}
      /\ ~reloaded => IsInjective(names)
  <2>1. SectionsAt \subseteq Used(dict)
    BY DEF SectionsAt, IsSection, Used
  <2>2. names = Listing(dict, SectionsAt)
    BY <1>3, SecnamesAre
  <2>3. QED
    BY <1>2, <2>1, <2>2, ListedKeys
<1>7. ASSUME NEW k \in Here
      PROVE  \E i \in Used(dict) : dict.key[i] = k
  <2>1. k \in Keys
    BY DEF Here
  <2>2. PICK i : i \in Matches(dict, k)
    BY <1>2, <2>1, HereIs
  <2>3. QED
    BY <1>2, <2>1, <2>2, MatchIsUsed DEF Sound
<1>8. ASSUME ~reloaded, NEW i \in Used(dict) PROVE dict.key[i] \in Here
  BY <1>2, <1>8, FoundOnce, HereIs
<1>9. sections \subseteq Range(names)
  <2>1. ASSUME NEW s \in sections PROVE s \in Range(names)
    <3>1. PICK i \in Used(dict) : dict.key[i] = s
      BY <1>4, <1>7
    <3>2. i \in SectionsAt
      BY <1>4, <3>1 DEF SectionsAt, IsSection, Used
    <3>3. QED
      BY <1>6, <3>1, <3>2
  <2>2. QED
    BY <2>1
<1>10. ~reloaded => Range(names) = sections
  <2>1. ASSUME ~reloaded, NEW i \in SectionsAt PROVE dict.key[i] \in sections
    BY <1>4, <1>8, <2>1 DEF SectionsAt, IsSection, Used
  <2>2. QED
    BY <1>6, <1>9, <2>1
<1>11. ASSUME NEW s \in sections
       PROVE  /\ {k \in Here : Len(k) = 2 /\ k[1] = s[1]} \subseteq Range(iniparser_getseckeys(s))
              /\ ~reloaded => /\ IsInjective(iniparser_getseckeys(s))
                              /\ Range(iniparser_getseckeys(s)) \subseteq Here
  <2>1. iniparser_find_entry(s)
    BY <1>4 DEF Here
  <2>2. KeysAt(s) \subseteq Used(dict)
    BY DEF KeysAt, Used
  <2>3. PICK q : q = iniparser_getseckeys(s)
    OBVIOUS
  <2>4. Range(q) = {dict.key[i] : i \in KeysAt(s)} /\ (~reloaded => IsInjective(q))
    <3>1. q = Listing(dict, KeysAt(s))
      BY <2>1, <2>3, SeckeysAre
    <3>2. QED
      BY <1>2, <2>2, <3>1, ListedKeys
  <2>5. ASSUME NEW k \in Here, Len(k) = 2, k[1] = s[1] PROVE k \in Range(q)
    <3>1. PICK i \in Used(dict) : dict.key[i] = k
      BY <1>7
    <3>2. i \in KeysAt(s)
      BY <2>5, <3>1 DEF KeysAt, Used
    <3>3. QED
      BY <2>4, <3>1, <3>2
  <2>6. ~reloaded => Range(q) \subseteq Here
    BY <1>8, <2>2, <2>4
  <2>7. QED
    BY <2>3, <2>4, <2>5, <2>6
<1>12. QED
  BY <1>3, <1>4, <1>6, <1>9, <1>10, <1>11 DEF SectionsListed, Here

\* Sections and keys are listed as they are looked up, whatever was done before.
THEOREM SectionsAreListed == Spec => []SectionsListed
<1>1. Spec => [](IInv /\ Fresh)
  BY IInvInit, IInvNext, FreshInit, FreshNext, PTL DEF Spec
<1>2. QED
  BY <1>1, SectionsFound, PTL

(***************************************************************************)
(* What is saved and loaded again.                                         *)
(***************************************************************************)
\* Two sequences, one after the other.
LEMMA PutAfter ==
  ASSUME NEW T, NEW a \in Seq(T), NEW b \in Seq(T), NEW c, c = a \o b
  PROVE  /\ Len(c) = Len(a) + Len(b) /\ Len(a) \in Nat /\ Len(b) \in Nat
         /\ \A p \in 1 .. Len(a) : c[p] = a[p]
         /\ \A j \in 1 .. Len(b) : c[Len(a) + j] = b[j]
<1>1. Len(c) = Len(a) + Len(b) /\ Len(a) \in Nat /\ Len(b) \in Nat
  OBVIOUS
<1>2. ASSUME NEW p \in 1 .. Len(a) PROVE c[p] = a[p]
  OBVIOUS
<1>3. ASSUME NEW j \in 1 .. Len(b) PROVE c[Len(a) + j] = b[j]
  OBVIOUS
<1>4. QED
  BY <1>1, <1>2, <1>3

\* The elements of the first sequences stay where they are.
LEMMA PrefixStays ==
  ASSUME NEW T, NEW s, Len(s) \in Nat, \A i \in 1 .. Len(s) : s[i] \in Seq(T),
         NEW g, PutTogether(s, g), NEW i \in 1 .. Len(s)
  PROVE  \A m \in i .. Len(s) : /\ Len(g[i]) <= Len(g[m])
                                /\ \A p \in 1 .. Len(g[i]) : g[m][p] = g[i][p]
<1> DEFINE W == {m \in i .. Len(s) : ~(/\ Len(g[i]) <= Len(g[m])
                                       /\ \A p \in 1 .. Len(g[i]) : g[m][p] = g[i][p])}
<1>1. SUFFICES ASSUME W # {} PROVE FALSE
  OBVIOUS
<1>2. PICK m \in W : \A x \in W : m <= x
  <2>1. W \subseteq Nat
    OBVIOUS
  <2>2. QED
    BY <1>1, <2>1, Least
<1>3. \A j \in 1 .. Len(s) : g[j] \in Seq(T)
  BY FlatTyped
<1>4. m # i /\ m \in i .. Len(s)
  <2>1. g[i] \in Seq(T)
    BY <1>3
  <2>2. Len(g[i]) \in Nat
    BY <2>1
  <2>3. QED
    BY <1>2, <2>2
<1>5. /\ m - 1 \in i .. Len(s) /\ m - 1 \in 1 .. Len(s) /\ m \in 1 .. Len(s) /\ m # 1
      /\ ~(m <= m - 1)
  BY <1>4
<1>6. Len(g[i]) <= Len(g[m - 1]) /\ \A p \in 1 .. Len(g[i]) : g[m - 1][p] = g[i][p]
  BY <1>2, <1>5
<1>7. PICK a, b, c : a = g[m - 1] /\ b = s[m] /\ c = g[m]
  OBVIOUS
<1>8. a \in Seq(T) /\ b \in Seq(T) /\ c = a \o b
  BY <1>3, <1>5, <1>7 DEF PutTogether
<1>9. /\ Len(c) = Len(a) + Len(b) /\ Len(a) \in Nat /\ Len(b) \in Nat
      /\ \A p \in 1 .. Len(a) : c[p] = a[p]
  BY <1>8, PutAfter
<1>10. Len(g[i]) \in Nat
  BY <1>3
<1>11. Len(g[i]) <= Len(c) /\ \A p \in 1 .. Len(g[i]) : c[p] = g[i][p]
  <2>1. PICK l \in Nat : l = Len(g[i])
    BY <1>10
  <2>2. l <= Len(a) /\ \A p \in 1 .. l : a[p] = g[i][p]
    BY <1>6, <1>7, <2>1, Zenon
  <2>3. l <= Len(c) /\ \A p \in 1 .. l : p \in 1 .. Len(a)
    BY <1>9, <2>2
  <2>4. QED
    BY <1>9, <2>1, <2>2, <2>3, Zenon
<1>12. QED
  BY <1>2, <1>7, <1>11

\* E[i] is where the i-th of the sequences ends, put one after the other.
Places(s, F, E) ==
  /\ E \in [0 .. Len(s) -> Nat] /\ E[0] = 0 /\ E[Len(s)] = Len(F)
  /\ \A i \in 1 .. Len(s) :
       /\ E[i] = E[i - 1] + Len(s[i]) /\ E[i] <= Len(F)
       /\ \A j \in 1 .. Len(s[i]) : F[E[i - 1] + j] = s[i][j]
  /\ \A p \in 1 .. Len(F) : \E i \in 1 .. Len(s) : p \in E[i - 1] + 1 .. E[i]

\* Each element of a sequence has its place where they are put together.
LEMMA FlattenPlaces ==
  ASSUME NEW T, NEW s, Len(s) \in Nat, Len(s) # 0, \A i \in 1 .. Len(s) : s[i] \in Seq(T)
  PROVE  FlattenSeq(s) \in Seq(T) /\ \E E : Places(s, FlattenSeq(s), E)
<1>1. PICK n \in Nat : n = Len(s) /\ n # 0
  OBVIOUS
<1>2. PICK g, F : g = Flat(s) /\ F = FlattenSeq(s)
  OBVIOUS
<1>3. PutTogether(s, g) /\ F = g[n]
  BY <1>1, <1>2, FlatUnfolds, FlattenIsFlat
<1>4. \A i \in 1 .. n : g[i] \in Seq(T) /\ Len(g[i]) \in Nat /\ s[i] \in Seq(T) /\ Len(s[i]) \in Nat
  <2>1. \A i \in 1 .. n : g[i] \in Seq(T)
    BY <1>1, <1>3, FlatTyped
  <2>2. QED
    BY <1>1, <2>1
<1>5. PICK E : E = [i \in 0 .. n |-> IF i = 0 THEN 0 ELSE Len(g[i])]
  OBVIOUS
<1>6. E \in [0 .. n -> Nat] /\ E[0] = 0 /\ \A i \in 1 .. n : E[i] = Len(g[i])
  <2>1. \A i \in 1 .. n : i \in 0 .. n /\ i # 0
    OBVIOUS
  <2>2. ASSUME NEW i \in 0 .. n PROVE (IF i = 0 THEN 0 ELSE Len(g[i])) \in Nat
    <3>1. i # 0 => i \in 1 .. n
      OBVIOUS
    <3>2. QED
      BY <1>4, <3>1
  <2>3. E \in [0 .. n -> Nat]
    BY <1>5, <2>2
  <2>4. 0 \in 0 .. n
    OBVIOUS
  <2>5. QED
    BY <1>5, <2>1, <2>3, <2>4
<1>7. ASSUME NEW i \in 1 .. n
      PROVE  /\ E[i] = E[i - 1] + Len(s[i]) /\ E[i] <= Len(F)
             /\ \A j \in 1 .. Len(s[i]) : F[E[i - 1] + j] = s[i][j]
  <2>1. Len(g[i]) <= Len(F) /\ \A p \in 1 .. Len(g[i]) : F[p] = g[i][p]
    <3>1. n \in i .. Len(s) /\ i \in 1 .. Len(s)
      BY <1>1
    <3>2. QED
      BY <1>3, <3>1, PrefixStays
  <2>2. PICK b, c : b = s[i] /\ c = g[i] /\ b \in Seq(T) /\ c \in Seq(T)
    BY <1>4
  <2>3. PICK e \in Nat : e = E[i - 1]
    <3>1. i - 1 \in 0 .. n
      OBVIOUS
    <3>2. QED
      BY <1>6, <3>1
  <2>4. Len(c) = e + Len(b) /\ \A j \in 1 .. Len(b) : c[e + j] = b[j]
    <3>1. CASE i = 1
      <4>1. c = b
        BY <1>1, <1>3, <2>2, <3>1 DEF PutTogether
      <4>2. e = 0
        BY <1>6, <2>3, <3>1
      <4>3. QED
        BY <2>2, <4>1, <4>2
    <3>2. CASE i # 1
      <4>1. i - 1 \in 1 .. n
        BY <3>2
      <4>2. PICK a \in Seq(T) : a = g[i - 1] /\ Len(a) = e
        BY <1>4, <1>6, <2>3, <4>1
      <4>3. c = a \o b
        BY <1>1, <1>3, <2>2, <3>2, <4>2 DEF PutTogether
      <4>4. Len(c) = Len(a) + Len(b) /\ \A j \in 1 .. Len(b) : c[Len(a) + j] = b[j]
        BY <2>2, <4>3, PutAfter
      <4>5. QED
        BY <4>2, <4>4
    <3>3. QED
      BY <3>1, <3>2
  <2>5. ASSUME NEW j \in 1 .. Len(b) PROVE F[e + j] = b[j]
    <3>1. e + j \in 1 .. Len(c)
      BY <2>2, <2>4
    <3>2. QED
      BY <2>1, <2>2, <2>4, <3>1
  <2>6. QED
    BY <1>6, <2>1, <2>2, <2>3, <2>4, <2>5
<1>8. ASSUME NEW p \in 1 .. Len(F) PROVE \E i \in 1 .. n : p \in E[i - 1] + 1 .. E[i]
  <2> DEFINE W == {i \in 1 .. n : p <= E[i]}
  <2>1. n \in W /\ W \subseteq Nat
    BY <1>1, <1>3, <1>6
  <2>2. PICK i \in W : \A x \in W : i <= x
    BY <2>1, Least
  <2>3. i - 1 \in 0 .. n /\ i \in 1 .. n /\ ~(i <= i - 1)
    BY <2>2
  <2>4. E[i - 1] \in Nat /\ E[i] \in Nat
    BY <1>6, <2>3
  <2>5. E[i - 1] < p
    <3>1. CASE i = 1
      BY <1>6, <3>1
    <3>2. CASE i # 1
      <4>1. i - 1 \in 1 .. n /\ i - 1 \notin W
        BY <2>2, <2>3, <3>2
      <4>2. QED
        BY <2>4, <4>1
    <3>3. QED
      BY <3>1, <3>2
  <2>6. QED
    BY <2>2, <2>3, <2>4, <2>5
<1>9. Places(s, F, E)
  <2>1. E[n] = Len(F)
    BY <1>1, <1>3, <1>6
  <2>2. QED
    BY <1>1, <1>6, <1>7, <1>8, <2>1 DEF Places
<1>10. F \in Seq(T)
  BY <1>1, <1>3, <1>4
<1>11. QED
  BY <1>2, <1>9, <1>10

(***************************************************************************)
(* A file in which no line is continued, each sets something or is blank,  *)
(* and each value is read as it is written.                                *)
(***************************************************************************)
PlainFile(F) ==
  /\ Len(F) \in Nat
  /\ \A p \in 1 .. Len(F) :
       /\ ~F[p].more /\ F[p].kind \in Setting \cup {"skip"}
       /\ F[p].value \in Seq(Words) /\ Parsed(F[p].value) = F[p].value

\* Each line of such a file that is not blank sets something,
LEMMA PlainLines ==
  ASSUME NEW F, PlainFile(F)
  PROVE  Assigning(F) = {p \in 1 .. Len(F) : F[p].kind \in Setting}
<1>1. ASSUME NEW p \in 1 .. Len(F) PROVE p \in Starts(F) /\ p \in p .. Len(F)
  <2>1. p = 1 \/ p - 1 \in 1 .. Len(F)
    BY DEF PlainFile
  <2>2. QED
    BY <2>1 DEF PlainFile, Starts
<1>2. ASSUME NEW p \in 1 .. Len(F), F[p].kind \in Setting PROVE p \in Assigning(F)
  BY <1>1, <1>2 DEF PlainFile, Assigning, Setting
<1>3. ASSUME NEW p \in Assigning(F) PROVE p \in 1 .. Len(F) /\ F[p].kind \in Setting
  BY AssigningInFile DEF PlainFile, Assigning, Setting
<1>4. QED
  BY <1>2, <1>3

\* and the value on it is all of its value.
LEMMA PlainSets ==
  ASSUME NEW F, PlainFile(F), NEW p \in 1 .. Len(F)
  PROVE  ValueAt(F, p) = IF F[p].kind = "section" THEN NULL ELSE F[p].value
<1>1. EndsAt(F, p) = p
  <2> DEFINE G == {j \in p .. Len(F) : ~F[j].more}
  <2>1. p \in G /\ \A y \in G : y \in Nat /\ p <= y
    BY DEF PlainFile
  <2>2. Min(G) = p
    BY <2>1, LeastIs
  <2>3. QED
    BY <2>2 DEF EndsAt
<1>2. Spelled(F, p, p) = F[p].value
  <2>1. [j \in 1 .. p - p |-> F[p + j].text] = <<>>
    OBVIOUS
  <2>2. FlattenSeq([j \in 1 .. p - p |-> F[p + j].text]) = <<>>
    BY <2>1, FlattenNone, Zenon
  <2>3. F[p].value \in Seq(Words)
    BY DEF PlainFile
  <2>4. F[p].value \o <<>> = F[p].value
    BY <2>3, ConcatEmptySeq
  <2>5. QED
    BY <2>2, <2>4 DEF Spelled
<1>3. Parsed(F[p].value) = F[p].value
  BY DEF PlainFile
<1>4. QED
  BY <1>1, <1>2, <1>3, ValueAtIs

\* The section of the lines that follow its line.
LEMMA PlainSection ==
  ASSUME NEW F, PlainFile(F), NEW b \in 1 .. Len(F), NEW p \in b .. Len(F),
         F[b].kind = "section", F[b].name # NULL,
         \A q \in b + 1 .. p : F[q].kind # "section"
  PROVE  SectionAt(F, p) = F[b].name
<1>1. Len(F) \in Nat /\ Assigning(F) = {q \in 1 .. Len(F) : F[q].kind \in Setting}
  BY PlainLines DEF PlainFile
<1>2. b \in Naming(F, p)
  BY <1>1 DEF Naming, Setting
<1>3. ASSUME NEW y \in Naming(F, p) PROVE y \in Nat /\ y <= b
  <2>1. y \in 1 .. Len(F) /\ y <= p /\ F[y].kind = "section"
    BY <1>1 DEF Naming
  <2>2. y \notin b + 1 .. p
    BY <2>1
  <2>3. QED
    BY <1>1, <2>1, <2>2
<1>4. Max(Naming(F, p)) = b
  BY <1>2, <1>3, LastOfAll
<1>5. QED
  BY <1>2, <1>4, SectionAtIs

\* A file whose lines for a key all give it the same value.
LEMMA MeaningOf ==
  ASSUME NEW F, Len(F) \in Nat, NEW k \in Keys, NEW v,
         \A p \in Assigning(F) : KeyAt(F, p) = k => ValueAt(F, p) = v
  PROVE  Meaning(F)[k] = IF \E p \in Assigning(F) : KeyAt(F, p) = k THEN v ELSE MISSING
<1>1. Sets(F, k) \subseteq Assigning(F) /\ Assigning(F) \subseteq 1 .. Len(F)
  BY AssigningInFile DEF Sets
<1>2. CASE Sets(F, k) = {}
  BY <1>2, MeaningIs DEF Sets
<1>3. CASE Sets(F, k) # {}
  <2>1. Max(Sets(F, k)) \in Sets(F, k)
    BY <1>1, <1>3, GreatestOne
  <2>2. QED
    BY <1>3, <2>1, MeaningIs DEF Sets
<1>4. QED
  BY <1>2, <1>3

(***************************************************************************)
(* The lines that are saved.                                               *)
(***************************************************************************)
\* The value a key comes back with.
Back(k) ==
  IF Len(k) = 2 /\ iniparser_getstring(k, MISSING) = NULL
  THEN <<>> ELSE iniparser_getstring(k, MISSING)

SavedLine ==
  [kind : Setting \cup {"skip"}, name : {k[1] : k \in Keys} \cup {k[2] : k \in Keys} \cup {NULL},
   value : {v \in Seq(Words) : Parsed(v) = v}, text : Seq(Words), more : {FALSE}]

\* A plain value is read as it is written.
LEMMA PlainIsRead ==
  ASSUME NEW v \in Values, PlainValue(v),
         NEW w, w = IF v = NULL THEN <<>> ELSE v
  PROVE  w \in Seq(Words) /\ Parsed(w) = w /\ EndsOpen(w) = FALSE
<1>1. /\ w \in Seq(Words) /\ \A i \in 1 .. Len(w) : w[i] \notin Marks
      /\ w # <<>> => w[1] \notin Quotes /\ Last(w) # BACKSLASH
  <2>1. CASE v = NULL
    <3>1. w = <<>> /\ Len(<<>>) = 0
      BY <2>1
    <3>2. <<>> \in Seq(Words) /\ 1 .. 0 = {}
      OBVIOUS
    <3>3. QED
      BY <3>1, <3>2
  <2>2. CASE v # NULL
    BY <2>2 DEF PlainValue, Values
  <2>3. QED
    BY <2>1, <2>2
<1>2. ~Quoted(w)
  <2>1. Len(w) > 1 => w # <<>>
    BY <1>1
  <2>2. QED
    BY <1>1, <2>1 DEF Quoted
<1>3. UpTo(w, Marks) = w
  <2>1. {i \in 1 .. Len(w) : w[i] \in Marks} = {}
    BY <1>1
  <2>2. UpTo(w, Marks) = SubSeq(w, 1, Len(w))
    BY <2>1 DEF UpTo
  <2>3. QED
    BY <1>1, <2>2, SubSeqFull
<1>4. Parsed(w) = w
  BY <1>1, <1>2, <1>3 DEF Parsed
<1>5. QED
  BY <1>1, <1>4 DEF EndsOpen

\* A blank line is such a line, and so is that of a section.
LEMMA BlankSaved ==
  /\ Blank \in SavedLine /\ Blank.kind = "skip"
  /\ \A k \in Keys : /\ SectionLine(k[1]) \in SavedLine
                     /\ SectionLine(k[1]).kind = "section" /\ SectionLine(k[1]).name = k[1]
<1>1. NULL \in Values /\ PlainValue(NULL)
  BY DEF Values, PlainValue
<1>2. PICK w : w = IF NULL = NULL THEN <<>> ELSE NULL
  OBVIOUS
<1>3. w \in Seq(Words) /\ Parsed(w) = w /\ w = <<>>
  BY <1>1, <1>2, PlainIsRead
<1>4. Blank = [kind |-> "skip", name |-> NULL, value |-> w, text |-> w, more |-> FALSE]
  BY <1>3 DEF Blank
<1>5. \A x : SectionLine(x) =
               [kind |-> "section", name |-> x, value |-> w, text |-> w, more |-> FALSE]
  <2>1. PICK r : r = Blank
    OBVIOUS
  <2>2. \A x : SectionLine(x) = [r EXCEPT !.kind = "section", !.name = x]
    BY <2>1 DEF SectionLine
  <2>3. QED
    BY <1>4, <2>1, <2>2
<1>6. QED
  BY <1>3, <1>4, <1>5 DEF SavedLine, Setting

\* A key is a section, or a section and a name.
LEMMA KeyShape ==
  ASSUME NEW k \in Keys
  PROVE  /\ k # NULL /\ k[1] # NULL /\ Len(k) \in {1, 2}
         /\ Len(k) = 1 => k = <<k[1]>>
         /\ Len(k) = 2 => k = <<k[1], k[2]>>
<1>1. k # NULL /\ k[1] # NULL
  BY KeysAssumption, DictionaryAssumption
<1>2. PICK a, b : a = k[1] /\ b = k[2]
  OBVIOUS
<1>3. k = <<a>> \/ k = <<a, b>>
  BY <1>2, KeysAssumption
<1>4. Len(<<a>>) = 1 /\ Len(<<a, b>>) = 2
  OBVIOUS
<1>5. QED
  BY <1>1, <1>2, <1>3, <1>4

\* A slot that is in use is what the lookup of its key finds.
LEMMA ValueOf ==
  ASSUME Sound(dict), Hashed(dict), NEW i \in Used(dict)
  PROVE  /\ dict.key[i] \in Here
         /\ iniparser_getstring(dict.key[i], MISSING) = dict.val[i]
         /\ dict.val[i] \in Values
<1>1. dict.key[i] \in Keys /\ Matches(dict, dict.key[i]) = {i}
  BY FoundOnce
<1>2. PICK k \in Keys : k = dict.key[i]
  BY <1>1
<1>3. View(dict, MISSING)[k] = dict.val[i]
  BY <1>1, <1>2, Lookup
<1>4. iniparser_getstring(k, MISSING) = View(dict, MISSING)[k]
  BY DEF iniparser_getstring, View
<1>5. k \in Here
  BY <1>1, <1>2, HereIs
<1>6. dict.val[i] \in Values
  BY DEF Sound, Shape, Used
<1>7. QED
  BY <1>2, <1>3, <1>4, <1>5, <1>6

\* The lines of one section: its own, and one for each of its keys, between blank ones.
DumpedAs(s, b) ==
  /\ b \in Seq(SavedLine) /\ Len(b) >= 2
  /\ b[1].kind = "skip" /\ b[2].kind = "section" /\ b[2].name = s[1]
  /\ \A m \in 3 .. Len(b) :
       \/ b[m].kind = "skip"
       \/ /\ b[m].kind = "value"
          /\ \E k \in Here : Len(k) = 2 /\ k[1] = s[1] /\ k[2] = b[m].name /\ b[m].value = Back(k)
  /\ \A k \in Here : Len(k) = 2 /\ k[1] = s[1] =>
       \E m \in 3 .. Len(b) : b[m].kind = "value" /\ b[m].name = k[2]

AllPlain == \A k \in Here : PlainValue(iniparser_getstring(k, MISSING))

\* iniparser_dumpsection_ini writes these lines.
LEMMA DumpSection ==
  ASSUME Sound(dict), Hashed(dict), AllPlain, NEW s \in Here
  PROVE  DumpedAs(s, iniparser_dumpsection_ini(s))
<1>1. PICK S, c, o : S = KeysAt(s) /\ c = Cardinality(S) /\ o = InOrder(S)
  OBVIOUS
<1>2. S \subseteq Used(dict) /\ \A i \in S : Len(dict.key[i]) = 2 /\ dict.key[i][1] = s[1]
  BY <1>1 DEF KeysAt, Used
<1>3. /\ c \in Nat /\ o \in [1 .. c -> S] /\ Len(o) = c
      /\ \A i \in S : \E n \in 1 .. c : o[n] = i
  <2>1. IsFiniteSet(Used(dict)) /\ Used(dict) \subseteq Nat
    BY UsedNumbers
  <2>2. S \subseteq Nat /\ IsFiniteSet(S)
    BY <1>2, <2>1, FS_Subset
  <2>3. QED
    BY <1>1, <2>2, Listed
<1>4. PICK head, rest, end, b :
        /\ head = <<Blank, SectionLine(s[1])>>
        /\ rest = [j \in 1 .. c |->
                     ValueLine(dict.key[o[j]][2],
                               IF dict.val[o[j]] = NULL THEN <<>> ELSE dict.val[o[j]])]
        /\ end = <<Blank>>
        /\ b = iniparser_dumpsection_ini(s)
  OBVIOUS
<1>5. b = head \o rest \o end
  <2>1. iniparser_find_entry(s) /\ KeySlots(s) = o
    BY <1>1 DEF Here, KeySlots, KeysAt
  <2>2. QED
    BY <1>3, <1>4, <2>1 DEF iniparser_dumpsection_ini
<1>6. /\ head \in Seq(SavedLine) /\ Len(head) = 2 /\ head[1].kind = "skip"
      /\ head[2].kind = "section" /\ head[2].name = s[1]
      /\ end \in Seq(SavedLine) /\ Len(end) = 1 /\ end[1].kind = "skip"
  <2>1. s \in Keys
    BY DEF Here
  <2>2. PICK x, y : /\ x = Blank /\ y = SectionLine(s[1]) /\ x \in SavedLine /\ y \in SavedLine
                    /\ x.kind = "skip" /\ y.kind = "section" /\ y.name = s[1]
    BY <2>1, BlankSaved
  <2>3. head = <<x, y>> /\ end = <<x>>
    BY <1>4, <2>2
  <2>4. QED
    BY <2>2, <2>3
<1>7. ASSUME NEW j \in 1 .. c
      PROVE  /\ rest[j] \in SavedLine /\ rest[j].kind = "value"
             /\ rest[j].name = dict.key[o[j]][2]
             /\ \E k \in Here : Len(k) = 2 /\ k[1] = s[1] /\ k[2] = rest[j].name
                                /\ rest[j].value = Back(k)
  <2>1. PICK i \in Used(dict) : i = o[j] /\ Len(dict.key[i]) = 2 /\ dict.key[i][1] = s[1]
    BY <1>2, <1>3
  <2>2. PICK k, v : k = dict.key[i] /\ v = dict.val[i]
    OBVIOUS
  <2>3. k \in Here /\ iniparser_getstring(k, MISSING) = v /\ v \in Values
    BY <2>2, ValueOf
  <2>4. PICK w : w = IF v = NULL THEN <<>> ELSE v
    OBVIOUS
  <2>5. w \in Seq(Words) /\ Parsed(w) = w /\ EndsOpen(w) = FALSE
    BY <2>3, <2>4, PlainIsRead DEF AllPlain
  <2>6. w = Back(k)
    BY <2>1, <2>2, <2>3, <2>4 DEF Back
  <2>7. rest[j] = ValueLine(k[2], w)
    BY <1>4, <2>1, <2>2, <2>4
  <2>8. rest[j] = [kind |-> "value", name |-> k[2], value |-> w,
                   text |-> <<NameWord>> \o w, more |-> FALSE]
    BY <2>5, <2>7 DEF ValueLine
  <2>9. <<NameWord>> \o w \in Seq(Words)
    <3>1. <<NameWord>> \in Seq(Words)
      BY IniParserAssumption
    <3>2. QED
      BY <2>5, <3>1, ConcatProperties
  <2>10. k \in Keys
    BY <2>3 DEF Here
  <2>11. rest[j] \in SavedLine
    BY <2>5, <2>8, <2>9, <2>10 DEF SavedLine, Setting
  <2>12. QED
    BY <2>1, <2>2, <2>3, <2>6, <2>8, <2>11
<1>8. rest \in Seq(SavedLine) /\ Len(rest) = c
  BY <1>3, <1>4, <1>7
<1>9. /\ Len(b) = c + 3 /\ b \in Seq(SavedLine) /\ b[1] = head[1] /\ b[2] = head[2]
      /\ \A j \in 1 .. c : b[2 + j] = rest[j]
      /\ b[c + 3] = end[1]
  <2>1. PICK a : a = head \o rest
    OBVIOUS
  <2>2. /\ Len(a) = Len(head) + Len(rest) /\ \A p \in 1 .. Len(head) : a[p] = head[p]
        /\ \A j \in 1 .. Len(rest) : a[Len(head) + j] = rest[j]
    <3>1. head \in Seq(SavedLine) /\ rest \in Seq(SavedLine) /\ a = head \o rest
      BY <1>6, <1>8, <2>1
    <3>2. QED
      BY <3>1, PutAfter
  <2>3. /\ Len(a) = 2 + c /\ a[1] = head[1] /\ a[2] = head[2]
        /\ \A j \in 1 .. c : a[2 + j] = rest[j]
    <3>1. 1 \in 1 .. Len(head) /\ 2 \in 1 .. Len(head) /\ Len(a) = 2 + c
      BY <1>3, <1>6, <1>8, <2>2
    <3>2. \A j \in 1 .. c : a[2 + j] = rest[j]
      BY <1>6, <1>8, <2>2, Zenon
    <3>3. QED
      BY <2>2, <3>1, <3>2, Zenon
  <2>4. a \in Seq(SavedLine) /\ b \in Seq(SavedLine) /\ b = a \o end
    BY <1>5, <1>6, <1>8, <2>1, ConcatProperties
  <2>5. /\ Len(b) = Len(a) + Len(end) /\ \A p \in 1 .. Len(a) : b[p] = a[p]
        /\ \A j \in 1 .. Len(end) : b[Len(a) + j] = end[j]
    <3>1. a \in Seq(SavedLine) /\ end \in Seq(SavedLine) /\ b = a \o end
      BY <1>6, <2>4
    <3>2. QED
      BY <3>1, PutAfter
  <2>6. \A p \in 1 .. 2 + c : b[p] = a[p]
    BY <2>3, <2>5
  <2>7. 1 \in 1 .. 2 + c /\ 2 \in 1 .. 2 + c /\ \A j \in 1 .. c : 2 + j \in 1 .. 2 + c
    BY <1>3
  <2>8. b[(2 + c) + 1] = end[1]
    BY <1>3, <1>6, <2>3, <2>5
  <2>9. (2 + c) + 1 = c + 3
    BY <1>3
  <2>10. Len(b) = c + 3 /\ b[c + 3] = end[1]
    BY <1>3, <1>6, <2>3, <2>5, <2>8, <2>9
  <2>11. QED
    BY <2>3, <2>4, <2>6, <2>7, <2>10, Zenon
<1>10. ASSUME NEW m \in 3 .. Len(b)
       PROVE  \/ b[m].kind = "skip"
              \/ /\ b[m].kind = "value"
                 /\ \E k \in Here : Len(k) = 2 /\ k[1] = s[1] /\ k[2] = b[m].name
                                    /\ b[m].value = Back(k)
  <2>1. CASE m = c + 3
    BY <1>6, <1>9, <2>1
  <2>2. CASE m # c + 3
    <3>1. m - 2 \in 1 .. c /\ 2 + (m - 2) = m
      BY <1>3, <1>9, <2>2
    <3>2. b[m] = rest[m - 2]
      BY <1>9, <3>1
    <3>3. QED
      BY <1>7, <3>1, <3>2
  <2>3. QED
    BY <2>1, <2>2
<1>11. ASSUME NEW k \in Here, Len(k) = 2, k[1] = s[1]
       PROVE  \E m \in 3 .. Len(b) : b[m].kind = "value" /\ b[m].name = k[2]
  <2>1. k \in Keys
    BY DEF Here
  <2>2. PICK i : i \in Matches(dict, k)
    BY <2>1, HereIs
  <2>3. i \in Used(dict) /\ dict.key[i] = k
    BY <2>1, <2>2, MatchIsUsed DEF Sound
  <2>4. i \in S
    BY <1>1, <1>11, <2>3 DEF KeysAt, Used
  <2>5. PICK j \in 1 .. c : o[j] = i
    BY <1>3, <2>4
  <2>6. b[2 + j].kind = "value" /\ b[2 + j].name = k[2]
    BY <1>7, <1>9, <2>3, <2>5
  <2>7. 2 + j \in 3 .. Len(b)
    BY <1>3, <1>9
  <2>8. QED
    BY <2>6, <2>7
<1>12. Len(b) >= 2
  BY <1>3, <1>9
<1>13. DumpedAs(s, b)
  BY <1>6, <1>9, <1>10, <1>11, <1>12 DEF DumpedAs
<1>14. QED
  BY <1>4, <1>13

\* What the lines of the i-th section say, in the file they are put in.
LEMMA BlockSays ==
  ASSUME NEW F, PlainFile(F), NEW s, Len(s) \in Nat, NEW E, Places(s, F, E),
         NEW i \in 1 .. Len(s), NEW x, DumpedAs(x, s[i]), x[1] # NULL,
         NEW m \in 1 .. Len(s[i])
  PROVE  LET p == E[i - 1] + m
         IN  /\ p \in 1 .. Len(F) /\ F[p].kind = s[i][m].kind
             /\ m = 1 => F[p].kind = "skip"
             /\ m = 2 => F[p].kind = "section" /\ KeyAt(F, p) = <<x[1]>>
                         /\ ValueAt(F, p) = NULL
             /\ m > 2 /\ F[p].kind = "value" =>
                  KeyAt(F, p) = <<x[1], s[i][m].name>> /\ ValueAt(F, p) = s[i][m].value
<1>1. PICK b, l : b = s[i] /\ l = Len(b)
  OBVIOUS
<1>2. /\ b[1].kind = "skip" /\ b[2].kind = "section" /\ b[2].name = x[1] /\ l \in Nat /\ l >= 2
      /\ \A j \in 3 .. l : b[j].kind # "section"
  BY <1>1 DEF DumpedAs
<1>3. PICK e \in Nat : e = E[i - 1]
  <2>1. i - 1 \in 0 .. Len(s)
    OBVIOUS
  <2>2. QED
    BY <2>1 DEF Places
<1>4. Len(F) \in Nat /\ e + l <= Len(F) /\ \A j \in 1 .. l : F[e + j] = b[j]
  BY <1>1, <1>3 DEF Places, PlainFile
<1>5. PICK p : p = e + m
  OBVIOUS
<1>6. m \in 1 .. l /\ p \in 1 .. Len(F) /\ F[p] = b[m]
  <2>1. m \in 1 .. l
    BY <1>1
  <2>2. PICK n \in Nat : n = Len(F) /\ e + l <= n
    BY <1>4
  <2>3. p \in 1 .. n
    BY <1>2, <1>5, <2>1, <2>2
  <2>4. F[p] = b[m]
    BY <1>4, <1>5, <2>1, Zenon
  <2>5. QED
    BY <2>1, <2>2, <2>3, <2>4
<1>7. m >= 2 => SectionAt(F, p) = x[1]
  <2>1. SUFFICES ASSUME m >= 2 PROVE SectionAt(F, p) = x[1]
    OBVIOUS
  <2>2. PICK q : q = e + 2
    OBVIOUS
  <2>3. q \in 1 .. Len(F) /\ p \in q .. Len(F)
    BY <1>2, <1>4, <1>5, <1>6, <2>1, <2>2
  <2>4. F[q] = b[2]
    <3>1. 2 \in 1 .. l
      BY <1>2
    <3>2. QED
      BY <1>4, <2>2, <3>1, Zenon
  <2>5. ASSUME NEW r \in q + 1 .. p PROVE F[r].kind # "section"
    <3>1. r - e \in 3 .. l /\ r - e \in 1 .. l /\ e + (r - e) = r
      BY <1>2, <1>5, <1>6, <2>2
    <3>2. F[r] = b[r - e]
      BY <1>4, <3>1
    <3>3. QED
      BY <1>2, <3>1, <3>2
  <2>6. F[q].kind = "section" /\ F[q].name = x[1] /\ F[q].name # NULL
    BY <1>2, <2>4
  <2>7. SectionAt(F, p) = F[q].name
    BY <2>3, <2>5, <2>6, PlainSection
  <2>8. QED
    BY <2>6, <2>7
<1>8. m = 2 => /\ F[p].kind = "section" /\ KeyAt(F, p) = <<x[1]>> /\ ValueAt(F, p) = NULL
  BY <1>2, <1>6, <1>7, PlainSets DEF KeyAt
<1>9. m > 2 /\ F[p].kind = "value" =>
        KeyAt(F, p) = <<x[1], b[m].name>> /\ ValueAt(F, p) = b[m].value
  BY <1>6, <1>7, PlainSets DEF KeyAt
<1>10. QED
  BY <1>1, <1>2, <1>3, <1>5, <1>6, <1>8, <1>9

\* The lines of one more part are put at the end of those before.
LEMMA FileOneMore ==
  ASSUME NEW m \in Nat, NEW a, NEW b, Len(a) = m, m = 0 => a = <<>>, Len(b) = m + 1,
         b[m + 1] \in Seq(SavedLine), \A i \in 1 .. m : b[i] = a[i]
  PROVE  FlattenSeq(b) = FlattenSeq(a) \o b[m + 1]
BY FlattenOneMore

\* What iniparser_dump_ini writes says no more and no less than the lookups.
LEMMA DumpSays ==
  ASSUME Sound(dict), Hashed(dict), AllPlain, iniparser_getnsec >= 1,
         \A k \in Here : <<k[1]>> \in Here /\ iniparser_getstring(<<k[1]>>, MISSING) = NULL
  PROVE  /\ Len(iniparser_dump_ini) \in Nat
         /\ \A p \in Assigning(iniparser_dump_ini) :
              \E k \in Here : /\ KeyAt(iniparser_dump_ini, p) = k
                              /\ ValueAt(iniparser_dump_ini, p) = Back(k)
         /\ \A k \in Here : \E p \in Assigning(iniparser_dump_ini) :
              KeyAt(iniparser_dump_ini, p) = k
<1>1. PICK o, n : o = InOrder(SectionsAt) /\ n = Cardinality(SectionsAt)
  OBVIOUS
<1>2. /\ n \in Nat /\ o \in [1 .. n -> SectionsAt] /\ Len(o) = n
      /\ \A i \in SectionsAt : \E j \in 1 .. n : o[j] = i
  <2>1. IsFiniteSet(Used(dict)) /\ Used(dict) \subseteq Nat
    BY UsedNumbers
  <2>2. SectionsAt \subseteq Used(dict)
    BY DEF SectionsAt, IsSection, Used
  <2>3. SectionsAt \subseteq Nat /\ IsFiniteSet(SectionsAt)
    BY <2>1, <2>2, FS_Subset
  <2>4. QED
    BY <1>1, <2>3, Listed
<1>3. SectionSlots = o /\ iniparser_getnsec = n
  BY <1>1, <1>2 DEF SectionSlots, SectionsAt, iniparser_getnsec
<1>4. PICK name : name = [j \in 1 .. n |-> dict.key[o[j]]]
  OBVIOUS
<1>5. \A j \in 1 .. n : iniparser_getsecname(j - 1) = name[j]
  <2>1. \A j \in 1 .. n : (j - 1) + 1 = j
    BY <1>2
  <2>2. QED
    BY <1>3, <1>4, <2>1 DEF iniparser_getsecname
<1>6. ASSUME NEW j \in 1 .. n
      PROVE  /\ name[j] \in Here /\ name[j] = <<name[j][1]>>
             /\ name[j][1] # NULL /\ Len(name[j]) = 1
  <2>1. PICK i : i = o[j] /\ i \in SectionsAt
    BY <1>2
  <2>2. PICK k : k = dict.key[i]
    OBVIOUS
  <2>3. i \in Used(dict) /\ Len(k) = 1
    BY <2>1, <2>2 DEF SectionsAt, IsSection, Used
  <2>4. k \in Here
    BY <2>2, <2>3, ValueOf
  <2>5. k \in Keys
    BY <2>4 DEF Here
  <2>6. k = <<k[1]>> /\ k[1] # NULL
    BY <2>3, <2>5, KeyShape
  <2>7. name[j] = k
    BY <1>4, <2>1, <2>2
  <2>8. QED
    BY <2>3, <2>4, <2>6, <2>7, Zenon
<1>7. PICK s : s = [j \in 1 .. n |-> iniparser_dumpsection_ini(name[j])]
  OBVIOUS
<1>8. Len(s) = n /\ \A j \in 1 .. n : DumpedAs(name[j], s[j]) /\ s[j] \in Seq(SavedLine)
  <2>1. \A j \in 1 .. n : DumpedAs(name[j], s[j])
    BY <1>6, <1>7, DumpSection
  <2>2. QED
    BY <1>2, <1>7, <2>1 DEF DumpedAs
<1>9. PICK F, t : /\ F = iniparser_dump_ini
                  /\ t = [j \in 1 .. n + 1 |-> IF j = n + 1 THEN <<Blank>> ELSE s[j]]
  OBVIOUS
<1>10. F = FlattenSeq(s) \o <<Blank>>
  <2>1. ~(n < 1)
    BY <1>2, <1>3
  <2>2. s = [j \in 1 .. iniparser_getnsec |->
               iniparser_dumpsection_ini(iniparser_getsecname(j - 1))]
    BY <1>3, <1>5, <1>7
  <2>3. QED
    BY <1>3, <1>9, <2>1, <2>2, Zenon DEF iniparser_dump_ini
<1>11. /\ Len(t) = n + 1 /\ t[n + 1] = <<Blank>> /\ t[n + 1] \in Seq(SavedLine)
       /\ \A j \in 1 .. n : t[j] = s[j] /\ j \in 1 .. n + 1
  <2>1. Len(t) = n + 1 /\ t[n + 1] = <<Blank>> /\ \A j \in 1 .. n : t[j] = s[j] /\ j \in 1 .. n + 1
    BY <1>2, <1>9
  <2>2. <<Blank>> \in Seq(SavedLine)
    BY BlankSaved
  <2>3. QED
    BY <2>1, <2>2
<1>12. PICK E : F \in Seq(SavedLine) /\ Places(t, F, E)
  <2>1. FlattenSeq(t) = FlattenSeq(s) \o t[n + 1]
    <3>1. n # 0
      BY <1>2, <1>3
    <3>2. /\ n \in Nat /\ Len(s) = n /\ Len(t) = n + 1 /\ (n = 0 => s = <<>>)
          /\ \A i \in 1 .. n : t[i] = s[i]
          /\ t[n + 1] \in Seq(SavedLine)
      BY <1>2, <1>8, <1>11, <3>1
    <3>3. QED
      BY <3>2, FileOneMore
  <2>2. F = FlattenSeq(t)
    BY <1>10, <1>11, <2>1
  <2>3. \A j \in 1 .. Len(t) : t[j] \in Seq(SavedLine)
    <3>1. \A j \in 1 .. n + 1 : j = n + 1 \/ j \in 1 .. n
      BY <1>2
    <3>2. QED
      BY <1>8, <1>11, <3>1
  <2>4. Len(t) \in Nat /\ Len(t) # 0
    BY <1>2, <1>11
  <2>5. QED
    BY <2>2, <2>3, <2>4, FlattenPlaces
<1>13. PlainFile(F)
  <2>1. \A p \in 1 .. Len(F) : F[p] \in SavedLine
    BY <1>12
  <2>2. Len(F) \in Nat
    BY <1>12
  <2>3. \A l \in SavedLine : /\ ~l.more /\ l.kind \in Setting \cup {"skip"}
                             /\ l.value \in Seq(Words) /\ Parsed(l.value) = l.value
    BY DEF SavedLine
  <2>4. QED
    BY <2>1, <2>2, <2>3 DEF PlainFile
<1>14. Len(F) \in Nat /\ Assigning(F) = {p \in 1 .. Len(F) : F[p].kind \in Setting}
  BY <1>13, PlainLines DEF PlainFile
<1>15. ASSUME NEW j \in 1 .. n, NEW m \in 1 .. Len(s[j]), NEW p, p = E[j - 1] + m
       PROVE  /\ p \in 1 .. Len(F) /\ F[p].kind = s[j][m].kind
              /\ m = 1 => F[p].kind = "skip"
              /\ m = 2 => F[p].kind = "section" /\ KeyAt(F, p) = name[j] /\ ValueAt(F, p) = NULL
              /\ m > 2 /\ F[p].kind = "value" =>
                   KeyAt(F, p) = <<name[j][1], s[j][m].name>> /\ ValueAt(F, p) = s[j][m].value
  <2>1. PICK x : x = name[j]
    OBVIOUS
  <2>2. /\ x = <<x[1]>> /\ x[1] # NULL /\ DumpedAs(x, t[j]) /\ t[j] = s[j]
        /\ Len(t) \in Nat /\ j \in 1 .. Len(t)
    BY <1>2, <1>6, <1>8, <1>11, <2>1
  <2>3. m \in 1 .. Len(t[j])
    BY <2>2
  <2>4. /\ p \in 1 .. Len(F) /\ F[p].kind = t[j][m].kind
        /\ m = 1 => F[p].kind = "skip"
        /\ m = 2 => F[p].kind = "section" /\ KeyAt(F, p) = <<x[1]>> /\ ValueAt(F, p) = NULL
        /\ m > 2 /\ F[p].kind = "value" =>
             KeyAt(F, p) = <<x[1], t[j][m].name>> /\ ValueAt(F, p) = t[j][m].value
    BY <1>12, <1>13, <1>15, <2>2, <2>3, BlockSays
  <2>5. QED
    BY <2>1, <2>2, <2>4
<1>16. ASSUME NEW p \in Assigning(F)
       PROVE  \E k \in Here : KeyAt(F, p) = k /\ ValueAt(F, p) = Back(k)
  <2>1. p \in 1 .. Len(F) /\ F[p].kind \in Setting
    BY <1>14
  <2>2. PICK j \in 1 .. n + 1 : p \in E[j - 1] + 1 .. E[j]
    BY <1>11, <1>12, <2>1 DEF Places
  <2>3. PICK e \in Nat, l \in Nat :
          /\ e = E[j - 1] /\ l = Len(t[j]) /\ E[j] = e + l
          /\ \A i \in 1 .. l : F[e + i] = t[j][i]
    <3>1. t[j] \in Seq(SavedLine)
      <4>1. j = n + 1 \/ j \in 1 .. n
        BY <1>2
      <4>2. QED
        BY <1>8, <1>11, <4>1
    <3>2. j - 1 \in 0 .. Len(t) /\ j \in 1 .. Len(t) /\ Len(t[j]) \in Nat
      BY <1>2, <1>11, <3>1
    <3>3. /\ E[j] = E[j - 1] + Len(t[j]) /\ E[j - 1] \in Nat
          /\ \A i \in 1 .. Len(t[j]) : F[E[j - 1] + i] = t[j][i]
      BY <1>12, <3>2 DEF Places
    <3>4. QED
      BY <3>2, <3>3, Zenon
  <2>4. PICK m : m = p - e
    OBVIOUS
  <2>5. m \in 1 .. l /\ p = e + m
    <3>1. p \in Nat /\ e + 1 <= p /\ p <= e + l
      BY <1>14, <2>1, <2>2, <2>3
    <3>2. QED
      BY <2>4, <3>1
  <2>6. j \in 1 .. n
    <3>1. SUFFICES ASSUME j = n + 1 PROVE FALSE
      BY <1>2
    <3>2. t[j] = <<Blank>> /\ l = 1
      BY <1>11, <2>3, <3>1
    <3>3. m = 1 /\ F[p] = Blank
      BY <2>3, <2>5, <3>2
    <3>4. QED
      BY <2>1, <3>3, BlankSaved DEF Setting
  <2>7. t[j] = s[j] /\ m \in 1 .. Len(s[j]) /\ DumpedAs(name[j], s[j])
    BY <1>8, <1>11, <2>3, <2>5, <2>6
  <2>8. /\ F[p].kind = s[j][m].kind
        /\ m = 1 => F[p].kind = "skip"
        /\ m = 2 => F[p].kind = "section" /\ KeyAt(F, p) = name[j] /\ ValueAt(F, p) = NULL
        /\ m > 2 /\ F[p].kind = "value" =>
             KeyAt(F, p) = <<name[j][1], s[j][m].name>> /\ ValueAt(F, p) = s[j][m].value
    <3>1. p = E[j - 1] + m /\ j \in 1 .. n /\ m \in 1 .. Len(s[j])
      BY <2>3, <2>5, <2>6, <2>7
    <3>2. QED
      BY <1>15, <3>1
  <2>9. m # 1
    BY <2>1, <2>8 DEF Setting
  <2>10. CASE m = 2
    <3>1. iniparser_getstring(name[j], MISSING) = NULL /\ Len(name[j]) = 1 /\ name[j] \in Here
      <4>1. PICK x \in Here : x = name[j] /\ x = <<x[1]>> /\ Len(x) = 1
        BY <1>6, <2>6
      <4>2. iniparser_getstring(<<x[1]>>, MISSING) = NULL
        OBVIOUS
      <4>3. QED
        BY <4>1, <4>2, Zenon
    <3>2. Back(name[j]) = NULL
      BY <3>1 DEF Back
    <3>3. QED
      BY <2>8, <2>10, <3>1, <3>2
  <2>11. CASE m # 2
    <3>1. m \in 3 .. Len(s[j]) /\ m > 2
      BY <2>3, <2>5, <2>7, <2>9, <2>11
    <3>2. s[j][m].kind # "skip"
      BY <2>1, <2>8 DEF Setting
    <3>3. s[j][m].kind = "value" /\
          \E k \in Here : /\ Len(k) = 2 /\ k[1] = name[j][1] /\ k[2] = s[j][m].name
                          /\ s[j][m].value = Back(k)
      BY <2>7, <3>1, <3>2 DEF DumpedAs
    <3>4. PICK k \in Here : /\ Len(k) = 2 /\ k[1] = name[j][1] /\ k[2] = s[j][m].name
                            /\ s[j][m].value = Back(k)
      BY <3>3
    <3>5. k = <<k[1], k[2]>>
      BY <3>4, KeyShape DEF Here
    <3>6. QED
      BY <2>8, <3>1, <3>3, <3>4, <3>5
  <2>12. QED
    BY <2>10, <2>11
<1>17. ASSUME NEW k \in Here PROVE \E p \in Assigning(F) : KeyAt(F, p) = k
  <2>1. k \in Keys /\ <<k[1]>> \in Here /\ <<k[1]>> \in Keys
    BY DEF Here
  <2>2. PICK x : x = <<k[1]>>
    OBVIOUS
  <2>3. x[1] = k[1] /\ Len(x) = 1
    BY <2>2
  <2>4. PICK i : i \in Matches(dict, x)
    BY <2>1, <2>2, HereIs
  <2>5. i \in Used(dict) /\ dict.key[i] = x
    BY <2>1, <2>2, <2>4, MatchIsUsed DEF Sound
  <2>6. i \in SectionsAt
    BY <2>3, <2>5 DEF SectionsAt, IsSection, Used
  <2>7. PICK j \in 1 .. n : o[j] = i
    BY <1>2, <2>6
  <2>8. name[j] = x
    BY <1>4, <2>5, <2>7
  <2>9. Len(s[j]) \in Nat /\ Len(s[j]) >= 2 /\ DumpedAs(x, s[j])
    BY <1>8, <2>8 DEF DumpedAs
  <2>10. CASE Len(k) = 1
    <3>1. k = x
      BY <2>1, <2>2, <2>10, KeyShape
    <3>2. 2 \in 1 .. Len(s[j])
      BY <2>9
    <3>3. PICK p : p = E[j - 1] + 2
      OBVIOUS
    <3>4. p \in 1 .. Len(F) /\ F[p].kind = "section" /\ KeyAt(F, p) = name[j]
      BY <1>15, <3>2, <3>3
    <3>5. QED
      BY <1>14, <2>8, <3>1, <3>4 DEF Setting
  <2>11. CASE Len(k) = 2
    <3>1. PICK m \in 3 .. Len(s[j]) : s[j][m].kind = "value" /\ s[j][m].name = k[2]
      BY <2>3, <2>9, <2>11 DEF DumpedAs
    <3>2. m \in 1 .. Len(s[j]) /\ m > 2
      BY <2>9
    <3>3. PICK p : p = E[j - 1] + m
      OBVIOUS
    <3>4. /\ p \in 1 .. Len(F) /\ F[p].kind = "value"
          /\ KeyAt(F, p) = <<name[j][1], s[j][m].name>>
      BY <1>15, <3>1, <3>2, <3>3
    <3>5. k = <<k[1], k[2]>>
      BY <2>1, <2>11, KeyShape
    <3>6. KeyAt(F, p) = k
      BY <2>3, <2>8, <3>1, <3>4, <3>5
    <3>7. QED
      BY <1>14, <3>4, <3>6 DEF Setting
  <2>12. QED
    BY <2>1, <2>10, <2>11, KeyShape
<1>18. QED
  BY <1>9, <1>14, <1>16, <1>17

\* With no section there is nothing to save.
LEMMA NothingSaved ==
  ASSUME Sound(dict), Hashed(dict), ~(iniparser_getnsec >= 1),
         \A k \in Here : <<k[1]>> \in Here
  PROVE  Here = {} /\ iniparser_dump_ini = <<>>
<1>1. IsFiniteSet(Used(dict)) /\ Used(dict) \subseteq Nat
  BY UsedNumbers
<1>2. SectionsAt \subseteq Nat /\ IsFiniteSet(SectionsAt)
  <2>1. SectionsAt \subseteq Used(dict)
    BY DEF SectionsAt, IsSection, Used
  <2>2. QED
    BY <1>1, <2>1, FS_Subset
<1>3. iniparser_getnsec = Cardinality(SectionsAt) /\ Cardinality(SectionsAt) \in Nat
  <2>1. iniparser_getnsec = Len(InOrder(SectionsAt))
    BY DEF iniparser_getnsec, SectionSlots, SectionsAt
  <2>2. QED
    BY <1>2, <2>1, Listed
<1>4. iniparser_getnsec = 0
  BY <1>3
<1>5. SectionsAt = {}
  BY <1>2, <1>3, <1>4, FS_EmptySet
<1>6. Here = {}
  <2>1. SUFFICES ASSUME NEW k \in Here PROVE FALSE
    OBVIOUS
  <2>2. PICK x \in Here : x = <<k[1]>>
    OBVIOUS
  <2>3. Len(x) = 1 /\ x \in Keys
    BY <2>2 DEF Here
  <2>4. PICK i : i \in Matches(dict, x)
    BY <2>3, HereIs
  <2>5. i \in Used(dict) /\ dict.key[i] = x
    BY <2>3, <2>4, MatchIsUsed DEF Sound
  <2>6. i \in SectionsAt
    BY <2>3, <2>5 DEF SectionsAt, IsSection, Used
  <2>7. QED
    BY <1>5, <2>6
<1>7. Used(dict) = {}
  BY <1>6, ValueOf
<1>8. Len(InOrder({})) = 0
  <2>1. {} \subseteq Nat /\ IsFiniteSet({}) /\ Cardinality({}) = 0
    BY FS_EmptySet
  <2>2. QED
    BY <2>1, Listed
<1>9. iniparser_dump_ini = <<>>
  <2>1. iniparser_getnsec < 1 /\ {i \in Slots(dict) : dict.key[i] # NULL} = {}
    BY <1>4, <1>7 DEF Used
  <2>2. PICK o : o = InOrder({}) /\ Len(o) = 0
    BY <1>8
  <2>3. iniparser_dump_ini =
          [j \in 1 .. Len(o) |->
             ValueLine(dict.key[o[j]],
                       IF dict.val[o[j]] = NULL THEN <<NullWord>> ELSE dict.val[o[j]])]
    BY <2>1, <2>2, Zenon DEF iniparser_dump_ini
  <2>4. QED
    BY <2>2, <2>3
<1>10. QED
  BY <1>6, <1>9

\* What is saved, from the invariants.
LEMMA SavedIsRead == IInv /\ Fresh => SavedComesBack
<1>1. SUFFICES ASSUME IInv, Fresh, pc = "idle", Alive, ~reloaded,
                      \A k \in Here : /\ <<k[1]>> \in Here
                                      /\ iniparser_getstring(<<k[1]>>, MISSING) = NULL,
                      AllPlain, NEW k \in Keys
               PROVE  Meaning(iniparser_dump_ini)[k] = Back(k)
  <2>1. NULL # MISSING
    BY KeysAssumption DEF Values
  <2>2. Sectioned => \A x \in Here : /\ <<x[1]>> \in Here
                                     /\ iniparser_getstring(<<x[1]>>, MISSING) = NULL
    BY <2>1 DEF Sectioned, Here, iniparser_find_entry
  <2>3. (\A x \in Keys : iniparser_find_entry(x) => PlainValue(iniparser_getstring(x, MISSING)))
          => AllPlain
    BY DEF AllPlain, Here
  <2>4. QED
    BY <2>2, <2>3 DEF SavedComesBack, Sectioned, ComesBack, Back
<1>2. Sound(dict) /\ Hashed(dict)
  BY <1>1, AliveIsSound DEF Fresh, Alive
<1>3. PICK F : F = iniparser_dump_ini
  OBVIOUS
<1>4. k \notin Here => iniparser_getstring(k, MISSING) = MISSING
  BY <1>2, HereIs DEF iniparser_getstring, dictionary_get
<1>5. /\ Len(F) \in Nat
      /\ \A p \in Assigning(F) : \E x \in Here : KeyAt(F, p) = x /\ ValueAt(F, p) = Back(x)
      /\ \A x \in Here : \E p \in Assigning(F) : KeyAt(F, p) = x
  <2>1. CASE iniparser_getnsec >= 1
    BY <1>1, <1>2, <1>3, <2>1, DumpSays
  <2>2. CASE ~(iniparser_getnsec >= 1)
    <3>1. Here = {} /\ F = <<>>
      BY <1>1, <1>2, <1>3, <2>2, NothingSaved
    <3>2. Len(F) = 0
      BY <3>1
    <3>3. Assigning(F) = {}
      BY <3>2, AssigningInFile
    <3>4. QED
      BY <3>1, <3>2, <3>3
  <2>3. QED
    BY <2>1, <2>2
<1>6. Meaning(F)[k] = IF \E p \in Assigning(F) : KeyAt(F, p) = k THEN Back(k) ELSE MISSING
  <2>1. \A p \in Assigning(F) : KeyAt(F, p) = k => ValueAt(F, p) = Back(k)
    BY <1>5
  <2>2. QED
    BY <1>5, <2>1, MeaningOf
<1>7. (\E p \in Assigning(F) : KeyAt(F, p) = k) <=> k \in Here
  BY <1>5
<1>8. Meaning(F)[k] = IF k \in Here THEN Back(k) ELSE MISSING
  BY <1>6, <1>7, Zenon
<1>9. MISSING # NULL
  BY KeysAssumption DEF Values
<1>10. QED
  BY <1>3, <1>4, <1>8, <1>9 DEF Back

\* A dictionary without values that hold a mark, begin with a quote or end in a
\* backslash comes back as it was when it is saved and loaded again.
THEOREM SavedIsReadAgain == Spec => []SavedComesBack
<1>1. Spec => [](IInv /\ Fresh)
  BY IInvInit, IInvNext, FreshInit, FreshNext, PTL DEF Spec
<1>2. QED
  BY <1>1, SavedIsRead, PTL
=============================================================================
