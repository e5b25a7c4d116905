----------------------------- MODULE TimerProof -----------------------------
(***************************************************************************)
(* The wheels of Timer.tla, for every number of nodes and time-outs, any   *)
(* delay between two calls of Timer_Check and any size of the wheels: the  *)
(* types, the lists, the wheels' alignment, and that no node is expired    *)
(* early or left behind, the counter starting over as often as it may.     *)
(***************************************************************************)
EXTENDS Timer, FiniteSetTheorems, WellFoundedInduction, TLAPS

\* Quotient and remainder.
LEMMA DivMod ==
  ASSUME NEW a \in Int, NEW P \in Nat \ {0}
  PROVE  /\ a \div P \in Int /\ a % P \in 0 .. P - 1
         /\ a = P * (a \div P) + (a % P)
OBVIOUS

\* There is one way to write a number as a multiple and a remainder.
LEMMA Unique ==
  ASSUME NEW a \in Int, NEW P \in Nat \ {0}, NEW q \in Int, NEW r \in 0 .. P - 1,
         a = P * q + r
  PROVE  a \div P = q /\ a % P = r
OBVIOUS

\* The index of a circular array, a step further.
LEMMA ModNext ==
  ASSUME NEW c \in Int, NEW P \in Nat \ {0}
  PROVE  (c + 1) % P = IF (c % P) + 1 = P THEN 0 ELSE (c % P) + 1
<1> DEFINE q == c \div P
           r == c % P
<1>0. SUFFICES (c + 1) % P = IF r + 1 = P THEN 0 ELSE r + 1
  OBVIOUS
<1>1. q \in Int /\ r \in 0 .. P - 1 /\ c = P * q + r
  BY DivMod
<1> HIDE DEF q, r
<1>2. CASE r + 1 = P
  <2>1. c + 1 = P * (q + 1) + 0
    BY <1>1, <1>2
  <2>2. (c + 1) % P = 0
    BY <2>1, <1>1, Unique
  <2> QED BY <2>2, <1>2
<1>3. CASE r + 1 # P
  <2>1. c + 1 = P * q + (r + 1) /\ r + 1 \in 0 .. P - 1 /\ c + 1 \in Int
    BY <1>1, <1>3
  <2>2. (c + 1) % P = r + 1
    BY <2>1, <1>1, Unique
  <2> QED BY <2>2, <1>3
<1> QED BY <1>2, <1>3

\* A multiple of P * S is a multiple of P by a multiple of S.
LEMMA ModProduct ==
  ASSUME NEW c \in Int, NEW P \in Nat \ {0}, NEW S \in Nat \ {0}
  PROVE  /\ P * S \in Nat \ {0}
         /\ c % (P * S) = 0 <=> c % P = 0 /\ (c \div P) % S = 0
<1>0. P * S \in Nat \ {0}
  OBVIOUS
<1>1. ASSUME c % (P * S) = 0
      PROVE  c % P = 0 /\ (c \div P) % S = 0
  <2> DEFINE k == c \div (P * S)
  <2>1. k \in Int /\ c = (P * S) * k + 0
    BY <1>0, <1>1, DivMod
  <2> HIDE DEF k
  <2>2. c = P * (S * k) + 0 /\ S * k \in Int
    BY <2>1
  <2>3. 0 \in 0 .. P - 1
    OBVIOUS
  <2>6. c % P = 0 /\ c \div P = S * k
    BY <2>2, <2>3, Unique
  <2>4. S * k = S * k + 0 /\ 0 \in 0 .. S - 1
    BY <2>1
  <2>5. (S * k) % S = 0
    BY <2>4, <2>2, <2>1, Unique
  <2> QED BY <2>6, <2>5
<1>2. ASSUME c % P = 0, (c \div P) % S = 0
      PROVE  c % (P * S) = 0
  <2> DEFINE k == (c \div P) \div S
             j == c \div P
  <2>1. j \in Int /\ c = P * j + 0
    BY <1>2, DivMod
  <2>2. k \in Int /\ j = S * k + 0
    BY <2>1, <1>2, DivMod
  <2> HIDE DEF k, j
  <2>3. c = (P * S) * k + 0 /\ 0 \in 0 .. (P * S) - 1
    BY <2>1, <2>2, <1>0
  <2> QED BY <2>3, <2>2, <1>0, Unique
<1> QED BY <1>0, <1>1, <1>2

\* A whole number of turns changes no remainder.
LEMMA Shift ==
  ASSUME NEW a \in Int, NEW P \in Nat \ {0}, NEW k \in Int
  PROVE  (a + P * k) % P = a % P /\ (a + P * k) \div P = (a \div P) + k
<1> DEFINE q == a \div P
           r == a % P
<1>1. q \in Int /\ r \in 0 .. P - 1 /\ a = P * q + r
  BY DivMod
<1> HIDE DEF q, r
<1>2. a + P * k \in Int /\ a + P * k = P * (q + k) + r /\ q + k \in Int
  BY <1>1
<1>3. (a + P * k) % P = r /\ (a + P * k) \div P = q + k
  BY <1>1, <1>2, Unique
<1> QED BY <1>3 DEF q, r

\* Within one turn a remainder is met once.
LEMMA WithinTurn ==
  ASSUME NEW b \in Int, NEW z \in Int, NEW S \in Nat \ {0}, b <= z, z < b + S, z % S = b % S
  PROVE z = b
<1> DEFINE q == z \div S
           p == b \div S
           r == b % S
<1>1. q \in Int /\ p \in Int /\ r \in 0 .. S - 1 /\ z = S * q + r /\ b = S * p + r
  BY DivMod
<1> HIDE DEF q, p, r
<1>2. ~(q >= p + 1)
  <2> SUFFICES ASSUME q >= p + 1 PROVE FALSE
    OBVIOUS
  <2>1. S * q >= S * (p + 1)
    BY <1>1
  <2> QED BY <2>1, <1>1
<1>3. ~(q <= p - 1)
  <2> SUFFICES ASSUME q <= p - 1 PROVE FALSE
    OBVIOUS
  <2>1. S * q <= S * (p - 1)
    BY <1>1
  <2> QED BY <2>1, <1>1
<1> QED BY <1>1, <1>2, <1>3

\* TVR_MASK keeps all the bits that TVN_MASK keeps.
LEMMA ModMod ==
  ASSUME NEW a \in Int, NEW S \in Nat \ {0}, NEW R, R = 4 * S
  PROVE  (a % R) % S = a % S
<1>1. R \in Nat \ {0}
  OBVIOUS
<1> DEFINE k == a \div R
           r == a % R
<1>2. k \in Int /\ r \in 0 .. R - 1 /\ a = R * k + r
  BY <1>1, DivMod
<1>3. SUFFICES r % S = a % S
  OBVIOUS
<1> HIDE DEF k, r
<1>4. a = r + S * (4 * k) /\ 4 * k \in Int /\ r \in Int
  BY <1>1, <1>2
<1>5. (r + S * (4 * k)) % S = r % S
  BY <1>4, Shift
<1> QED BY <1>4, <1>5

\* An index that is counted modulo S is the counter's, modulo S.
LEMMA ModStep ==
  ASSUME NEW b \in Int, NEW S \in Nat \ {0}
  PROVE  ((b % S) + 1) % S = (b + 1) % S
<1> DEFINE q == b \div S
           r == b % S
<1>0. SUFFICES (r + 1) % S = (b + 1) % S
  OBVIOUS
<1>1. q \in Int /\ r \in 0 .. S - 1 /\ b = S * q + r
  BY DivMod
<1> HIDE DEF q, r
<1>2. b + 1 = (r + 1) + S * q /\ r + 1 \in Int
  BY <1>1
<1>3. ((r + 1) + S * q) % S = (r + 1) % S
  BY <1>1, <1>2, Shift
<1> QED BY <1>2, <1>3

\* The quotient grows when the remainder starts over.
LEMMA DivNext ==
  ASSUME NEW c \in Nat, NEW P \in Nat \ {0}
  PROVE  (c + 1) \div P = (c \div P) + (IF (c + 1) % P = 0 THEN 1 ELSE 0)
OBVIOUS

\* The slot of a time that is at least a slot and less than a turn ahead.
LEMMA AddOne ==
  ASSUME NEW c \in Nat, NEW d \in Nat, NEW P \in Nat \ {0}, NEW S \in Nat \ {0},
         P <= d, d < P * S
  PROVE  /\ (c \div P) + 1 <= (c + d) \div P
         /\ (c + d) \div P <= (c \div P) + S
         /\ c % P = 0 => (c + d) \div P < (c \div P) + S
OBVIOUS


------------------------------------------------------------------------------
\* The slots of wheel v.
Size(v) == IF v = 1 THEN TVR_SIZE ELSE TVN_SIZE

\* The number of slots of each wheel.
LEMMA SizeType ==
  \A v \in 1 .. 5 : Size(v) \in Nat \ {0, 1}
BY TimerAssumption DEF Size

\* The spans of the wheels, each as long as a turn of the one below.
LEMMA SpanType ==
  /\ \A v \in 1 .. 5 : Span(v) \in Nat \ {0}
  /\ Span(1) = 1 /\ Span(2) = TVR_SIZE
  /\ \A v \in 1 .. 4 : Span(v + 1) = Span(v) * Size(v)
  /\ Word \in Nat \ {0} /\ Word % 2 = 0
  /\ Word \div 2 <= Span(5) * Size(5)
<1>1. TVN_SIZE \in Nat \ {0} /\ TVR_SIZE \in Nat \ {0}
  BY TimerAssumption
<1>2. /\ TVR_SIZE * TVN_SIZE \in Nat \ {0}
      /\ TVR_SIZE * TVN_SIZE * TVN_SIZE \in Nat \ {0}
      /\ TVR_SIZE * TVN_SIZE * TVN_SIZE * TVN_SIZE \in Nat \ {0}
      /\ TVR_SIZE * TVN_SIZE * TVN_SIZE * TVN_SIZE * TVN_SIZE \in Nat \ {0}
  BY <1>1
<1>3. \A v \in 1 .. 5 : Span(v) \in Nat \ {0}
  BY <1>1, <1>2 DEF Span
<1>4. \A v \in 1 .. 4 : Span(v + 1) = Span(v) * Size(v)
  <2> SUFFICES ASSUME NEW v \in 1 .. 4 PROVE Span(v + 1) = Span(v) * Size(v)
    OBVIOUS
  <2> v = 1 \/ v = 2 \/ v = 3 \/ v = 4
    OBVIOUS
  <2> QED BY <1>1, <1>2 DEF Span, Size
<1> DEFINE T == TVR_SIZE * TVN_SIZE * TVN_SIZE * TVN_SIZE * TVN_SIZE
<1>5. PICK k \in {1, 2} : Word = k * T
  BY TimerAssumption
<1>6. T \in Nat \ {0} /\ T = Span(5) * Size(5)
  BY <1>2 DEF Span, Size
<1>7. T % 2 = 0
  <2> DEFINE m == TVN_SIZE * TVN_SIZE * TVN_SIZE * TVN_SIZE * TVN_SIZE
  <2>1. m \in Nat /\ T = 2 * (2 * m)
    BY <1>1, TimerAssumption
  <2> QED BY <2>1
<1> HIDE DEF T
<1> QED BY <1>3, <1>4, <1>5, <1>6, <1>7 DEF Span

\* The counter starts over after a whole number of turns of every wheel.
LEMMA WordTurns ==
  \A v \in 1 .. 5 : \E m \in Nat \ {0} : Word = Span(v) * Size(v) * m
<1> DEFINE S == TVN_SIZE
           R == TVR_SIZE
<1>1. S \in Nat \ {0} /\ R \in Nat \ {0}
  BY TimerAssumption
<1>2. PICK k \in {1, 2} : Word = k * (R * S * S * S * S)
  BY TimerAssumption
<1>3. k \in Nat \ {0} /\ k * S \in Nat \ {0} /\ k * S * S \in Nat \ {0}
      /\ k * S * S * S \in Nat \ {0}
  BY <1>1
<1>4. Span(1) * Size(1) = R /\ Span(2) * Size(2) = R * S /\ Span(3) * Size(3) = R * S * S
      /\ Span(4) * Size(4) = R * S * S * S /\ Span(5) * Size(5) = R * S * S * S * S
  BY <1>1 DEF Span, Size
<1> HIDE DEF S, R
<1>5. /\ Word = (R * S * S * S * S) * k
      /\ Word = (R * S * S * S) * (k * S)
      /\ Word = (R * S * S) * (k * S * S)
      /\ Word = (R * S) * (k * S * S * S)
  BY <1>1, <1>2
<1>6. k * S * S * S * S \in Nat \ {0} /\ Word = R * (k * S * S * S * S)
  BY <1>1, <1>2, <1>3
<1> SUFFICES ASSUME NEW v \in 1 .. 5
             PROVE  \E m \in Nat \ {0} : Word = Span(v) * Size(v) * m
  OBVIOUS
<1>7. CASE v = 1
  BY <1>4, <1>6, <1>7
<1>8. CASE v = 2
  BY <1>3, <1>4, <1>5, <1>8
<1>9. CASE v = 3
  BY <1>3, <1>4, <1>5, <1>9
<1>10. CASE v = 4
  BY <1>3, <1>4, <1>5, <1>10
<1>11. CASE v = 5
  BY <1>3, <1>4, <1>5, <1>11
<1> QED BY <1>7, <1>8, <1>9, <1>10, <1>11

\* A slot of a wheel begins with slot 0 of the wheel below.
LEMMA SpansNest ==
  ASSUME NEW c \in Nat
  PROVE  /\ \A v \in 1 .. 4 : c % Span(v + 1) = 0 <=>
                                c % Span(v) = 0 /\ (c \div Span(v)) % Size(v) = 0
         /\ \A u, v \in 2 .. 5 : u <= v /\ c % Span(u) # 0 => c % Span(v) # 0
<1>1. \A v \in 1 .. 4 : c % Span(v + 1) = 0 <=>
                          c % Span(v) = 0 /\ (c \div Span(v)) % Size(v) = 0
  <2> TAKE v \in 1 .. 4
  <2>1. Span(v) \in Nat \ {0} /\ Size(v) \in Nat \ {0} /\ Span(v + 1) = Span(v) * Size(v)
    BY SpanType, SizeType
  <2> QED BY <2>1, ModProduct
<1>2. /\ c % Span(3) = 0 => c % Span(2) = 0
      /\ c % Span(4) = 0 => c % Span(3) = 0
      /\ c % Span(5) = 0 => c % Span(4) = 0
  <2>1. 2 \in 1 .. 4 /\ 3 \in 1 .. 4 /\ 4 \in 1 .. 4 /\ 2 + 1 = 3 /\ 3 + 1 = 4 /\ 4 + 1 = 5
    OBVIOUS
  <2> QED BY <1>1, <2>1, Zenon
<1>3. ASSUME NEW u \in 2 .. 5, NEW v \in 2 .. 5, u <= v, c % Span(u) # 0
      PROVE  c % Span(v) # 0
  <2> (u = 2 \/ u = 3 \/ u = 4 \/ u = 5) /\ (v = 2 \/ v = 3 \/ v = 4 \/ v = 5)
    OBVIOUS
  <2> QED BY <1>2, <1>3
<1> QED BY <1>1, <1>3

Less == OpToRel(<, Nat)

\* The naturals are well founded.
LEMMA LessIsLess ==
  /\ IsWellFoundedOn(Less, Nat)
  /\ \A x, y \in Nat : y < x => <<y, x>> \in Less
<1>1. IsWellFoundedOn(Less, Nat)
  BY NatLessThanWellFounded DEF Less
<1>2. \A x, y \in Nat : y < x => <<y, x>> \in Less
  BY DEF OpToRel, Less
<1> QED BY <1>1, <1>2

\* A set of naturals has a least element.
LEMMA Least ==
  ASSUME NEW T, T \subseteq Nat, T # {}
  PROVE  \E x \in T : \A y \in T : x <= y
<1>1. PICK x \in T : \A y \in T : ~ (<<y, x>> \in Less)
  BY LessIsLess, WFMin
<1>2. ASSUME NEW y \in T PROVE x <= y
  <2>1. x \in Nat /\ y \in Nat
    OBVIOUS
  <2>2. ~(y < x)
    BY <1>1, <2>1, LessIsLess, Zenon
  <2> QED BY <2>1, <2>2
<1> QED BY <1>2

------------------------------------------------------------------------------
\* nx and pv close the elements of E into rings, and loc tells the slot each is
\* in; pos grows along the ring of a slot, so that there is one ring to a slot.
Grows(pv, E, loc, pos) ==
  \A x \in E \ Slots : loc[x] \in Slots => pos[pv[x]] < pos[x]

Ring(nx, pv, E, loc) ==
  /\ \A x \in E : /\ nx[x] \in E /\ pv[x] \in E
                  /\ pv[nx[x]] = x /\ nx[pv[x]] = x
                  /\ loc[nx[x]] = loc[x]
  /\ \A s \in Slots : loc[s] = s
  /\ loc \in [Heads -> Heads]
  /\ \E pos \in [Heads -> Nat] : Grows(pv, E, loc, pos)

\* x is taken out of its ring, and is put into a ring behind p, or alone.
Taken(nx, pv, E, x, nx2, pv2) ==
  \A y \in E \ {x} : /\ nx2[y] = IF y = pv[x] THEN nx[x] ELSE nx[y]
                     /\ pv2[y] = IF y = nx[x] THEN pv[x] ELSE pv[y]

PutBehind(nx, pv, E, p, x, nx2, pv2) ==
  /\ \A y \in E : /\ nx2[y] = IF y = p THEN x ELSE nx[y]
                 /\ pv2[y] = IF y = nx[p] THEN x ELSE pv[y]
  /\ nx2[x] = nx[p] /\ pv2[x] = p

PutAlone(nx, pv, E, x, nx2, pv2) ==
  /\ \A y \in E : nx2[y] = nx[y] /\ pv2[y] = pv[y]
  /\ nx2[x] = x /\ pv2[x] = x

Moved(loc, x, s) == [loc EXCEPT ![x] = s]

\* The element before x is in the slot of x.
LEMMA RingBack ==
  ASSUME NEW nx, NEW pv, NEW E, NEW loc, Ring(nx, pv, E, loc), NEW x \in E
  PROVE  loc[pv[x]] = loc[x]
BY DEF Ring

\* A ring stays one when an element is taken out,
LEMMA RingRemove ==
  ASSUME NEW E, E \subseteq Heads, NEW nx, NEW pv, NEW loc,
         Ring(nx, pv, E, loc), NEW x \in E \ Slots, NEW nx2, NEW pv2,
         Taken(nx, pv, E, x, nx2, pv2)
  PROVE  Ring(nx2, pv2, E \ {x}, loc)
<1> USE DEF Taken
<1>0. PICK pos \in [Heads -> Nat] : Grows(pv, E, loc, pos)
  BY DEF Ring
<1>1. ASSUME NEW y \in E \ {x}
      PROVE  /\ nx2[y] \in E \ {x} /\ pv2[y] \in E \ {x}
             /\ pv2[nx2[y]] = y /\ nx2[pv2[y]] = y
             /\ loc[nx2[y]] = loc[y]
  <2>1. nx2[y] \in E \ {x} /\ pv2[y] \in E \ {x}
    BY DEF Ring
  <2>2. pv2[nx2[y]] = y
    BY <2>1 DEF Ring
  <2>3. nx2[pv2[y]] = y
    BY <2>1 DEF Ring
  <2>4. loc[nx2[y]] = loc[y]
    BY RingBack DEF Ring
  <2> QED BY <2>1, <2>2, <2>3, <2>4
<1>2. ASSUME NEW y \in (E \ {x}) \ Slots, loc[y] \in Slots
      PROVE  pos[pv2[y]] < pos[y]
  <2>1. CASE y = nx[x]
    <3>1. pos[pv[y]] < pos[y] /\ pv[y] = x /\ loc[x] = loc[y]
      BY <1>0, <2>1, <1>2 DEF Ring, Grows
    <3>2. pos[pv[x]] < pos[x]
      BY <1>0, <3>1, <1>2 DEF Grows
    <3>3. pv[x] \in Heads /\ x \in Heads /\ y \in Heads
      BY DEF Ring
    <3>4. pos[pv[x]] \in Nat /\ pos[x] \in Nat /\ pos[y] \in Nat
      BY <3>3
    <3> QED BY <2>1, <3>1, <3>2, <3>4
  <2>2. CASE y # nx[x]
    BY <1>0, <2>2, <1>2 DEF Grows
  <2> QED BY <2>1, <2>2
<1>3. Grows(pv2, E \ {x}, loc, pos)
  BY <1>2 DEF Grows
<1> QED BY <1>1, <1>3 DEF Ring

\* when one is put behind another, whose slot it is then in,
LEMMA RingInsert ==
  ASSUME NEW E, E \subseteq Heads, NEW nx, NEW pv, NEW loc,
         Ring(nx, pv, E, loc), NEW p \in E, NEW x \in Heads, x \notin E \cup Slots,
         NEW nx2, NEW pv2, PutBehind(nx, pv, E, p, x, nx2, pv2)
  PROVE  Ring(nx2, pv2, E \cup {x}, Moved(loc, x, loc[p]))
<1> USE DEF PutBehind, Moved
<1>0. PICK pos \in [Heads -> Nat] : Grows(pv, E, loc, pos)
  BY DEF Ring
<1> DEFINE loc2 == Moved(loc, x, loc[p])
           pos2 == [y \in Heads |-> IF y = x THEN pos[p] + 1
                                    ELSE IF pos[y] > pos[p] THEN pos[y] + 1 ELSE pos[y]]
<1>1. loc2 \in [Heads -> Heads] /\ pos2 \in [Heads -> Nat]
  BY DEF Ring
<1>2. \A y \in Heads : y # x => loc2[y] = loc[y]
  BY DEF Ring
<1>3. loc2[x] = loc[p]
  BY DEF Ring
<1>4. \A s \in Slots : loc2[s] = s
  BY <1>2 DEF Ring, Heads
<1>5. ASSUME NEW y \in E \cup {x}
      PROVE  /\ nx2[y] \in E \cup {x} /\ pv2[y] \in E \cup {x}
             /\ pv2[nx2[y]] = y /\ nx2[pv2[y]] = y
             /\ loc2[nx2[y]] = loc2[y]
  <2> HIDE DEF loc2, pos2
  <2>1. nx2[y] \in E \cup {x} /\ pv2[y] \in E \cup {x}
    BY DEF Ring
  <2>2. pv2[nx2[y]] = y
    BY DEF Ring
  <2>3. nx2[pv2[y]] = y
    BY DEF Ring
  <2>4. loc2[nx2[y]] = loc2[y]
    <3>1. CASE y = x
      BY <3>1, <1>2, <1>3 DEF Ring
    <3>2. CASE y = p
      BY <3>2, <1>2, <1>3 DEF Ring
    <3>3. CASE y \in E /\ y # p
      BY <3>3, <1>2 DEF Ring
    <3> QED BY <3>1, <3>2, <3>3
  <2> QED BY <2>1, <2>2, <2>3, <2>4
<1>6. ASSUME NEW y \in (E \cup {x}) \ Slots, loc2[y] \in Slots
      PROVE  pos2[pv2[y]] < pos2[y]
  <2>1. CASE y = x
    <3>1. pos2[p] = pos[p] /\ pos2[x] = pos[p] + 1 /\ pos[p] \in Nat
      BY DEF Ring
    <3> QED BY <2>1, <3>1
  <2>2. CASE y = nx[p] /\ y # x
    <3>1. pv[y] = p /\ pos[p] < pos[y]
      BY <1>0, <2>2, <1>2, <1>6 DEF Ring, Grows
    <3>2. pos2[y] = pos[y] + 1 /\ pos2[x] = pos[p] + 1 /\ pos[p] \in Nat /\ pos[y] \in Nat
      BY <3>1, <2>2 DEF Ring
    <3> QED BY <2>2, <3>1, <3>2
  <2>3. CASE y # nx[p] /\ y # x
    <3>1. pv2[y] = pv[y] /\ pv[y] \in E /\ pos[pv[y]] < pos[y]
      BY <1>0, <2>3, <1>2, <1>6 DEF Ring, Grows
    <3>2. pos[pv[y]] \in Nat /\ pos[y] \in Nat /\ pos[p] \in Nat
      BY <3>1 DEF Ring
    <3>3. pos2[y] = IF pos[y] > pos[p] THEN pos[y] + 1 ELSE pos[y]
      BY <2>3
    <3>4. pos2[pv[y]] = IF pos[pv[y]] > pos[p] THEN pos[pv[y]] + 1 ELSE pos[pv[y]]
      BY <3>1
    <3> QED BY <3>1, <3>2, <3>3, <3>4
  <2> QED BY <2>1, <2>2, <2>3
<1>7. Ring(nx2, pv2, E \cup {x}, loc2)
  <2> HIDE DEF loc2, pos2
  <2>1. Grows(pv2, E \cup {x}, loc2, pos2)
    BY <1>6 DEF Grows
  <2> QED BY <1>1, <1>4, <1>5, <2>1 DEF Ring
<1> QED BY <1>7

\* and when one is put in a ring of its own: it is then in no slot.
LEMMA RingAlone ==
  ASSUME NEW E, E \subseteq Heads, NEW nx, NEW pv, NEW loc,
         Ring(nx, pv, E, loc), NEW x \in Heads, x \notin E \cup Slots,
         NEW nx2, NEW pv2, PutAlone(nx, pv, E, x, nx2, pv2)
  PROVE  Ring(nx2, pv2, E \cup {x}, Moved(loc, x, x))
<1> USE DEF PutAlone
<1>0. PICK pos \in [Heads -> Nat] : Grows(pv, E, loc, pos)
  BY DEF Ring
<1> DEFINE loc2 == Moved(loc, x, x)
<1>1. loc2 \in [Heads -> Heads] /\ \A y \in Heads : y # x => loc2[y] = loc[y]
  BY DEF Ring, Moved
<1>2. loc2[x] = x
  BY DEF Ring, Moved
<1>3. \A s \in Slots : loc2[s] = s
  BY <1>1 DEF Ring, Heads
<1> HIDE DEF loc2
<1>4. Ring(nx2, pv2, E \cup {x}, loc2)
  <2>1. ASSUME NEW y \in E \cup {x}
        PROVE  /\ nx2[y] \in E \cup {x} /\ pv2[y] \in E \cup {x}
               /\ pv2[nx2[y]] = y /\ nx2[pv2[y]] = y
               /\ loc2[nx2[y]] = loc2[y]
    BY <1>1, <1>2 DEF Ring
  <2>2. Grows(pv2, E \cup {x}, loc2, pos)
    BY <1>0, <1>1, <1>2 DEF Grows
  <2> QED BY <1>1, <1>3, <2>1, <2>2 DEF Ring
<1> QED BY <1>4 DEF loc2

\* A slot that is its own successor has no node in its ring.
LEMMA RingEmpty ==
  ASSUME NEW E, E \subseteq Heads, NEW nx, NEW pv, NEW loc,
         Ring(nx, pv, E, loc), NEW s \in Slots \cap E, nx[s] = s
  PROVE  \A y \in E \ Slots : loc[y] # s
<1>0. PICK pos \in [Heads -> Nat] : Grows(pv, E, loc, pos)
  BY DEF Ring
<1> SUFFICES ASSUME NEW z \in E \ Slots, loc[z] = s
             PROVE  FALSE
  OBVIOUS
<1> DEFINE M == {y \in E \ Slots : loc[y] = s}
           T == {pos[y] : y \in M}
<1>1. T \subseteq Nat /\ T # {}
  OBVIOUS
<1>2. PICK k \in T : \A j \in T : k <= j
  BY <1>1, Least
<1>3. PICK y \in M : pos[y] = k
  BY <1>2
<1>4. pv[y] \in E /\ loc[pv[y]] = s /\ pos[pv[y]] < pos[y] /\ pos[pv[y]] \in Nat /\ pos[y] \in Nat
  BY <1>0, <1>3, RingBack DEF Ring, Grows
<1>5. CASE pv[y] \in Slots
  BY <1>3, <1>4, <1>5 DEF Ring
<1>6. CASE pv[y] \notin Slots
  <2>1. pos[pv[y]] \in T
    BY <1>4, <1>6
  <2> QED BY <2>1, <1>2, <1>3, <1>4
<1> QED BY <1>5, <1>6

------------------------------------------------------------------------------
\* The wheels: Base(v) numbers the slot of wheel v that iIndex[v] stands at.
Cascaded(v) ==
  dwCheckTime % Span(v) # 0 \/ pc = "fire" \/ (pc = "cascade" /\ v < n)

Base(v) == (dwCheckTime \div Span(v)) + (IF v > 1 /\ Cascaded(v) THEN 1 ELSE 0)

\* Each wheel stands at its base, and a cascade begins with a slot of its wheel.
Aligned ==
  /\ pc # "dead" => \A v \in 1 .. 5 : iIndex[v] = Base(v) % Size(v)
  /\ pc = "cascade" => n \in 2 .. 5 /\ dwCheckTime % Span(n) = 0

Types ==
  /\ next \in [Heads -> Heads \cup {NULL}] /\ prev \in [Heads -> Heads \cup {NULL}]
  /\ iIndex \in [1 .. 5 -> Nat] /\ \A v \in 1 .. 5 : iIndex[v] \in 0 .. Size(v) - 1
  /\ dwCheckTime \in 0 .. Word - 1 /\ dwExpire \in [Nodes -> 0 .. Word - 1]
  /\ pc \in {"idle", "cascade", "fire", "dead"} /\ n \in 1 .. 5
  /\ pstCur \in Heads \cup {NULL} /\ now \in Nat /\ load \in Loads

Counts ==
  /\ armed \subseteq Nodes /\ IsFiniteSet(armed)
  /\ dwNodeCount = Cardinality(armed)
  /\ dwMaxNodeCount \in Nat /\ dwMaxNodeCount >= dwNodeCount

\* The lists, as they are once the nodes moved so far have left the slot that
\* is being cascaded: the code unlinks none of them, and resets the slot at last.
Nx == IF pc = "cascade" THEN [next EXCEPT ![CascadeHead] = pstCur] ELSE next
Pv == IF pc = "cascade" THEN [prev EXCEPT ![pstCur] = CascadeHead] ELSE prev

Linked == Slots \cup armed

Cascade ==
  pc = "cascade" => /\ pstCur \in Linked
                    /\ next[CascadeHead] \in Linked /\ prev[pstCur] \in Linked
                    /\ pstCur # CascadeHead => next[CascadeHead] \in armed

\* The ticks to a node's time, modulo Word; half of them are taken for a time past.
Left(e) == (e - dwCheckTime) % Word
Time(e) == dwCheckTime + Left(e)
Late(e) == Left(e) >= Word \div 2

\* The slot s is one that comes to its turn in time for a node that expires at e.
AtHome(s, e) ==
  LET q == Time(e) \div Span(s[1]) IN
  \/ /\ ~ Late(e)
     /\ q \in Base(s[1]) .. (Base(s[1]) + Size(s[1]) - 1)
     /\ q % Size(s[1]) = s[2]
  \/ Late(e) /\ s = <<1, iIndex[1]>>

HomeSlots == [e \in 0 .. Word - 1 |-> {s \in Slots : AtHome(s, e)}]

Homes(loc) ==
  pc # "dead" => \A x \in armed \ misplaced : loc[x] \in HomeSlots[dwExpire[x]]

\* No node of tv2 would be added where tv4.iIndex lies.
NoTrap(loc) ==
  \A x \in armed : loc[x] \in Slots /\ loc[x][1] = 2 =>
                     (dwExpire[x] \div TVR_SIZE) % TVR_SIZE # 2 * TVN_SIZE

Lists(loc) == Ring(Nx, Pv, Linked, loc) /\ Homes(loc) /\ NoTrap(loc)

IInv == Types /\ Counts /\ Aligned /\ Cascade /\ \E loc : Lists(loc)

------------------------------------------------------------------------------
\* A slot, by its wheel and its index.
LEMMA SlotIn ==
  /\ \A v \in 1 .. 5 : \A i \in Int : <<v, i>> \in Slots <=> i \in 0 .. Size(v) - 1
  /\ \A s \in Slots : s[1] \in 1 .. 5 /\ s[2] \in 0 .. Size(s[1]) - 1 /\ s = <<s[1], s[2]>>
BY TimerAssumption DEF Slots, Size

\* Each wheel stands at a slot of its own.
LEMMA StandsAtSlot ==
  Types => \A v \in 1 .. 5 : <<v, iIndex[v]>> \in Slots
BY SlotIn DEF Types

\* The time of a node is its expiry up to a turn of the counter, so it falls in
\* the slots that the bits of the expiry tell.
LEMMA TimeOf ==
  ASSUME Types, NEW e \in 0 .. Word - 1
  PROVE  /\ Left(e) \in 0 .. Word - 1
         /\ Time(e) \in Nat
         /\ Time(e) = e \/ Time(e) = e + Word
         /\ Signed(e - dwCheckTime) = IF Late(e) THEN Left(e) - Word ELSE Left(e)
<1>1. dwCheckTime \in 0 .. Word - 1 /\ Word \in Nat \ {0}
  BY SpanType DEF Types
<1>2. Left(e) \in 0 .. Word - 1
  BY <1>1 DEF Left
<1>3. ASSUME e >= dwCheckTime PROVE Time(e) = e
  <2>1. e - dwCheckTime \in 0 .. Word - 1
    BY <1>1, <1>3
  <2>2. Left(e) = e - dwCheckTime
    BY <1>1, <2>1 DEF Left
  <2> QED BY <1>1, <2>2 DEF Time
<1>4. ASSUME e < dwCheckTime PROVE Time(e) = e + Word
  <2>1. e - dwCheckTime = Word * (-1) + (e - dwCheckTime + Word)
        /\ e - dwCheckTime + Word \in 0 .. Word - 1 /\ e - dwCheckTime \in Int
    BY <1>1, <1>4
  <2>2. Left(e) = e - dwCheckTime + Word
    BY <1>1, <2>1, Unique DEF Left
  <2> QED BY <1>1, <2>2 DEF Time
<1>5. Signed(e - dwCheckTime) = IF Late(e) THEN Left(e) - Word ELSE Left(e)
  BY <1>1, <1>2 DEF Signed, Left, Late
<1>6. Time(e) \in Nat
  BY <1>1, <1>2 DEF Time
<1> QED BY <1>2, <1>3, <1>4, <1>5, <1>6, <1>1

\* So the slot of the time is the slot that the bits of the expiry tell.
LEMMA TimeSlot ==
  ASSUME Types, NEW e \in 0 .. Word - 1, NEW v \in 1 .. 5
  PROVE  (Time(e) \div Span(v)) % Size(v) = (e \div Span(v)) % Size(v)
<1> DEFINE P == Span(v)
           S == Size(v)
<1>1. P \in Nat \ {0} /\ S \in Nat \ {0}
  BY SpanType, SizeType
<1>2. PICK m \in Nat \ {0} : Word = P * S * m
  BY WordTurns
<1> HIDE DEF P, S
<1>3. e + Word = e + P * (S * m) /\ S * m \in Int /\ e \in Int /\ m \in Int
  BY <1>1, <1>2
<1>4. (e + P * (S * m)) \div P = (e \div P) + S * m
  BY <1>1, <1>3, Shift
<1>5. PICK q \in Int : q = e \div P
  BY <1>1, <1>3, DivMod
<1>6. (q + S * m) % S = q % S
  BY <1>1, <1>3, Shift
<1>7. Time(e) = e \/ Time(e) = e + Word
  BY TimeOf
<1>8. (Time(e) \div P) % S = (e \div P) % S
  BY <1>3, <1>4, <1>5, <1>6, <1>7
<1> QED BY <1>8 DEF P, S

\* The slots, numbered without end, are numbers.
LEMMA Quotients ==
  ASSUME Types, NEW e \in 0 .. Word - 1, NEW v \in 1 .. 5
  PROVE  /\ dwCheckTime \div Span(v) \in Int
         /\ e \div Span(v) \in Int
         /\ Time(e) \div Span(v) \in Int
<1>1. Span(v) \in Nat \ {0} /\ Word \in Nat
  BY SpanType
<1>2. dwCheckTime \in Int /\ e \in Int /\ Time(e) \in Int
  BY <1>1, TimeOf DEF Types
<1> QED BY <1>1, <1>2, DivMod

\* The wheel Timer_InternalAdd chooses.
LEMMA WheelOf ==
  ASSUME NEW d \in Nat, d < Word \div 2
  PROVE  /\ WheelFor(d) \in 1 .. 5
         /\ d < Span(WheelFor(d)) * Size(WheelFor(d))
         /\ WheelFor(d) # 1 => Span(WheelFor(d)) <= d
<1>1. CASE d < Span(2)
  <2>1. WheelFor(d) = 1 /\ Span(1) * Size(1) = Span(2)
    BY <1>1, SpanType, SizeType DEF WheelFor, Size
  <2> QED BY <1>1, <2>1
<1>2. CASE ~(d < Span(2))
  <2>1. \A u \in 1 .. 5 : Span(u) \in Nat
    BY SpanType
  <2>2. \E v \in 2 .. 5 : Span(v) <= d /\ (v < 5 => d < Span(v + 1))
    <3>1. CASE d < Span(3)
      BY <1>2, <3>1, <2>1
    <3>2. CASE ~(d < Span(3)) /\ d < Span(4)
      BY <3>2, <2>1
    <3>3. CASE ~(d < Span(4)) /\ d < Span(5)
      BY <3>3, <2>1
    <3>4. CASE ~(d < Span(5))
      BY <3>4, <2>1
    <3> QED BY <3>1, <3>2, <3>3, <3>4
  <2> DEFINE w == CHOOSE v \in 2 .. 5 : Span(v) <= d /\ (v < 5 => d < Span(v + 1))
  <2>3. WheelFor(d) = w
    BY <1>2 DEF WheelFor
  <2>7. d < Span(5) * Size(5)
    BY SpanType, SizeType
  <2>4. w \in 2 .. 5 /\ Span(w) <= d /\ (w < 5 => d < Span(w + 1))
    BY <2>2
  <2> HIDE DEF w
  <2>5. CASE w < 5
    <3>1. w \in 1 .. 4
      BY <2>4, <2>5
    <3>2. Span(w + 1) = Span(w) * Size(w)
      BY <3>1, SpanType
    <3> QED BY <2>3, <2>4, <2>5, <3>2
  <2>6. CASE w = 5
    BY <2>3, <2>4, <2>6, <2>7
  <2> QED BY <2>4, <2>5, <2>6
<1> QED BY <1>1, <1>2

\* A node added to a wheel but the root is at least one slot ahead of the
\* wheel's, and not a whole turn.
LEMMA AddedAhead ==
  ASSUME Types, NEW e \in 0 .. Word - 1, ~ Late(e), NEW v, v = WheelFor(Left(e)), v # 1
  PROVE  /\ v \in 2 .. 5
         /\ (dwCheckTime \div Span(v)) + 1 <= Time(e) \div Span(v)
         /\ Time(e) \div Span(v) <= (dwCheckTime \div Span(v)) + Size(v)
         /\ dwCheckTime % Span(v) = 0 =>
              Time(e) \div Span(v) < (dwCheckTime \div Span(v)) + Size(v)
<1>1. Left(e) \in Nat /\ Left(e) < Word \div 2
  BY TimeOf, SpanType DEF Late
<1>2. v \in 2 .. 5 /\ Span(v) <= Left(e) /\ Left(e) < Span(v) * Size(v)
  BY <1>1, WheelOf
<1>3. Span(v) \in Nat \ {0} /\ Size(v) \in Nat \ {0} /\ dwCheckTime \in Nat
  BY <1>2, SpanType, SizeType DEF Types
<1> QED BY <1>1, <1>2, <1>3, AddOne DEF Time

\* The slot of Timer_InternalAdd, by the ticks left.
LEMMA VecIs ==
  ASSUME Types, NEW e \in 0 .. Word - 1
  PROVE  /\ Late(e) => Vec(e) = <<1, iIndex[1]>>
         /\ ~ Late(e) => Vec(e) = <<WheelFor(Left(e)), SlotFor(WheelFor(Left(e)), e)>>
<1>1. Left(e) \in 0 .. Word - 1 /\ Word \in Nat
  BY TimeOf, SpanType
<1>2. CASE Late(e)
  <2>1. Signed(e - dwCheckTime) < 0
    BY <1>1, <1>2, TimeOf
  <2> QED BY <1>2, <2>1 DEF Vec
<1>3. CASE ~ Late(e)
  <2>1. Signed(e - dwCheckTime) = Left(e) /\ ~(Left(e) < 0)
    BY <1>1, <1>3, TimeOf
  <2> QED BY <1>3, <2>1 DEF Vec
<1> QED BY <1>2, <1>3

\* Only with tv2 can it lie past the end of its wheel.
LEMMA VecRange ==
  ASSUME Types, NEW e \in 0 .. Word - 1
  PROVE  /\ Vec(e) = <<Vec(e)[1], Vec(e)[2]>>
         /\ Vec(e)[1] = 2 => ~ Late(e) /\ Vec(e)[2] = (e \div TVR_SIZE) % TVR_SIZE
         /\ Vec(e) \notin Slots => Vec(e)[1] = 2 /\ Vec(e)[2] \in TVN_SIZE .. (4 * TVN_SIZE - 1)
<1> DEFINE v == WheelFor(Left(e))
<1>1. TVN_SIZE \in Nat \ {0} /\ TVR_SIZE = 4 * TVN_SIZE
  BY TimerAssumption
<1>2. CASE Late(e)
  BY <1>2, VecIs, StandsAtSlot
<1>3. CASE ~ Late(e)
  <2>1. v \in 1 .. 5
    BY <1>3, TimeOf, WheelOf, SpanType DEF Late
  <2>2. Vec(e) = <<v, SlotFor(v, e)>>
    BY <1>3, VecIs
  <2> HIDE DEF v
  <2>3. PICK q \in Int : q = e \div Span(v)
    BY <2>1, Quotients
  <2>4. SlotFor(v, e) = q % (IF v <= 2 THEN TVR_SIZE ELSE TVN_SIZE)
    BY <2>3 DEF SlotFor
  <2>5. CASE v = 2
    <3>1. q % TVR_SIZE \in 0 .. TVR_SIZE - 1
      BY <1>1
    <3>2. Vec(e) = <<2, q % TVR_SIZE>>
      BY <2>2, <2>4, <2>5
    <3>3. q = e \div TVR_SIZE
      BY <2>3, <2>5, SpanType
    <3>4. Vec(e) \notin Slots => ~(q % TVR_SIZE \in 0 .. TVN_SIZE - 1)
      BY <3>1, <3>2, SlotIn DEF Size
    <3> QED BY <1>1, <1>3, <3>1, <3>2, <3>3, <3>4
  <2>6. CASE v # 2
    <3>1. SlotFor(v, e) = q % Size(v)
      BY <2>1, <2>4, <2>6 DEF Size
    <3>2. q % Size(v) \in 0 .. Size(v) - 1
      BY <2>1, SizeType, DivMod
    <3>3. Vec(e) \in Slots
      BY <2>1, <2>2, <3>1, <3>2, SlotIn
    <3> QED BY <2>2, <2>6, <3>3
  <2> QED BY <2>5, <2>6
<1> QED BY <1>2, <1>3

\* A slot that is one comes to its turn in time for the node.
LEMMA AddedAtHome ==
  ASSUME Types, NEW e \in 0 .. Word - 1, Vec(e) \in Slots
  PROVE  AtHome(Vec(e), e)
<1> DEFINE v == WheelFor(Left(e))
           q == Time(e) \div Span(v)
<1>1. CASE Late(e)
  BY <1>1, VecIs DEF AtHome
<1>2. CASE ~ Late(e)
  <2>1. v \in 1 .. 5 /\ Left(e) \in Nat /\ Left(e) < Span(v) * Size(v)
    BY <1>2, TimeOf, WheelOf, SpanType DEF Late
  <2>2. Vec(e) = <<v, SlotFor(v, e)>> /\ SlotFor(v, e) \in 0 .. Size(v) - 1
    BY <1>2, VecIs, SlotIn
  <2>3. q % Size(v) = (e \div Span(v)) % Size(v)
    BY <2>1, TimeSlot
  <2>4. SlotFor(v, e) = q % Size(v)
    <3>1. PICK r \in Int : r = e \div Span(v)
      BY <2>1, Quotients
    <3>2. CASE v = 2
      <4>1. SlotFor(v, e) = r % TVR_SIZE /\ Size(v) = TVN_SIZE /\ TVN_SIZE \in Nat \ {0}
            /\ TVR_SIZE = 4 * TVN_SIZE
        BY <3>1, <3>2, TimerAssumption DEF SlotFor, Size
      <4>2. (r % TVR_SIZE) % TVN_SIZE = r % TVN_SIZE
        BY <4>1, ModMod
      <4>3. r % TVR_SIZE \in 0 .. TVN_SIZE - 1
        BY <4>1, <2>2
      <4>4. (r % TVR_SIZE) % TVN_SIZE = r % TVR_SIZE
        BY <4>1, <4>3
      <4> QED BY <2>3, <3>1, <4>1, <4>2, <4>4
    <3>3. CASE v # 2
      BY <2>1, <2>3, <3>3 DEF SlotFor, Size
    <3> QED BY <3>2, <3>3
  <2>5. q \in Base(v) .. (Base(v) + Size(v) - 1)
    <3>1. dwCheckTime \in Nat /\ Span(v) \in Nat \ {0} /\ Size(v) \in Nat \ {0}
      BY <2>1, SpanType, SizeType DEF Types
    <3>2. CASE v = 1
      <4>1. Base(v) = dwCheckTime /\ q = dwCheckTime + Left(e)
        BY <2>1, <3>1, <3>2, SpanType DEF Base, Time
      <4>2. Span(v) * Size(v) = Size(v)
        BY <3>1, <3>2, SpanType
      <4> QED BY <2>1, <3>1, <4>1, <4>2
    <3>3. CASE v # 1
      <4>0. PICK k \in Int : k = dwCheckTime \div Span(v)
        BY <2>1, Quotients
      <4>1. /\ v \in 2 .. 5 /\ k + 1 <= q /\ q <= k + Size(v)
            /\ dwCheckTime % Span(v) = 0 => q < k + Size(v)
        BY <1>2, <3>3, <4>0, AddedAhead
      <4>2. q \in Int
        BY <2>1, Quotients
      <4>3. Base(v) = k + (IF Cascaded(v) THEN 1 ELSE 0)
        BY <4>0, <4>1 DEF Base
      <4>4. ~ Cascaded(v) => dwCheckTime % Span(v) = 0
        BY DEF Cascaded
      <4> HIDE DEF v, q
      <4> QED BY <3>1, <4>1, <4>2, <4>3, <4>4
    <3> QED BY <3>2, <3>3
  <2> HIDE DEF v
  <2> QED BY <1>2, <2>2, <2>4, <2>5 DEF AtHome
<1> QED BY <1>1, <1>2

\* A cascaded node does not go back to the slot that is emptied.
LEMMA NotBack ==
  ASSUME Types, Aligned, pc = "cascade", NEW e \in 0 .. Word - 1
  PROVE  Vec(e) # CascadeHead
<1> SUFFICES ASSUME Vec(e) = <<n, iIndex[n]>>
             PROVE  FALSE
  BY DEF CascadeHead
<1>1. n \in 2 .. 5 /\ dwCheckTime % Span(n) = 0
  BY DEF Aligned
<1>2. Vec(e) \in Slots
  BY <1>1, StandsAtSlot
<1>3. ~ Late(e) /\ n = WheelFor(Left(e))
  BY <1>1, VecIs
<1>4. PICK k \in Int : k = dwCheckTime \div Span(n)
  BY <1>1, Quotients
<1>5. PICK q \in Int : q = Time(e) \div Span(n)
  BY <1>1, Quotients
<1>6. k + 1 <= q /\ q < k + Size(n)
  BY <1>1, <1>3, <1>4, <1>5, AddedAhead
<1>7. iIndex[n] = k % Size(n)
  <2>1. ~ Cascaded(n)
    BY <1>1 DEF Cascaded
  <2>2. Base(n) = k
    BY <1>4, <2>1 DEF Base
  <2> QED BY <1>1, <2>2 DEF Aligned
<1>8. q % Size(n) = iIndex[n]
  <2>1. AtHome(<<n, iIndex[n]>>, e)
    BY <1>2, AddedAtHome
  <2> QED BY <1>3, <1>5, <2>1 DEF AtHome
<1>9. Size(n) \in Nat \ {0}
  BY <1>1, SizeType
<1>10. q = k
  BY <1>6, <1>7, <1>8, <1>9, WithinTurn
<1> QED BY <1>6, <1>10

\* From tv3 on a cascade adds no node where tv4.iIndex lies.
LEMMA NoTrapAbove ==
  ASSUME Types, Aligned, pc = "cascade", n # 2, NEW e \in 0 .. Word - 1, Vec(e)[1] = 2
  PROVE  (e \div TVR_SIZE) % TVR_SIZE # 2 * TVN_SIZE
<1> SUFFICES ASSUME (e \div TVR_SIZE) % TVR_SIZE = 2 * TVN_SIZE
             PROVE  FALSE
  OBVIOUS
<1>0. TVN_SIZE \in Nat \ {0} /\ TVR_SIZE = 4 * TVN_SIZE /\ Span(2) = TVR_SIZE /\ Size(2) = TVN_SIZE
  BY TimerAssumption, SpanType DEF Size
<1>1. dwCheckTime % Span(2) = 0 /\ (dwCheckTime \div Span(2)) % Size(2) = 0
  <2>1. dwCheckTime \in Nat /\ n \in 3 .. 5 /\ dwCheckTime % Span(n) = 0
    BY DEF Aligned, Types
  <2>2. dwCheckTime % Span(3) = 0
    BY <2>1, SpansNest
  <2>3. 2 \in 1 .. 4 /\ 2 + 1 = 3
    OBVIOUS
  <2> QED BY <2>1, <2>2, <2>3, SpansNest
<1>2. ~ Late(e) /\ 2 = WheelFor(Left(e))
  BY VecRange, VecIs
<1>4. PICK k \in Int : k = dwCheckTime \div Span(2)
  BY Quotients
<1>5. PICK q \in Int : q = Time(e) \div Span(2)
  BY Quotients
<1>6. k + 1 <= q /\ q < k + Size(2)
  BY <1>1, <1>2, <1>4, <1>5, AddedAhead
<1>7. q % Size(2) = 0
  <2>1. q % Size(2) = (e \div Span(2)) % Size(2)
    BY <1>5, TimeSlot
  <2>2. PICK r \in Int : r = e \div TVR_SIZE
    BY <1>0, Quotients
  <2>3. (r % TVR_SIZE) % TVN_SIZE = r % TVN_SIZE
    BY <1>0, ModMod
  <2>4. (2 * TVN_SIZE) % TVN_SIZE = 0
    <3>1. 2 * TVN_SIZE = TVN_SIZE * 2 + 0 /\ 2 * TVN_SIZE \in Int /\ 0 \in 0 .. TVN_SIZE - 1
      BY <1>0
    <3> QED BY <1>0, <3>1, Unique
  <2> QED BY <1>0, <2>1, <2>2, <2>3, <2>4
<1>8. k % Size(2) = q % Size(2)
  BY <1>1, <1>4, <1>7
<1>10. q = k
  BY <1>0, <1>6, <1>8, WithinTurn
<1> QED BY <1>6, <1>10

------------------------------------------------------------------------------
\* The elements of the rings: the slots and the armed nodes.
LEMMA LinkedHeads ==
  armed \subseteq Nodes => /\ Linked \subseteq Heads /\ Slots \subseteq Linked
                           /\ Linked \ Slots = armed /\ armed \cap Slots = {}
                           /\ NULL \notin Heads
BY HeadsAssumption DEF Linked, Heads

\* The cascade stands at a node of the slot it empties, or at the slot.
LEMMA Cursor ==
  ASSUME Types, Counts, Cascade, pc = "cascade", n \in 2 .. 5, pstCur # CascadeHead,
         NEW loc, Ring(Nx, Pv, Linked, loc)
  PROVE  /\ CascadeHead \in Slots
         /\ pstCur \in armed /\ loc[pstCur] = CascadeHead
         /\ Nx[CascadeHead] = pstCur /\ Pv[pstCur] = CascadeHead
         /\ Nx[pstCur] = next[pstCur]
<1>1. CascadeHead \in Slots
  BY StandsAtSlot DEF CascadeHead
<1>2. armed \subseteq Nodes /\ pstCur \in Linked
  BY DEF Counts, Cascade
<1>3. Nx[CascadeHead] = pstCur /\ Pv[pstCur] = CascadeHead /\ Nx[pstCur] = next[pstCur]
  BY <1>1, <1>2, LinkedHeads DEF Nx, Pv, Types
<1>4. loc[pstCur] = CascadeHead
  BY <1>1, <1>2, <1>3, LinkedHeads DEF Ring
<1>5. pstCur \notin Slots
  BY <1>4 DEF Ring
<1> QED BY <1>1, <1>2, <1>3, <1>4, <1>5, LinkedHeads

\* The words of the slots past the end of tv2.
LEMMA PastTv2 ==
  ASSUME Types, NEW e \in 0 .. Word - 1, Vec(e) \notin Slots
  PROVE  \/ Vec(e)[2] = 2 * TVN_SIZE /\ VecPrev(Vec(e)) = NULL
         \/ /\ Vec(e)[2] # 2 * TVN_SIZE
            /\ \E s \in Slots : VecPrev(Vec(e)) = next[s] \/ VecPrev(Vec(e)) = prev[s]
<1> DEFINE S == TVN_SIZE
<1>0. S \in Nat \ {0, 1}
  BY TimerAssumption
<1>1. PICK i \in S .. (4 * S - 1) : i = Vec(e)[2]
  BY VecRange
<1>2. \A k \in 0 .. S - 1 : <<3, k>> \in Slots /\ <<4, k>> \in Slots /\ <<5, k>> \in Slots
  <2> TAKE k \in 0 .. S - 1
  <2>1. k \in Int /\ Size(3) = S /\ Size(4) = S /\ Size(5) = S
    BY <1>0 DEF Size
  <2> QED BY <2>1, SlotIn
<1> HIDE DEF S
<1>3. CASE i \in S .. 2 * S - 1
  <2>1. VecPrev(Vec(e)) = next[<<3, i - S>>]
    BY <1>0, <1>1, <1>3 DEF VecPrev, S
  <2>2. i - S \in 0 .. S - 1 /\ i # 2 * S
    BY <1>0, <1>3
  <2>4. <<3, i - S>> \in Slots
    BY <1>2, <2>2, Zenon
  <2>3. \E s \in Slots : VecPrev(Vec(e)) = next[s] \/ VecPrev(Vec(e)) = prev[s]
    BY <2>1, <2>4, Zenon
  <2> QED BY <1>1, <2>2, <2>3 DEF S
<1>4. CASE i = 2 * S
  <2>1. VecPrev(Vec(e)) = NULL
    BY <1>0, <1>1, <1>4 DEF VecPrev, S
  <2> QED BY <1>1, <1>4, <2>1 DEF S
<1>5. CASE i \in 2 * S + 1 .. 3 * S
  <2>1. VecPrev(Vec(e)) = prev[<<4, i - 2 * S - 1>>]
    BY <1>0, <1>1, <1>5 DEF VecPrev, S
  <2>2. i - 2 * S - 1 \in 0 .. S - 1 /\ i # 2 * S
    BY <1>0, <1>5
  <2>4. <<4, i - 2 * S - 1>> \in Slots
    BY <1>2, <2>2, Zenon
  <2>3. \E s \in Slots : VecPrev(Vec(e)) = next[s] \/ VecPrev(Vec(e)) = prev[s]
    BY <2>1, <2>4, Zenon
  <2> QED BY <1>1, <2>2, <2>3 DEF S
<1>6. CASE i \in 3 * S + 1 .. 4 * S - 1
  <2>1. VecPrev(Vec(e)) = next[<<5, i - 3 * S - 1>>]
    BY <1>0, <1>1, <1>6 DEF VecPrev, S
  <2>2. i - 3 * S - 1 \in 0 .. S - 1 /\ i # 2 * S
    BY <1>0, <1>6
  <2>4. <<5, i - 3 * S - 1>> \in Slots
    BY <1>2, <2>2, Zenon
  <2>3. \E s \in Slots : VecPrev(Vec(e)) = next[s] \/ VecPrev(Vec(e)) = prev[s]
    BY <2>1, <2>4, Zenon
  <2> QED BY <1>1, <2>2, <2>3 DEF S
<1> QED BY <1>0, <1>1, <1>3, <1>4, <1>5, <1>6

\* Where a node is linked in: never behind the slot that is being emptied.
LEMMA PrevIs ==
  ASSUME Types, Counts, Cascade,
         pc = "cascade" => n \in 2 .. 5 /\ pstCur # CascadeHead,
         NEW loc, Ring(Nx, Pv, Linked, loc),
         NEW e \in 0 .. Word - 1, NEW p, p = VecPrev(Vec(e)), p # NULL
  PROVE  /\ p \in Linked
         /\ pc = "cascade" => p # CascadeHead
         /\ Vec(e) \in Slots => loc[p] = Vec(e)
         /\ loc[p] \in Slots /\ loc[p][1] = 2 =>
              (e \div TVR_SIZE) % TVR_SIZE # 2 * TVN_SIZE
<1>0. armed \subseteq Nodes /\ TVN_SIZE \in Nat \ {0}
  BY TimerAssumption DEF Counts
<1>1. pc = "cascade" => /\ CascadeHead \in Slots /\ pstCur \in armed
                        /\ loc[pstCur] = CascadeHead
                        /\ Nx[CascadeHead] = pstCur /\ next[CascadeHead] \in armed
  BY Cursor DEF Cascade
<1>2. ASSUME NEW s \in Slots
      PROVE  /\ prev[s] \in Linked /\ loc[prev[s]] = s
             /\ pc = "cascade" => prev[s] # CascadeHead
  <2>1. prev[s] = Pv[s] /\ s \in Linked
    BY <1>0, <1>1, LinkedHeads DEF Pv, Types, Heads
  <2>2. Pv[s] \in Linked /\ Nx[Pv[s]] = s /\ loc[Pv[s]] = s
    BY <2>1, RingBack DEF Ring
  <2>3. pc = "cascade" => Pv[s] # CascadeHead
    BY <2>2, <1>0, <1>1, LinkedHeads
  <2> QED BY <2>1, <2>2, <2>3
<1>3. ASSUME NEW s \in Slots
      PROVE  next[s] \in Linked /\ (pc = "cascade" => next[s] # CascadeHead)
  <2>1. CASE pc = "cascade" /\ s = CascadeHead
    BY <2>1, <1>0, <1>1, LinkedHeads DEF Linked
  <2>2. CASE ~(pc = "cascade" /\ s = CascadeHead)
    <3>1. next[s] = Nx[s] /\ s \in Linked
      BY <2>2, <1>0, LinkedHeads DEF Nx, Types, Heads
    <3>2. Nx[s] \in Linked /\ loc[Nx[s]] = s
      BY <3>1 DEF Ring
    <3>3. pc = "cascade" => Nx[s] # CascadeHead
      BY <3>2, <2>2, <1>1 DEF Ring
    <3> QED BY <3>1, <3>2, <3>3
  <2> QED BY <2>1, <2>2
<1>4. CASE Vec(e) \in Slots
  <2>1. p = prev[Vec(e)]
    BY <1>4 DEF VecPrev
  <2>2. p \in Linked /\ loc[p] = Vec(e) /\ (pc = "cascade" => p # CascadeHead)
    BY <1>2, <1>4, <2>1
  <2>3. Vec(e)[1] = 2 => (e \div TVR_SIZE) % TVR_SIZE # 2 * TVN_SIZE
    <3>1. Vec(e)[1] = 2 => Vec(e)[2] \in 0 .. TVN_SIZE - 1
      BY <1>4, SlotIn DEF Size
    <3>2. Vec(e)[1] = 2 => Vec(e)[2] = (e \div TVR_SIZE) % TVR_SIZE
      BY VecRange
    <3> HIDE DEF Vec
    <3> QED BY <1>0, <3>1, <3>2
  <2> QED BY <1>4, <2>2, <2>3
<1>5. CASE Vec(e) \notin Slots
  <2>1. /\ Vec(e)[2] # 2 * TVN_SIZE
        /\ \E s \in Slots : p = next[s] \/ p = prev[s]
    BY <1>5, PastTv2
  <2>2. p \in Linked /\ (pc = "cascade" => p # CascadeHead)
    BY <2>1, <1>2, <1>3
  <2>3. (e \div TVR_SIZE) % TVR_SIZE # 2 * TVN_SIZE
    BY <1>5, <2>1, VecRange
  <2> QED BY <1>5, <2>2, <2>3
<1> QED BY <1>4, <1>5

------------------------------------------------------------------------------
\* While the wheels and the counter stand, the slots in time are the same ones,
LEMMA HomeStays ==
  UNCHANGED <<dwCheckTime, iIndex, pc, n>> => HomeSlots' = HomeSlots
BY DEF HomeSlots, AtHome, Time, Left, Late, Base, Cascaded

\* and the wheels are aligned.
LEMMA AlignedStays ==
  Aligned /\ UNCHANGED <<dwCheckTime, iIndex, pc, n>> => Aligned'
BY DEF Aligned, Base, Cascaded

\* What the caller gives to Timer_Add: nodes of its own, and times modulo Word.
LEMMA LoadType ==
  ASSUME Types
  PROVE  /\ load.nodes \subseteq Nodes
         /\ \A t \in load.timeOuts : Expires(t) \in 0 .. Word - 1
<1>1. load.nodes \subseteq Nodes /\ load.timeOuts \subseteq Nat
  BY TimerAssumption DEF Types
<1>2. ASSUME NEW t \in Nat PROVE Expires(t) \in 0 .. Word - 1
  BY SpanType DEF Types, Expires
<1> QED BY <1>1, <1>2

\* ListAdd, on the pointers as they are.
LinkedIn(p, x, nx2, pv2) ==
  /\ nx2 = [next EXCEPT ![x] = next[p], ![p] = x]
  /\ pv2 = [prev EXCEPT ![next[p]] = x, ![x] = p]

\* A node is linked in behind the last one of its slot.
LEMMA AddStep ==
  ASSUME Types, Counts, Cascade, pc # "cascade",
         NEW loc, Ring(Nx, Pv, Linked, loc),
         NEW x \in Nodes \ armed, NEW e \in 0 .. Word - 1,
         NEW p, p = VecPrev(Vec(e)), p # NULL, NEW nx2, NEW pv2,
         LinkedIn(p, x, nx2, pv2)
  PROVE  /\ p \in Linked
         /\ Ring(nx2, pv2, Linked \cup {x}, Moved(loc, x, loc[p]))
         /\ nx2 \in [Heads -> Heads \cup {NULL}] /\ pv2 \in [Heads -> Heads \cup {NULL}]
<1> USE DEF LinkedIn
<1>1. p \in Linked
  BY PrevIs
<1>2. Nx = next /\ Pv = prev
  BY DEF Nx, Pv
<1>3. Linked \subseteq Heads /\ x \in Heads /\ x \notin Linked \cup Slots
  BY LinkedHeads, HeadsAssumption DEF Counts, Heads, Linked
<1>4. next \in [Heads -> Heads \cup {NULL}] /\ prev \in [Heads -> Heads \cup {NULL}]
  BY DEF Types
<1>5. next[p] \in Linked
  BY <1>1, <1>2 DEF Ring
<1>6. nx2 \in [Heads -> Heads \cup {NULL}] /\ pv2 \in [Heads -> Heads \cup {NULL}]
  BY <1>1, <1>3, <1>4, <1>5
<1>7. PutBehind(next, prev, Linked, p, x, nx2, pv2)
  BY <1>1, <1>3, <1>4, <1>5 DEF PutBehind
<1>8. Ring(nx2, pv2, Linked \cup {x}, Moved(loc, x, loc[p]))
  <2>1. Ring(next, prev, Linked, loc)
    BY <1>2
  <2> QED BY <1>1, <1>3, <1>7, <2>1, RingInsert
<1> QED BY <1>1, <1>6, <1>8

\* Timer_Add.
LEMMA AddKeeps ==
  ASSUME IInv, NEW x \in load.nodes, NEW t \in load.timeOuts, Timer_Add(x, t)
  PROVE  IInv'
<1>0. Types /\ Counts /\ Aligned /\ Cascade
  BY DEF IInv
<1>1. PICK loc : Lists(loc)
  BY DEF IInv
<1>2. PICK e \in 0 .. Word - 1 : e = Expires(t)
  BY <1>0, LoadType
<1>3. PICK p : p = VecPrev(Vec(e))
  OBVIOUS
<1>4. /\ pc = "idle" /\ x \in Nodes \ armed /\ p # NULL
      /\ next' = [next EXCEPT ![x] = next[p], ![p] = x]
      /\ prev' = [prev EXCEPT ![next[p]] = x, ![x] = p]
      /\ misplaced' = IF Vec(e) \in Slots THEN misplaced ELSE misplaced \cup {x}
      /\ dwExpire' = [dwExpire EXCEPT ![x] = e]
      /\ armed' = armed \cup {x}
      /\ UNCHANGED <<iIndex, dwCheckTime, pc, n, pstCur, now, load>>
  BY <1>0, <1>2, <1>3, LoadType DEF Timer_Add, InternalAdd, ListAdd, locals
<1>5. PICK nx2, pv2 : /\ nx2 = next' /\ pv2 = prev'
                      /\ LinkedIn(p, x, nx2, pv2)
  BY <1>4 DEF LinkedIn
<1>6. /\ p \in Linked
      /\ Ring(nx2, pv2, Linked \cup {x}, Moved(loc, x, loc[p]))
      /\ nx2 \in [Heads -> Heads \cup {NULL}] /\ pv2 \in [Heads -> Heads \cup {NULL}]
  <2>1. Ring(Nx, Pv, Linked, loc) /\ pc # "cascade"
    BY <1>1, <1>4 DEF Lists
  <2> QED BY <1>0, <1>3, <1>4, <1>5, <2>1, AddStep
<1>7. PICK loc2 : loc2 = Moved(loc, x, loc[p])
  OBVIOUS
<1>8. Types'
  BY <1>0, <1>4, <1>5, <1>6 DEF Types
<1>9. Counts'
  <2>1. dwNodeCount' = dwNodeCount + 1
        /\ dwMaxNodeCount' = IF dwNodeCount' > dwMaxNodeCount THEN dwNodeCount' ELSE dwMaxNodeCount
    BY DEF Timer_Add
  <2>2. IsFiniteSet(armed \cup {x}) /\ Cardinality(armed \cup {x}) = Cardinality(armed) + 1
    BY <1>0, <1>4, FS_AddElement DEF Counts
  <2>3. Cardinality(armed) \in Nat
    BY <1>0, FS_CardinalityType DEF Counts
  <2> QED BY <1>0, <1>4, <2>1, <2>2, <2>3 DEF Counts
<1>10. Aligned' /\ Cascade'
  BY <1>0, <1>4, AlignedStays DEF Cascade
<1>11. Ring(Nx', Pv', Linked', loc2)
  <2>1. Nx' = nx2 /\ Pv' = pv2 /\ Linked' = Linked \cup {x}
    BY <1>4, <1>5 DEF Nx, Pv, Linked
  <2> QED BY <1>6, <1>7, <2>1
<1>12. /\ \A y \in armed : loc2[y] = loc[y] /\ dwExpire'[y] = dwExpire[y]
       /\ loc2[x] = loc[p] /\ dwExpire'[x] = e
  BY <1>0, <1>1, <1>4, <1>7 DEF Types, Counts, Lists, Ring, Heads, Moved
<1>13. Homes(loc2)'
  <2>1. HomeSlots' = HomeSlots
    BY <1>4, HomeStays
  <2>2. ASSUME NEW y \in armed' \ misplaced'
        PROVE  loc2[y] \in HomeSlots[dwExpire'[y]]
    <3>1. CASE y = x
      <4>1. Vec(e) \in Slots /\ loc[p] = Vec(e)
        BY <1>0, <1>1, <1>3, <1>4, <3>1, PrevIs DEF Lists
      <4>2. AtHome(Vec(e), e)
        BY <1>0, <4>1, AddedAtHome
      <4> QED BY <1>12, <3>1, <4>1, <4>2 DEF HomeSlots
    <3>2. CASE y # x
      BY <1>1, <1>4, <1>12, <3>2 DEF Lists, Homes
    <3> QED BY <3>1, <3>2
  <2> QED BY <2>1, <2>2 DEF Homes
<1>14. NoTrap(loc2)'
  <2>1. ASSUME NEW y \in armed', loc2[y] \in Slots, loc2[y][1] = 2
        PROVE  (dwExpire'[y] \div TVR_SIZE) % TVR_SIZE # 2 * TVN_SIZE
    <3>1. CASE y = x
      BY <1>0, <1>1, <1>3, <1>4, <1>12, <2>1, <3>1, PrevIs DEF Lists
    <3>2. CASE y # x
      BY <1>1, <1>4, <1>12, <2>1, <3>2 DEF Lists, NoTrap
    <3> QED BY <3>1, <3>2
  <2> QED BY <2>1 DEF NoTrap
<1> QED BY <1>8, <1>9, <1>10, <1>11, <1>13, <1>14 DEF IInv, Lists

\* Timer_Init.
LEMMA InitIInv ==
  Init => IInv
<1> SUFFICES ASSUME Init PROVE IInv
  OBVIOUS
<1> USE DEF Init, Timer_Init
<1>0. NULL \notin Heads /\ Nodes \cap Slots = {} /\ Slots \subseteq Heads
  BY HeadsAssumption DEF Heads
<1>1. Types
  <2>1. \A v \in 1 .. 5 : Size(v) \in Nat \ {0}
    BY SizeType
  <2>2. 0 \in 0 .. Word - 1
    BY SpanType
  <2>3. \A v \in 1 .. 5 : iIndex[v] \in 0 .. Size(v) - 1
    BY <2>1
  <2> QED BY <1>0, <2>2, <2>3 DEF Types, Heads
<1>2. Counts
  BY FS_EmptySet DEF Counts
<1>3. Aligned
  <2>1. ASSUME NEW v \in 1 .. 5 PROVE iIndex[v] = Base(v) % Size(v)
    <3>1. Span(v) \in Nat \ {0} /\ Size(v) \in Nat \ {0}
      BY SpanType, SizeType
    <3>2. 0 = Span(v) * 0 + 0 /\ 0 = Size(v) * 0 + 0
          /\ 0 \in 0 .. Span(v) - 1 /\ 0 \in 0 .. Size(v) - 1
      BY <3>1
    <3>3. 0 \div Span(v) = 0 /\ 0 % Span(v) = 0 /\ 0 % Size(v) = 0
      BY <3>1, <3>2, Unique
    <3>4. Base(v) = 0
      BY <3>3 DEF Base, Cascaded
    <3> QED BY <3>3, <3>4
  <2> QED BY <2>1 DEF Aligned
<1>4. Cascade
  BY DEF Cascade
<1>5. Lists([x \in Heads |-> x])
  <2> DEFINE loc == [x \in Heads |-> x]
             pos == [x \in Heads |-> 0]
  <2>1. Linked = Slots /\ Nx = next /\ Pv = prev
    BY DEF Linked, Nx, Pv
  <2>2. \A s \in Slots : next[s] = s /\ prev[s] = s
    BY <1>0
  <2>3. pos \in [Heads -> Nat] /\ Grows(prev, Slots, loc, pos)
    BY DEF Grows
  <2>4. Ring(next, prev, Slots, loc)
    BY <1>0, <2>2, <2>3 DEF Ring
  <2> QED BY <2>1, <2>4 DEF Lists, Homes, NoTrap
<1> QED BY <1>1, <1>2, <1>3, <1>4, <1>5 DEF IInv

\* The process starts over.
LEMMA RestartKeeps ==
  ASSUME IInv, Restart
  PROVE  IInv'
<1>1. Init'
  BY DEF IInv, Types, Init, Timer_Init, Restart
<1> QED BY <1>1, InitIInv, PTL

\* A crash in Timer_Add, by the caller or by a callback.
LEMMA CrashKeeps ==
  ASSUME IInv, NEW t, AddCrash(t) \/ FireCrash(t)
  PROVE  IInv'
<1>1. pc' = "dead" /\ pc # "cascade" /\ UNCHANGED <<wheels, n, pstCur, now, armed, misplaced, load>>
  BY DEF AddCrash, FireCrash, Crash
<1>2. PICK loc : Lists(loc)
  BY DEF IInv
<1>3. Types' /\ Counts' /\ Aligned' /\ Cascade'
  BY <1>1 DEF IInv, Types, Counts, Aligned, Cascade, wheels
<1>4. Lists(loc)'
  <2>1. Nx' = Nx /\ Pv' = Pv /\ Linked' = Linked
    BY <1>1 DEF Nx, Pv, Linked, wheels
  <2>2. Ring(Nx, Pv, Linked, loc)'
    BY <1>2, <2>1 DEF Lists
  <2>3. Homes(loc)' /\ NoTrap(loc)'
    BY <1>1, <1>2 DEF Lists, Homes, NoTrap, wheels
  <2> QED BY <2>2, <2>3 DEF Lists
<1> QED BY <1>3, <1>4 DEF IInv

\* Time passes.
LEMMA ClockKeeps ==
  ASSUME IInv, Clock
  PROVE  IInv'
<1>1. now' = now + 1 /\ UNCHANGED <<wheels, locals, armed, misplaced, load>>
  BY DEF Clock
<1>2. PICK loc : Lists(loc)
  BY DEF IInv
<1>3. Types' /\ Counts' /\ Cascade'
  BY <1>1 DEF IInv, Types, Counts, Cascade, CascadeHead, Linked, wheels, locals
<1>4. HomeSlots' = HomeSlots /\ Aligned'
  BY <1>1, HomeStays, AlignedStays DEF IInv, wheels, locals
<1>5. Lists(loc)'
  <2>1. Nx' = Nx /\ Pv' = Pv /\ Linked' = Linked
    BY <1>1 DEF Nx, Pv, CascadeHead, Linked, wheels, locals
  <2>2. Ring(Nx, Pv, Linked, loc)'
    BY <1>2, <2>1 DEF Lists
  <2>3. Homes(loc)' /\ NoTrap(loc)'
    BY <1>1, <1>2, <1>4 DEF Lists, Homes, NoTrap, wheels, locals
  <2> QED BY <2>2, <2>3 DEF Lists
<1> QED BY <1>3, <1>4, <1>5 DEF IInv

------------------------------------------------------------------------------
\* When a cascade begins, no node has been moved.
Begun ==
  /\ Types /\ Counts /\ pc = "cascade" /\ CascadeHead \in Slots
  /\ pstCur = next[CascadeHead] /\ \E loc : Ring(next, prev, Linked, loc)

\* Then the pointers are the rings'.
LEMMA CascadeBegins ==
  Begun => Nx = next /\ Pv = prev /\ Cascade
<1> SUFFICES ASSUME Types, Counts, pc = "cascade", CascadeHead \in Slots,
                    pstCur = next[CascadeHead], NEW loc, Ring(next, prev, Linked, loc)
             PROVE  Nx = next /\ Pv = prev /\ Cascade
  BY DEF Begun
<1>1. Linked \subseteq Heads /\ Slots \subseteq Linked /\ Linked \ Slots = armed
  BY LinkedHeads DEF Counts
<1>2. pstCur \in Linked /\ prev[pstCur] = CascadeHead /\ loc[pstCur] = CascadeHead
  BY <1>1 DEF Ring
<1>3. Nx = next /\ Pv = prev
  BY <1>1, <1>2 DEF Nx, Pv, Types
<1>4. Cascade
  BY <1>1, <1>2 DEF Cascade, Ring
<1> QED BY <1>3, <1>4

\* Timer_Check, up to its first node.
LEMMA CheckKeeps ==
  ASSUME IInv, Timer_Check
  PROVE  IInv'
<1>0. Types /\ Counts /\ Aligned /\ Cascade
  BY DEF IInv
<1>1. PICK loc : Lists(loc)
  BY DEF IInv
<1>2. pc = "idle" /\ UNCHANGED <<wheels, now, armed, misplaced, load>>
  BY DEF Timer_Check
<1>3. dwCheckTime \in Nat /\ TVR_SIZE \in Nat \ {0} /\ iIndex[1] = dwCheckTime % TVR_SIZE
  <2>1. dwCheckTime \in Nat /\ TVR_SIZE \in Nat \ {0}
    BY <1>0, TimerAssumption DEF Types
  <2>2. Base(1) = dwCheckTime /\ Size(1) = TVR_SIZE
    BY <2>1, SpanType DEF Base, Size
  <2> QED BY <1>0, <1>2, <2>1, <2>2 DEF Aligned
<1>4. CASE UNCHANGED <<pc, n, pstCur>>
  <2>1. Types' /\ Counts' /\ Cascade'
    BY <1>0, <1>2, <1>4 DEF Types, Counts, Cascade, wheels
  <2>2. HomeSlots' = HomeSlots /\ Aligned'
    BY <1>0, <1>2, <1>4, HomeStays, AlignedStays DEF wheels
  <2>3. Nx' = Nx /\ Pv' = Pv /\ Linked' = Linked
    BY <1>2, <1>4 DEF Nx, Pv, Linked, wheels
  <2>4. Ring(Nx, Pv, Linked, loc)'
    BY <1>1, <2>3 DEF Lists
  <2>5. Homes(loc)' /\ NoTrap(loc)'
    BY <1>1, <1>2, <1>4, <2>2 DEF Lists, Homes, NoTrap, wheels
  <2> QED BY <2>1, <2>2, <2>4, <2>5 DEF IInv, Lists
<1>5. ASSUME \/ iIndex[1] = 0 /\ pc' = "cascade" /\ n' = 2
             \/ iIndex[1] # 0 /\ pc' = "fire" /\ UNCHANGED n
      PROVE  HomeSlots' = HomeSlots /\ Aligned'
  <2>1. ASSUME NEW v \in 1 .. 5 PROVE Base(v)' = Base(v)
    <3>1. CASE v = 1
      BY <1>2, <3>1 DEF Base, wheels
    <3>2. CASE v # 1 /\ iIndex[1] = 0
      BY <1>2, <1>5, <3>2 DEF Base, Cascaded, wheels
    <3>3. CASE v # 1 /\ iIndex[1] # 0
      <4>1. dwCheckTime % Span(2) # 0
        BY <1>3, <3>3, SpanType
      <4>2. dwCheckTime % Span(v) # 0
        BY <1>3, <3>3, <4>1, SpansNest
      <4> QED BY <1>2, <1>5, <4>2 DEF Base, Cascaded, wheels
    <3> QED BY <3>1, <3>2, <3>3
  <2>2. ASSUME NEW s \in Slots, NEW e \in 0 .. Word - 1
        PROVE  AtHome(s, e)' <=> AtHome(s, e)
    <3>1. Base(s[1])' = Base(s[1])
      BY <2>1, SlotIn
    <3> HIDE DEF Base
    <3> QED BY <1>2, <3>1 DEF AtHome, Time, Left, Late, wheels
  <2>3. HomeSlots' = HomeSlots
    BY <2>2 DEF HomeSlots
  <2>4. \A v \in 1 .. 5 : iIndex'[v] = Base(v)' % Size(v)
    BY <1>0, <1>2, <2>1 DEF Aligned, wheels
  <2>5. pc' = "cascade" => n' = 2 /\ dwCheckTime' % Span(2) = 0
    BY <1>2, <1>3, <1>5, SpanType DEF wheels
  <2> QED BY <2>3, <2>4, <2>5 DEF Aligned
<1>6. CASE iIndex[1] = 0 /\ pc' = "cascade" /\ n' = 2 /\ pstCur' = next[<<2, iIndex[2]>>]
  <2>1. HomeSlots' = HomeSlots /\ Aligned'
    BY <1>5, <1>6
  <2>2. CascadeHead' = <<2, iIndex[2]>> /\ <<2, iIndex[2]>> \in Slots
    BY <1>0, <1>2, <1>6, StandsAtSlot DEF CascadeHead, wheels
  <2>3. Nx = next /\ Pv = prev /\ Linked' = Linked /\ next' = next /\ prev' = prev
    BY <1>2 DEF Nx, Pv, Linked, wheels
  <2>4. pstCur' \in Linked
    BY <1>1, <1>6, <2>2, <2>3 DEF Lists, Ring, Linked
  <2>5. Types' /\ Counts'
    BY <1>0, <1>2, <1>6, <2>4, LinkedHeads DEF Types, Counts, wheels
  <2>6. Ring(next, prev, Linked, loc)'
    BY <1>1, <2>3 DEF Lists
  <2>7. Begun'
    BY <1>6, <2>2, <2>3, <2>5, <2>6 DEF Begun
  <2>8. (Nx = next /\ Pv = prev /\ Cascade)'
    BY <2>7, CascadeBegins, PTL
  <2>9. Ring(Nx, Pv, Linked, loc)'
    BY <1>1, <2>3, <2>8 DEF Lists
  <2>10. Homes(loc)' /\ NoTrap(loc)'
    BY <1>1, <1>2, <1>6, <2>1 DEF Lists, Homes, NoTrap, wheels
  <2> QED BY <2>1, <2>5, <2>8, <2>9, <2>10 DEF IInv, Lists
<1>7. CASE iIndex[1] # 0 /\ pc' = "fire" /\ UNCHANGED <<n, pstCur>>
  <2>1. HomeSlots' = HomeSlots /\ Aligned'
    BY <1>5, <1>7
  <2>2. Types' /\ Counts' /\ Cascade'
    BY <1>0, <1>2, <1>7 DEF Types, Counts, Cascade, wheels
  <2>3. Nx' = Nx /\ Pv' = Pv /\ Linked' = Linked
    BY <1>2, <1>7 DEF Nx, Pv, Linked, wheels
  <2>4. Ring(Nx, Pv, Linked, loc)'
    BY <1>1, <2>3 DEF Lists
  <2>5. Homes(loc)' /\ NoTrap(loc)'
    BY <1>1, <1>2, <1>7, <2>1 DEF Lists, Homes, NoTrap, wheels
  <2> QED BY <2>1, <2>2, <2>4, <2>5 DEF IInv, Lists
<1> QED BY <1>4, <1>6, <1>7 DEF Timer_Check, BeginTick

\* A node is moved out of the slot that is cascaded, and in behind p: only its
\* own pointers and those around p are written.
LEMMA MoveStep ==
  ASSUME NEW E, E \subseteq Heads, NEW nx, NEW pv, NEW loc, Ring(nx, pv, E, loc),
         NEW h \in Slots \cap E, NEW x \in E \ Slots, nx[h] = x, NEW p \in E, p # h,
         NEW nx2, NEW pv2,
         \A y \in E : nx2[y] = IF y = p THEN x ELSE IF y = x THEN nx[p]
                               ELSE IF y = h THEN nx[x] ELSE nx[y],
         \A y \in E : pv2[y] = IF y = nx[x] THEN h ELSE IF y = x THEN p
                               ELSE IF y = nx[p] THEN x ELSE pv[y]
  PROVE  Ring(nx2, pv2, E, Moved(loc, x, IF p = x THEN x ELSE loc[p]))
<1> DEFINE E1 == E \ {x}
           nx1 == [y \in E |-> IF y = h THEN nx[x] ELSE nx[y]]
           pv1 == [y \in E |-> IF y = nx[x] THEN h ELSE pv[y]]
<1>1. pv[x] = h /\ h \in E /\ x # h /\ x \in Heads /\ x \notin Slots /\ h \in E1
  BY DEF Ring
<1>2. nx[x] \in E /\ nx[x] # x
  BY <1>1 DEF Ring
<1>3. Ring(nx1, pv1, E1, loc)
  <2>1. Taken(nx, pv, E, x, nx1, pv1)
    BY <1>1, <1>2 DEF Taken
  <2> HIDE DEF nx1, pv1
  <2> QED BY <2>1, RingRemove
<1>4. E1 \subseteq Heads /\ E1 \cup {x} = E /\ x \notin E1 \cup Slots
  BY <1>1
<1>5. CASE p = x
  <2>1. PutAlone(nx1, pv1, E1, x, nx2, pv2)
    BY <1>1, <1>2, <1>5 DEF PutAlone, Ring
  <2> HIDE DEF nx1, pv1, E1
  <2>2. Ring(nx2, pv2, E1 \cup {x}, Moved(loc, x, x))
    BY <1>1, <1>3, <1>4, <2>1, RingAlone
  <2> QED BY <1>4, <1>5, <2>2
<1>6. CASE p # x
  <2>1. nx1[p] = nx[p] /\ nx[p] \in E /\ nx[p] # x /\ nx[p] # nx[x]
    BY <1>1, <1>6 DEF Ring
  <2>2. PutBehind(nx1, pv1, E1, p, x, nx2, pv2)
    BY <1>1, <1>2, <1>6, <2>1 DEF PutBehind
  <2> HIDE DEF nx1, pv1, E1
  <2>3. p \in E1
    BY <1>6 DEF E1
  <2>4. Ring(nx2, pv2, E1 \cup {x}, Moved(loc, x, loc[p]))
    BY <1>1, <1>3, <1>4, <2>2, <2>3, RingInsert
  <2> QED BY <1>4, <1>6, <2>4
<1> QED BY <1>5, <1>6

\* Timer_CascadeTimers, one node.
LEMMA CascadeNodeKeeps ==
  ASSUME IInv, CascadeNode
  PROVE  IInv'
<1>0. Types /\ Counts /\ Aligned /\ Cascade /\ pc = "cascade" /\ pstCur # CascadeHead
  BY DEF IInv, CascadeNode
<1>1. PICK loc : Lists(loc)
  BY DEF IInv
<1>2. PICK h : h = CascadeHead
  OBVIOUS
<1>3. n \in 2 .. 5
  BY <1>0 DEF Aligned
<1>4. h \in Slots /\ pstCur \in armed /\ loc[pstCur] = h /\ Nx[h] = pstCur /\ Pv[pstCur] = h
      /\ Nx[pstCur] = next[pstCur] /\ next[h] \in armed
  BY <1>0, <1>1, <1>2, <1>3, Cursor DEF Lists, Cascade
<1>5. PICK x : x = pstCur
  OBVIOUS
<1>6. armed \subseteq Nodes /\ Linked \subseteq Heads /\ Slots \subseteq Linked
      /\ Linked \ Slots = armed /\ armed \cap Slots = {} /\ NULL \notin Heads
  BY <1>0, LinkedHeads DEF Counts
<1>7. PICK e \in 0 .. Word - 1 : e = dwExpire[x]
  BY <1>0, <1>4, <1>5, <1>6 DEF Types
<1>8. PICK p : p = VecPrev(Vec(e))
  OBVIOUS
<1>9. /\ p # NULL
      /\ next' = [next EXCEPT ![x] = next[p], ![p] = x]
      /\ prev' = [prev EXCEPT ![next[p]] = x, ![x] = p]
      /\ misplaced' = IF Vec(e) \in Slots THEN misplaced ELSE misplaced \cup {x}
      /\ pstCur' = next[x]
      /\ UNCHANGED <<iIndex, dwCheckTime, dwNodeCount, dwMaxNodeCount, dwExpire,
                     pc, dwCurTime, n, now, armed, load>>
  BY <1>5, <1>7, <1>8 DEF CascadeNode, InternalAdd, ListAdd
<1>10. /\ p \in Linked /\ p # h
       /\ Vec(e) \in Slots => loc[p] = Vec(e)
       /\ loc[p] \in Slots /\ loc[p][1] = 2 =>
            (e \div TVR_SIZE) % TVR_SIZE # 2 * TVN_SIZE
  BY <1>0, <1>1, <1>2, <1>3, <1>8, <1>9, PrevIs DEF Lists
<1>11. Ring(Nx, Pv, Linked, loc)
  BY <1>1 DEF Lists
<1>12. x \in Linked \ Slots /\ h \in Slots \cap Linked /\ x # h /\ Nx[h] = x /\ Pv[x] = h
  BY <1>4, <1>5, <1>6
<1>13. next[p] = Nx[p] /\ next[x] = Nx[x] /\ Nx[p] \in Linked /\ Nx[x] \in Linked /\ Nx[x] # x
  BY <1>0, <1>2, <1>4, <1>5, <1>6, <1>10, <1>11, <1>12 DEF Nx, Types, Ring
<1>14. PICK loc2 : loc2 = Moved(loc, x, IF p = x THEN x ELSE loc[p])
  OBVIOUS
<1>15. CascadeHead' = h /\ Linked' = Linked
  BY <1>2, <1>9 DEF CascadeHead, Linked
<1>16. next' \in [Heads -> Heads \cup {NULL}] /\ prev' \in [Heads -> Heads \cup {NULL}]
  BY <1>0, <1>6, <1>9, <1>10, <1>12, <1>13 DEF Types
<1>17. Ring(Nx', Pv', Linked', loc2)
  <2>1. \A y \in Linked : Nx'[y] = IF y = p THEN x ELSE IF y = x THEN Nx[p]
                                   ELSE IF y = h THEN Nx[x] ELSE Nx[y]
    <3>1. Nx' = [next' EXCEPT ![h] = pstCur']
      BY <1>0, <1>9, <1>15 DEF Nx
    <3>2. \A y \in Heads : Nx'[y] = IF y = h THEN Nx[x] ELSE next'[y]
      BY <1>9, <1>13, <1>16, <3>1
    <3>3. \A y \in Heads : next'[y] = IF y = p THEN x ELSE IF y = x THEN Nx[p] ELSE next[y]
      BY <1>0, <1>9, <1>13 DEF Types
    <3>4. \A y \in Heads : y # h => Nx[y] = next[y]
      BY <1>0, <1>2 DEF Nx, Types
    <3> QED BY <1>6, <1>10, <1>12, <3>2, <3>3, <3>4
  <2>2. \A y \in Linked : Pv'[y] = IF y = Nx[x] THEN h ELSE IF y = x THEN p
                                   ELSE IF y = Nx[p] THEN x ELSE Pv[y]
    <3>1. Pv' = [prev' EXCEPT ![Nx[x]] = h]
      BY <1>0, <1>9, <1>13, <1>15 DEF Pv
    <3>2. \A y \in Heads : Pv'[y] = IF y = Nx[x] THEN h ELSE prev'[y]
      BY <1>16, <3>1
    <3>3. \A y \in Heads : prev'[y] = IF y = x THEN p ELSE IF y = Nx[p] THEN x ELSE prev[y]
      BY <1>0, <1>9, <1>13 DEF Types
    <3>4. \A y \in Heads : y # x => Pv[y] = prev[y]
      BY <1>0, <1>5 DEF Pv, Types
    <3> QED BY <1>6, <3>2, <3>3, <3>4
  <2>3. PICK nx, pv, nx2, pv2, E : nx = Nx /\ pv = Pv /\ nx2 = Nx' /\ pv2 = Pv' /\ E = Linked
    OBVIOUS
  <2>4. Ring(nx2, pv2, E, Moved(loc, x, IF p = x THEN x ELSE loc[p]))
    BY <1>6, <1>10, <1>11, <1>12, <2>1, <2>2, <2>3, MoveStep
  <2> QED BY <1>14, <1>15, <2>3, <2>4
<1>18. /\ \A y \in armed : y # x => loc2[y] = loc[y]
       /\ loc2[x] = IF p = x THEN x ELSE loc[p]
  BY <1>6, <1>11, <1>12, <1>14 DEF Ring, Moved
<1>19. Types'
  BY <1>0, <1>6, <1>9, <1>13, <1>16 DEF Types
<1>20. Counts' /\ Aligned'
  BY <1>0, <1>9, AlignedStays DEF Counts
<1>21. Cascade'
  <2>1. pstCur' \in Linked'
    BY <1>9, <1>13, <1>15
  <2>2. next'[h] = next[h]
    BY <1>0, <1>6, <1>9, <1>10, <1>12 DEF Types
  <2>3. prev'[next[x]] = x
    <3>1. prev[next[x]] = x
      BY <1>0, <1>5, <1>6, <1>11, <1>12, <1>13 DEF Pv, Types, Ring
    <3> QED BY <1>0, <1>6, <1>9, <1>12, <1>13, <3>1 DEF Types
  <2> QED BY <1>4, <1>9, <1>12, <1>15, <2>1, <2>2, <2>3 DEF Cascade, Linked
<1>22. Homes(loc2)'
  <2>1. HomeSlots' = HomeSlots
    BY <1>9, HomeStays
  <2>2. ASSUME NEW y \in armed' \ misplaced'
        PROVE  loc2[y] \in HomeSlots[dwExpire'[y]]
    <3>1. CASE y = x
      <4>1. Vec(e) \in Slots /\ loc[p] = Vec(e)
        BY <1>9, <1>10, <3>1
      <4>2. p # x
        BY <1>0, <1>2, <1>4, <1>5, <4>1, NotBack
      <4>3. AtHome(Vec(e), e)
        BY <1>0, <4>1, AddedAtHome
      <4> QED BY <1>7, <1>9, <1>18, <3>1, <4>1, <4>2, <4>3 DEF HomeSlots
    <3>2. CASE y # x
      BY <1>0, <1>1, <1>9, <1>18, <3>2 DEF Lists, Homes
    <3> QED BY <3>1, <3>2
  <2> QED BY <2>1, <2>2 DEF Homes
<1>23. NoTrap(loc2)'
  <2>1. ASSUME NEW y \in armed', loc2[y] \in Slots, loc2[y][1] = 2
        PROVE  (dwExpire'[y] \div TVR_SIZE) % TVR_SIZE # 2 * TVN_SIZE
    <3>1. CASE y = x
      BY <1>7, <1>9, <1>10, <1>12, <1>18, <2>1, <3>1
    <3>2. CASE y # x
      BY <1>1, <1>9, <1>18, <2>1, <3>2 DEF Lists, NoTrap
    <3> QED BY <3>1, <3>2
  <2> QED BY <2>1 DEF NoTrap
<1> QED BY <1>17, <1>19, <1>20, <1>21, <1>22, <1>23 DEF IInv, Lists

\* The wheel that was cascaded is a slot further, and the one above it is
\* cascaded next just when its own slot begins at this tick.
LEMMA CascadeTurn ==
  ASSUME Types, Aligned, pc = "cascade", UNCHANGED dwCheckTime,
         iIndex' = [iIndex EXCEPT ![n] = (@ + 1) % TVN_SIZE],
         \/ iIndex'[n] = 1 /\ n < 5 /\ pc' = "cascade" /\ n' = n + 1
         \/ ~(iIndex'[n] = 1 /\ n < 5) /\ pc' = "fire"
  PROVE  /\ Aligned'
         /\ \A e \in 0 .. Word - 1, s \in Slots :
              s \in HomeSlots[e] /\ s # CascadeHead => s \in HomeSlots'[e]
<1>0. PICK m \in 2 .. 5 : m = n
  BY DEF Aligned
<1>1. dwCheckTime \in Nat /\ dwCheckTime % Span(m) = 0 /\ ~ Cascaded(m)
  BY <1>0 DEF Aligned, Cascaded, Types
<1>2. Size(m) = TVN_SIZE /\ TVN_SIZE \in Nat \ {0, 1}
  BY TimerAssumption DEF Size
<1>3. PICK b \in Int : b = dwCheckTime \div Span(m)
  <2>1. dwCheckTime \in Int /\ Span(m) \in Nat \ {0}
    BY <1>1, SpanType
  <2> QED BY <2>1, DivMod
<1>4. Base(m) = b /\ iIndex[m] = b % TVN_SIZE
  BY <1>0, <1>1, <1>2, <1>3 DEF Base, Aligned
<1>5. iIndex'[m] = (b + 1) % TVN_SIZE
  <2>1. iIndex'[m] = ((b % TVN_SIZE) + 1) % TVN_SIZE
    BY <1>0, <1>4 DEF Types
  <2> QED BY <1>2, <2>1, ModStep
<1>6. iIndex'[m] = 1 <=> b % TVN_SIZE = 0
  <2>1. (b + 1) % TVN_SIZE = IF (b % TVN_SIZE) + 1 = TVN_SIZE THEN 0 ELSE (b % TVN_SIZE) + 1
    BY <1>2, ModNext
  <2>2. b % TVN_SIZE \in 0 .. TVN_SIZE - 1
    BY <1>2
  <2> QED BY <1>2, <1>5, <2>1, <2>2
<1>7. m < 5 => (dwCheckTime % Span(m + 1) = 0 <=> iIndex'[m] = 1)
  <2>1. m < 5 => m \in 1 .. 4
    OBVIOUS
  <2> QED BY <1>1, <1>2, <1>3, <1>6, <2>1, SpansNest
<1>8. ASSUME NEW v \in 1 .. 5
      PROVE  Base(v)' = IF v = m THEN b + 1 ELSE Base(v)
  <2>1. CASE v = m
    <3>1. Cascaded(v)'
      BY <1>0, <2>1 DEF Cascaded
    <3> QED BY <1>0, <1>3, <2>1, <3>1 DEF Base
  <2>2. CASE v < m
    BY <1>0, <2>2 DEF Base, Cascaded
  <2>3. CASE v > m /\ pc' = "cascade"
    BY <1>0, <2>3 DEF Base, Cascaded
  <2>4. CASE v > m /\ pc' = "fire"
    <3>1. m < 5 /\ v \in 2 .. 5 /\ m + 1 \in 2 .. 5 /\ m + 1 <= v
      BY <2>4
    <3>2. dwCheckTime % Span(m + 1) # 0
      BY <1>0, <1>7, <2>4, <3>1
    <3>3. dwCheckTime % Span(v) # 0
      BY <1>1, <3>1, <3>2, SpansNest
    <3> QED BY <2>4, <3>3 DEF Base, Cascaded
  <2> QED BY <2>1, <2>2, <2>3, <2>4
<1>9. Aligned'
  <2>1. \A v \in 1 .. 5 : iIndex'[v] = Base(v)' % Size(v)
    <3>1. TAKE v \in 1 .. 5
    <3>2. CASE v = m
      BY <1>2, <1>5, <1>8, <3>2
    <3>3. CASE v # m
      BY <1>0, <1>8, <3>3 DEF Aligned, Types
    <3> QED BY <3>2, <3>3
  <2>2. pc' = "cascade" => n' \in 2 .. 5 /\ dwCheckTime' % Span(n') = 0
    BY <1>0, <1>7
  <2> QED BY <2>1, <2>2 DEF Aligned
<1>10. ASSUME NEW e \in 0 .. Word - 1, NEW s \in Slots, AtHome(s, e), s # CascadeHead
       PROVE  AtHome(s, e)'
  <2>1. Time(e)' = Time(e) /\ (Late(e)' <=> Late(e)) /\ iIndex'[1] = iIndex[1]
    BY <1>0 DEF Time, Late, Left, Types
  <2>2. s[1] \in 1 .. 5 /\ s = <<s[1], s[2]>>
    BY SlotIn
  <2>3. CASE Late(e)
    BY <1>10, <2>1, <2>3 DEF AtHome
  <2>4. CASE ~ Late(e) /\ s[1] # m
    <3>1. Base(s[1])' = Base(s[1])
      BY <1>8, <2>2, <2>4
    <3> HIDE DEF Base
    <3> QED BY <1>10, <2>1, <2>4, <3>1 DEF AtHome
  <2>5. CASE ~ Late(e) /\ s[1] = m
    <3>1. PICK q \in Int : q = Time(e) \div Span(m)
      BY Quotients
    <3>2. q \in b .. (b + Size(m) - 1) /\ q % Size(m) = s[2]
      BY <1>4, <1>10, <2>5, <3>1 DEF AtHome
    <3>3. q # b
      <4>1. s = <<m, b % TVN_SIZE>> => s = CascadeHead
        BY <1>0, <1>4 DEF CascadeHead
      <4> QED BY <1>2, <1>10, <2>2, <2>5, <3>2, <4>1
    <3>4. q \in (b + 1) .. (b + 1 + Size(m) - 1)
      BY <1>2, <3>2, <3>3
    <3>5. Base(m)' = b + 1
      BY <1>8
    <3> HIDE DEF Base
    <3> QED BY <2>1, <2>5, <3>1, <3>2, <3>4, <3>5 DEF AtHome
  <2> QED BY <2>3, <2>4, <2>5
<1>11. \A e \in 0 .. Word - 1, s \in Slots :
         s \in HomeSlots[e] /\ s # CascadeHead => s \in HomeSlots'[e]
  BY <1>10 DEF HomeSlots
<1> QED BY <1>9, <1>11

\* Timer_CascadeTimers, when the slot has been gone through.
LEMMA CascadeDoneKeeps ==
  ASSUME IInv, CascadeDone
  PROVE  IInv'
<1>0. Types /\ Counts /\ Aligned /\ Cascade /\ pc = "cascade" /\ pstCur = CascadeHead
  BY DEF IInv, CascadeDone
<1>1. PICK loc : Lists(loc)
  BY DEF IInv
<1>2. PICK h : h = CascadeHead
  OBVIOUS
<1>3. n \in 2 .. 5 /\ h \in Slots
  BY <1>0, <1>2, StandsAtSlot DEF Aligned, CascadeHead
<1>4. armed \subseteq Nodes /\ Linked \subseteq Heads /\ Slots \subseteq Linked
      /\ Linked \ Slots = armed /\ armed \cap Slots = {} /\ NULL \notin Heads
  BY <1>0, LinkedHeads DEF Counts
<1>5. /\ next' = [next EXCEPT ![h] = h] /\ prev' = [prev EXCEPT ![h] = h]
      /\ iIndex' = [iIndex EXCEPT ![n] = (@ + 1) % TVN_SIZE]
      /\ \/ /\ iIndex'[n] = 1 /\ n < 5 /\ pc' = "cascade" /\ n' = n + 1
            /\ pstCur' = next[<<n + 1, iIndex[n + 1]>>]
         \/ ~(iIndex'[n] = 1 /\ n < 5) /\ pc' = "fire" /\ UNCHANGED <<n, pstCur>>
      /\ UNCHANGED <<dwCheckTime, dwNodeCount, dwMaxNodeCount, dwExpire,
                     dwCurTime, now, armed, misplaced, load>>
  BY <1>0, <1>2 DEF CascadeDone, INIT_LIST_HEAD, Turned
<1>6. Nx = next' /\ Pv = prev' /\ Linked' = Linked
  BY <1>0, <1>2, <1>5 DEF Nx, Pv, Linked
<1>7. Ring(next', prev', Linked, loc)
  BY <1>1, <1>6 DEF Lists
<1>8. \A y \in armed : loc[y] # h
  <2>1. Nx[h] = h
    BY <1>0, <1>2, <1>3, <1>4, <1>5, <1>6 DEF Types
  <2>2. Ring(Nx, Pv, Linked, loc)
    BY <1>1 DEF Lists
  <2> QED BY <1>3, <1>4, <2>1, <2>2, RingEmpty
<1>9. /\ Aligned'
      /\ \A e \in 0 .. Word - 1, s \in Slots :
           s \in HomeSlots[e] /\ s # CascadeHead => s \in HomeSlots'[e]
  BY <1>0, <1>5, CascadeTurn
<1>10. next' \in [Heads -> Heads \cup {NULL}] /\ prev' \in [Heads -> Heads \cup {NULL}]
  BY <1>0, <1>3, <1>4, <1>5 DEF Types
<1>11. iIndex' \in [1 .. 5 -> Nat] /\ \A v \in 1 .. 5 : iIndex'[v] \in 0 .. Size(v) - 1
  <2>1. (iIndex[n] + 1) % TVN_SIZE \in 0 .. TVN_SIZE - 1 /\ Size(n) = TVN_SIZE
    BY <1>0, <1>3, TimerAssumption DEF Types, Size
  <2>2. iIndex'[n] = (iIndex[n] + 1) % TVN_SIZE /\ \A v \in 1 .. 5 : v # n => iIndex'[v] = iIndex[v]
    BY <1>0, <1>3, <1>5 DEF Types
  <2>3. iIndex' \in [1 .. 5 -> Nat]
    BY <1>0, <1>5, <2>1 DEF Types
  <2> QED BY <1>0, <2>1, <2>2, <2>3 DEF Types
<1>12. Homes(loc)'
  <2>1. ASSUME NEW y \in armed \ misplaced
        PROVE  loc[y] \in HomeSlots'[dwExpire[y]]
    <3>1. loc[y] \in HomeSlots[dwExpire[y]] /\ loc[y] # CascadeHead /\ dwExpire[y] \in 0 .. Word - 1
      BY <1>0, <1>1, <1>2, <1>4, <1>8 DEF Lists, Homes, Types
    <3>2. loc[y] \in Slots
      BY <3>1 DEF HomeSlots
    <3> QED BY <1>9, <3>1, <3>2
  <2> QED BY <1>5, <2>1 DEF Homes
<1>13. NoTrap(loc)'
  BY <1>1, <1>5 DEF Lists, NoTrap
<1>14. CASE pc' = "fire"
  <2>1. Types' /\ Counts' /\ Cascade'
    BY <1>0, <1>5, <1>10, <1>11, <1>14 DEF Types, Counts, Cascade
  <2>2. Ring(Nx, Pv, Linked, loc)'
    BY <1>6, <1>7, <1>14 DEF Nx, Pv
  <2> QED BY <1>9, <1>12, <1>13, <2>1, <2>2 DEF IInv, Lists
<1>15. CASE pc' = "cascade"
  <2>1. n + 1 \in 2 .. 5 /\ n' = n + 1 /\ n # n + 1
    BY <1>3, <1>5, <1>15
  <2>2. CascadeHead' = <<n + 1, iIndex[n + 1]>> /\ CascadeHead' \in Slots /\ CascadeHead' # h
    <3>1. CascadeHead' = <<n + 1, iIndex[n + 1]>>
      BY <1>0, <1>5, <2>1 DEF CascadeHead, Types
    <3>2. <<n + 1, iIndex[n + 1]>> \in Slots
      BY <1>0, <2>1, StandsAtSlot
    <3>3. h = <<n, iIndex[n]>>
      BY <1>2 DEF CascadeHead
    <3> QED BY <2>1, <3>1, <3>2, <3>3
  <2>3. pstCur' = next'[CascadeHead']
    BY <1>0, <1>4, <1>5, <1>15, <2>2 DEF Types
  <2>4. pstCur' \in Linked
    BY <1>4, <1>7, <2>2, <2>3 DEF Ring
  <2>5. Types' /\ Counts'
    BY <1>0, <1>4, <1>5, <1>10, <1>11, <1>15, <2>1, <2>4 DEF Types, Counts
  <2>6. Ring(next, prev, Linked, loc)'
    BY <1>6, <1>7
  <2>7. Begun'
    BY <1>15, <2>2, <2>3, <2>5, <2>6 DEF Begun
  <2>8. (Nx = next /\ Pv = prev /\ Cascade)'
    BY <2>7, CascadeBegins, PTL
  <2>9. Ring(Nx, Pv, Linked, loc)'
    BY <2>6, <2>8
  <2> QED BY <1>9, <1>12, <1>13, <2>5, <2>8, <2>9 DEF IInv, Lists
<1> QED BY <1>5, <1>14, <1>15

------------------------------------------------------------------------------
\* The next tick, after which the counter may start over: it is a whole number
\* of turns of every wheel.
LEMMA Turn ==
  ASSUME NEW c \in Nat, NEW c2 \in Nat, NEW P \in Nat \ {0}, NEW m \in Int, c + 1 = c2 + P * m
  PROVE  /\ c2 \div P = ((c + 1) \div P) - m
         /\ (c2 \div P) + (IF c2 % P = 0 THEN 0 ELSE 1) = (c \div P) + 1 - m
<1>1. c2 \in Int /\ c \div P \in Int /\ c2 \div P \in Int /\ (c + 1) \div P \in Int
  BY DivMod
<1>2. (c2 + P * m) % P = c2 % P /\ (c2 + P * m) \div P = (c2 \div P) + m
  BY <1>1, Shift
<1>3. (c + 1) % P = c2 % P /\ (c + 1) \div P = (c2 \div P) + m
  BY <1>2
<1>4. (c + 1) \div P = (c \div P) + (IF (c + 1) % P = 0 THEN 1 ELSE 0)
  BY DivNext
<1> QED BY <1>1, <1>3, <1>4

\* The same, for a turn of the counter in turns of wheel v.
LEMMA TurnOf ==
  ASSUME NEW v \in 1 .. 5, NEW k \in Nat, NEW c \in Nat, NEW c2 \in Nat,
         c + 1 = c2 + Span(v) * (Size(v) * k)
  PROVE  /\ c2 \div Span(v) = ((c + 1) \div Span(v)) - Size(v) * k
         /\ (c2 \div Span(v)) + (IF c2 % Span(v) = 0 THEN 0 ELSE 1)
              = (c \div Span(v)) + 1 - Size(v) * k
<1>1. Span(v) \in Nat \ {0} /\ Size(v) \in Nat
  BY SpanType, SizeType
<1>2. PICK P \in Nat \ {0} : P = Span(v)
  BY <1>1
<1>3. PICK m \in Int : m = Size(v) * k
  BY <1>1
<1>4. c + 1 = c2 + P * m
  BY <1>2, <1>3
<1>5. /\ c2 \div P = ((c + 1) \div P) - m
      /\ (c2 \div P) + (IF c2 % P = 0 THEN 0 ELSE 1) = (c \div P) + 1 - m
  BY <1>4, Turn
<1> QED BY <1>2, <1>3, <1>5

\* A node that is not in the slot of this tick is due later.
LEMMA Waits ==
  ASSUME Types, Aligned, pc = "fire", NEW e \in 0 .. Word - 1, NEW s \in HomeSlots[e],
         s # <<1, iIndex[1]>>
  PROVE  ~ Late(e) /\ Left(e) >= 1
<1>1. s \in Slots /\ AtHome(s, e)
  BY DEF HomeSlots
<1>2. ~ Late(e)
  BY <1>1 DEF AtHome
<1>3. ASSUME Left(e) = 0 PROVE FALSE
  <2>0. Time(e) = dwCheckTime
    BY <1>3 DEF Time, Types
  <2>1. PICK v \in 1 .. 5 : v = s[1] /\ s = <<v, s[2]>>
    BY <1>1, SlotIn
  <2>2. PICK b \in Int : b = dwCheckTime \div Span(v)
    BY Quotients
  <2>3. b \in Base(v) .. (Base(v) + Size(v) - 1) /\ b % Size(v) = s[2]
    BY <1>1, <1>2, <2>0, <2>1, <2>2 DEF AtHome
  <2>4. CASE v = 1
    <3>1. Base(v) = b
      BY <2>2, <2>4 DEF Base
    <3>2. iIndex[1] = b % Size(1)
      BY <2>4, <3>1 DEF Aligned
    <3> QED BY <2>1, <2>3, <2>4, <3>2
  <2>5. CASE v # 1
    <3>1. Base(v) = b + 1
      BY <2>2, <2>5 DEF Base, Cascaded
    <3> QED BY <2>3, <3>1
  <2> QED BY <2>4, <2>5
<1>4. Left(e) \in Nat
  BY TimeOf, SpanType
<1> QED BY <1>2, <1>3, <1>4

\* What TickDone does to the counter and the wheels.
TickNext ==
  /\ dwCheckTime' = (dwCheckTime + 1) % Word
  /\ iIndex' = [iIndex EXCEPT ![1] = (@ + 1) % TVR_SIZE]
  /\ \/ pc' = "idle"
     \/ pc' = "cascade" /\ iIndex'[1] = 0 /\ n' = 2
     \/ pc' = "fire" /\ iIndex'[1] # 0

\* Every wheel stays where it is, as the new tick tells, but the root is a slot
\* further; the nodes of the other slots are as far ahead as before.
LEMMA TickTurn ==
  ASSUME Types, Aligned, pc = "fire", TickNext
  PROVE  /\ Aligned'
         /\ \A e \in 0 .. Word - 1, s \in Slots :
              s \in HomeSlots[e] /\ s # <<1, iIndex[1]>> => s \in HomeSlots'[e]
<1> USE DEF TickNext
<1>0. PICK c \in 0 .. Word - 1 : c = dwCheckTime
  BY DEF Types
<1>1. Word \in Nat \ {0} /\ TVR_SIZE \in Nat \ {0} /\ Size(1) = TVR_SIZE
      /\ Span(1) = 1 /\ Span(2) = TVR_SIZE
  BY SpanType, TimerAssumption DEF Size
<1>2. PICK c2 \in 0 .. Word - 1 : c2 = dwCheckTime'
  BY <1>0, <1>1
<1>3. PICK w \in {0, Word} : c + 1 = c2 + w
  <2>1. c2 = IF c + 1 = Word THEN 0 ELSE c + 1
    <3>1. c \in Int /\ c % Word = c
      BY <1>1
    <3>2. (c + 1) % Word = IF (c % Word) + 1 = Word THEN 0 ELSE (c % Word) + 1
      BY <1>1, <3>1, ModNext
    <3>3. c2 = (c + 1) % Word
      BY <1>0, <1>2
    <3> QED BY <3>1, <3>2, <3>3
  <2>2. c \in Int
    BY <1>1
  <2> QED BY <1>1, <2>1, <2>2
<1>4. \A v \in 1 .. 5 : \E k \in Nat : w = Span(v) * (Size(v) * k)
  <2> TAKE v \in 1 .. 5
  <2>1. PICK m \in Nat \ {0} : Word = Span(v) * Size(v) * m
    BY WordTurns
  <2>2. Span(v) \in Nat /\ Size(v) \in Nat
    BY SpanType, SizeType
  <2>3. Word = Span(v) * (Size(v) * m) /\ 0 = Span(v) * (Size(v) * 0)
    BY <2>1, <2>2
  <2> QED BY <1>3, <2>1, <2>3
<1>5. iIndex'[1] = c2 % TVR_SIZE
  <2>1. Base(1) = c
    BY <1>0, <1>1 DEF Base
  <2>2. iIndex[1] = c % TVR_SIZE
    BY <1>1, <2>1 DEF Aligned
  <2>3. iIndex'[1] = ((c % TVR_SIZE) + 1) % TVR_SIZE
    BY <2>2 DEF Types
  <2>4. iIndex'[1] = (c + 1) % TVR_SIZE
    <3>1. c \in Int
      BY <1>1
    <3> QED BY <1>1, <2>3, <3>1, ModStep
  <2>5. PICK k \in Nat : w = Span(1) * (Size(1) * k)
    BY <1>4
  <2>6. c + 1 = c2 + TVR_SIZE * k
    BY <1>1, <1>3, <2>5
  <2>7. (c2 + TVR_SIZE * k) % TVR_SIZE = c2 % TVR_SIZE
    BY <1>1, <1>2, <2>5, Shift
  <2> QED BY <2>4, <2>6, <2>7
<1>6. \A v \in 2 .. 5 : Cascaded(v)' <=> c2 % Span(v) # 0
  <2> TAKE v \in 2 .. 5
  <2>1. pc' = "fire" => c2 % Span(2) # 0
    BY <1>1, <1>5
  <2>2. pc' = "fire" => c2 % Span(v) # 0
    BY <1>2, <2>1, SpansNest
  <2> QED BY <1>2, <2>2 DEF Cascaded
<1>7. ASSUME NEW v \in 1 .. 5, NEW k \in Nat, w = Span(v) * (Size(v) * k)
      PROVE  /\ Base(v) \in Int
             /\ Base(v)' = Base(v) + (IF v = 1 THEN 1 ELSE 0) - Size(v) * k
  <2>1. Span(v) \in Nat \ {0} /\ Size(v) \in Nat \ {0} /\ c \in Nat /\ c2 \in Nat
    BY <1>1, SpanType, SizeType
  <2>2. /\ c2 \div Span(v) = ((c + 1) \div Span(v)) - Size(v) * k
        /\ (c2 \div Span(v)) + (IF c2 % Span(v) = 0 THEN 0 ELSE 1)
             = (c \div Span(v)) + 1 - Size(v) * k
    <3>1. c + 1 = c2 + Span(v) * (Size(v) * k)
      BY <1>3, <1>7
    <3> QED BY <2>1, <3>1, TurnOf
  <2>3. c \div Span(v) \in Int
    BY <2>1, DivMod
  <2>4. CASE v = 1
    <3>1. Base(v) = c /\ Base(v)' = c2
      BY <1>0, <1>1, <1>2, <2>4 DEF Base
    <3> QED BY <1>1, <2>2, <2>4, <3>1
  <2>5. CASE v # 1
    <3>1. Base(v) = (c \div Span(v)) + 1
      BY <1>0, <2>5 DEF Base, Cascaded
    <3>2. Base(v)' = (c2 \div Span(v)) + (IF c2 % Span(v) = 0 THEN 0 ELSE 1)
      BY <1>2, <1>6, <2>5 DEF Base
    <3>3. Size(v) * k \in Int
      BY <2>1
    <3>4. Base(v)' = (c \div Span(v)) + 1 - Size(v) * k
      BY <2>2, <3>2
    <3> QED BY <2>3, <2>5, <3>1, <3>3, <3>4
  <2> QED BY <2>4, <2>5
<1>8. Aligned'
  <2>1. ASSUME NEW v \in 1 .. 5, pc' # "dead" PROVE iIndex'[v] = Base(v)' % Size(v)
    <3>1. CASE v = 1
      <4>1. Base(v)' = c2
        BY <1>1, <1>2, <3>1 DEF Base
      <4> QED BY <1>1, <1>5, <3>1, <4>1
    <3>2. CASE v # 1
      <4>1. PICK k \in Nat : w = Span(v) * (Size(v) * k)
        BY <1>4
      <4>2. PICK b \in Int : b = Base(v)
        BY <1>7, <4>1
      <4>3. b = Base(v)' + Size(v) * k /\ Base(v)' \in Int /\ k \in Int /\ Size(v) \in Nat \ {0}
        BY <1>7, <3>2, <4>1, <4>2, SizeType
      <4>4. PICK b2 \in Int : b2 = Base(v)'
        BY <4>3
      <4>5. (b2 + Size(v) * k) % Size(v) = b2 % Size(v)
        BY <4>3, Shift
      <4>6. iIndex'[v] = iIndex[v] /\ iIndex[v] = b % Size(v)
        BY <3>2, <4>2 DEF Aligned, Types
      <4> QED BY <4>3, <4>4, <4>5, <4>6
    <3> QED BY <3>1, <3>2
  <2>2. pc' = "cascade" => n' \in 2 .. 5 /\ dwCheckTime' % Span(n') = 0
    BY <1>1, <1>2, <1>5
  <2> QED BY <2>1, <2>2 DEF Aligned
<1>9. ASSUME NEW e \in 0 .. Word - 1, NEW s \in Slots, s \in HomeSlots[e], s # <<1, iIndex[1]>>
      PROVE  s \in HomeSlots'[e]
  <2>1. AtHome(s, e) /\ ~ Late(e) /\ Left(e) >= 1
    BY <1>9, Waits DEF HomeSlots
  <2>2. PICK v \in 1 .. 5 : v = s[1] /\ s = <<v, s[2]>>
    BY <1>9, SlotIn
  <2>3. PICK k \in Nat : w = Span(v) * (Size(v) * k)
    BY <1>4
  <2>4. PICK d \in 1 .. Word - 1 : d = Left(e) /\ Time(e) = c + d /\ d < Word \div 2
    BY <1>0, <1>1, <2>1, TimeOf DEF Time, Late
  <2>5. Left(e)' = d - 1
    <3>1. e - c \in Int /\ e - c2 \in Int
      BY <1>1
    <3>2. PICK j \in Int : e - c = Word * j + d
      BY <1>0, <1>1, <2>4, <3>1, DivMod DEF Left
    <3>3. PICK i \in Int : e - c2 = Word * i + (d - 1)
      <4>1. CASE w = 0
        BY <1>1, <1>3, <3>2, <4>1
      <4>2. CASE w = Word
        <5>1. e - c2 = Word * (j + 1) + (d - 1)
          BY <1>1, <1>3, <3>2, <4>2
        <5> QED BY <5>1
      <4> QED BY <4>1, <4>2
    <3>4. d - 1 \in 0 .. Word - 1
      BY <1>1
    <3>5. (e - c2) % Word = d - 1
      <4>1. \A r \in 0 .. Word - 1 : e - c2 = Word * i + r => (e - c2) % Word = r
        BY <1>1, <3>1, Unique
      <4> QED BY <3>3, <3>4, <4>1
    <3> QED BY <1>2, <3>5 DEF Left
  <2>6. Time(e)' = c2 + (d - 1) /\ ~ Late(e)'
    BY <1>1, <1>2, <2>4, <2>5 DEF Time, Late
  <2>7. Span(v) \in Nat \ {0} /\ Size(v) \in Nat \ {0, 1}
    BY SpanType, SizeType
  <2>8. PICK q \in Int : q = (c + d) \div Span(v)
    <3>1. c + d \in Int
      BY <1>1
    <3> QED BY <2>7, <3>1, DivMod
  <2>9. (c2 + (d - 1)) \div Span(v) = q - Size(v) * k
    <3>1. c + d = (c2 + (d - 1)) + Span(v) * (Size(v) * k)
          /\ c2 + (d - 1) \in Int /\ Size(v) * k \in Int
      BY <1>1, <1>3, <2>3, <2>7
    <3>2. PICK z \in Int : z = c2 + (d - 1)
      BY <3>1
    <3>3. (z + Span(v) * (Size(v) * k)) \div Span(v) = (z \div Span(v)) + Size(v) * k
      BY <2>7, <3>1, Shift
    <3>4. z \div Span(v) \in Int
      BY <2>7, DivMod
    <3> QED BY <2>8, <3>1, <3>2, <3>3, <3>4
  <2>10. PICK b \in Int : b = Base(v)
    BY <1>7, <2>3
  <2>11. q \in b .. (b + Size(v) - 1) /\ q % Size(v) = s[2]
    BY <2>1, <2>2, <2>4, <2>8, <2>10 DEF AtHome
  <2>12. PICK b2 \in Int : b2 = Base(v)' /\ b2 = b + (IF v = 1 THEN 1 ELSE 0) - Size(v) * k
    BY <1>7, <2>3, <2>7, <2>10
  <2>13. v = 1 => q # b
    <3>1. v = 1 => iIndex[1] = b % Size(1)
      BY <2>10 DEF Aligned
    <3> QED BY <1>9, <2>2, <2>11, <3>1
  <2>14. q - Size(v) * k \in b2 .. (b2 + Size(v) - 1)
    BY <2>7, <2>11, <2>12, <2>13
  <2>15. (q - Size(v) * k) % Size(v) = s[2]
    <3>1. (q + Size(v) * (-k)) % Size(v) = q % Size(v)
      <4>1. -k \in Int
        OBVIOUS
      <4> QED BY <2>7, <4>1, Shift
    <3>2. q + Size(v) * (-k) = q - Size(v) * k
      BY <2>7
    <3> QED BY <2>11, <3>1, <3>2
  <2>16. AtHome(s, e)'
    <3>1. (Time(e) \div Span(v))' = q - Size(v) * k
      BY <2>6, <2>9
    <3> HIDE DEF Base, Time, Late
    <3> QED BY <2>2, <2>6, <2>12, <2>14, <2>15, <3>1 DEF AtHome
  <2> QED BY <2>16 DEF HomeSlots
<1> QED BY <1>8, <1>9

\* The slot of a tick that ends is empty.
LEMMA SlotEmpty ==
  ASSUME Types, Counts, pc = "fire", Due \notin Nodes, NEW loc, Ring(Nx, Pv, Linked, loc)
  PROVE  \A y \in armed : loc[y] # <<1, iIndex[1]>>
<1>1. Ring(next, prev, Linked, loc)
  BY DEF Nx, Pv
<1>2. PICK h \in Slots : h = <<1, iIndex[1]>>
  BY StandsAtSlot
<1>3. armed \subseteq Nodes /\ Linked \subseteq Heads /\ Slots \subseteq Linked
      /\ Linked \ Slots = armed
  BY LinkedHeads DEF Counts
<1>4. next[h] \in Linked /\ loc[next[h]] = h /\ next[h] \notin armed
  BY <1>1, <1>2, <1>3 DEF Ring, Due
<1>5. next[h] = h
  BY <1>1, <1>3, <1>4 DEF Ring
<1> QED BY <1>1, <1>2, <1>3, <1>5, RingEmpty

\* Timer_RunTimerList, when no node is left in the slot.
LEMMA TickDoneKeeps ==
  ASSUME IInv, TickDone
  PROVE  IInv'
<1>0. Types /\ Counts /\ Aligned /\ Cascade /\ pc = "fire" /\ Due \notin Nodes
  BY DEF IInv, TickDone, SlotDone
<1>1. PICK loc : Lists(loc)
  BY DEF IInv
<1>2. armed \subseteq Nodes /\ Linked \subseteq Heads /\ Slots \subseteq Linked
      /\ Linked \ Slots = armed /\ armed \cap Slots = {} /\ NULL \notin Heads
  BY <1>0, LinkedHeads DEF Counts
<1>3. /\ dwCheckTime' = (dwCheckTime + 1) % Word
      /\ iIndex' = [iIndex EXCEPT ![1] = (@ + 1) % TVR_SIZE]
      /\ \/ pc' = "idle" /\ UNCHANGED <<n, pstCur>>
         \/ /\ iIndex'[1] = 0 /\ pc' = "cascade" /\ n' = 2
            /\ pstCur' = next[<<2, iIndex'[2]>>]
         \/ iIndex'[1] # 0 /\ pc' = "fire" /\ UNCHANGED <<n, pstCur>>
      /\ UNCHANGED <<next, prev, dwNodeCount, dwMaxNodeCount, dwExpire, now,
                     armed, misplaced, load>>
  <2>1. iIndex'[2] = iIndex[2]
    BY <1>0 DEF TickDone, Types
  <2>2. \/ pc' = "idle" /\ UNCHANGED <<n, pstCur>>
        \/ /\ iIndex'[1] = 0 /\ pc' = "cascade" /\ n' = 2
           /\ pstCur' = next[<<2, iIndex[2]>>]
        \/ iIndex'[1] # 0 /\ pc' = "fire" /\ UNCHANGED <<n, pstCur>>
    BY DEF TickDone, BeginTick
  <2> QED BY <2>1, <2>2 DEF TickDone
<1>4. Ring(next, prev, Linked, loc)
  BY <1>0, <1>1 DEF Lists, Nx, Pv
<1>5. \A y \in armed : loc[y] # <<1, iIndex[1]>>
  BY <1>0, <1>1, SlotEmpty DEF Lists
<1>6. /\ Aligned'
      /\ \A e \in 0 .. Word - 1, s \in Slots :
           s \in HomeSlots[e] /\ s # <<1, iIndex[1]>> => s \in HomeSlots'[e]
  <2>1. TickNext
    BY <1>3 DEF TickNext
  <2> QED BY <1>0, <2>1, TickTurn
<1>7. dwCheckTime' \in 0 .. Word - 1
  BY <1>0, <1>3, SpanType DEF Types
<1>8. iIndex' \in [1 .. 5 -> Nat] /\ \A v \in 1 .. 5 : iIndex'[v] \in 0 .. Size(v) - 1
  <2>1. (iIndex[1] + 1) % TVR_SIZE \in 0 .. TVR_SIZE - 1 /\ Size(1) = TVR_SIZE
    BY <1>0, TimerAssumption DEF Types, Size
  <2>2. iIndex'[1] = (iIndex[1] + 1) % TVR_SIZE /\ \A v \in 1 .. 5 : v # 1 => iIndex'[v] = iIndex[v]
    BY <1>0, <1>3 DEF Types
  <2>3. iIndex' \in [1 .. 5 -> Nat]
    BY <1>0, <1>3, <2>1 DEF Types
  <2> QED BY <1>0, <2>1, <2>2, <2>3 DEF Types
<1>9. Homes(loc)'
  <2>1. ASSUME NEW y \in armed \ misplaced
        PROVE  loc[y] \in HomeSlots'[dwExpire[y]]
    <3>1. loc[y] \in HomeSlots[dwExpire[y]] /\ loc[y] # <<1, iIndex[1]>>
          /\ dwExpire[y] \in 0 .. Word - 1
      BY <1>0, <1>1, <1>2, <1>5 DEF Lists, Homes, Types
    <3>2. loc[y] \in Slots
      BY <3>1 DEF HomeSlots
    <3> QED BY <1>6, <3>1, <3>2
  <2> QED BY <1>3, <2>1 DEF Homes
<1>10. NoTrap(loc)'
  BY <1>1, <1>3 DEF Lists, NoTrap
<1>11. CASE pc' # "cascade"
  <2>1. Types' /\ Counts' /\ Cascade'
    BY <1>0, <1>3, <1>7, <1>8, <1>11 DEF Types, Counts, Cascade
  <2>2. Ring(Nx, Pv, Linked, loc)'
    BY <1>3, <1>4, <1>11 DEF Nx, Pv, Linked
  <2> QED BY <1>6, <1>9, <1>10, <2>1, <2>2 DEF IInv, Lists
<1>12. CASE pc' = "cascade"
  <2>1. CascadeHead' = <<2, iIndex'[2]>> /\ CascadeHead' \in Slots
    <3>1. 2 \in 1 .. 5
      OBVIOUS
    <3> QED BY <1>3, <1>8, <1>12, <3>1, SlotIn DEF CascadeHead
  <2>2. pstCur' = next'[CascadeHead']
    BY <1>3, <1>12, <2>1
  <2>3. pstCur' \in Linked
    BY <1>2, <1>3, <1>4, <2>1, <2>2 DEF Ring
  <2>4. Types' /\ Counts'
    BY <1>0, <1>2, <1>3, <1>7, <1>8, <1>12, <2>3 DEF Types, Counts
  <2>5. Ring(next, prev, Linked, loc)'
    BY <1>3, <1>4 DEF Linked
  <2>6. Begun'
    BY <1>12, <2>1, <2>2, <2>4, <2>5 DEF Begun
  <2>7. (Nx = next /\ Pv = prev /\ Cascade)'
    BY <2>6, CascadeBegins, PTL
  <2>8. Ring(Nx, Pv, Linked, loc)'
    BY <2>5, <2>7
  <2> QED BY <1>6, <1>9, <1>10, <2>4, <2>7, <2>8 DEF IInv, Lists
<1> QED BY <1>11, <1>12

\* A node is taken out of its list and cleared.
LEMMA UnlinkStep ==
  ASSUME NEW E, E \subseteq Heads, NEW nx \in [Heads -> Heads \cup {NULL}],
         NEW pv \in [Heads -> Heads \cup {NULL}], NEW loc, Ring(nx, pv, E, loc),
         NEW x \in E \ Slots, Unlink(x, nx, pv)
  PROVE  /\ Ring(next', prev', E \ {x}, loc)
         /\ next' \in [Heads -> Heads \cup {NULL}] /\ prev' \in [Heads -> Heads \cup {NULL}]
<1>1. PICK nx2, pv2 : nx2 = next' /\ pv2 = prev'
  OBVIOUS
<1>2. nx[x] \in E /\ pv[x] \in E /\ x \in Heads
  BY DEF Ring
<1>3. /\ nx2 = [nx EXCEPT ![pv[x]] = nx[x], ![x] = NULL]
      /\ pv2 = [pv EXCEPT ![nx[x]] = pv[x], ![x] = NULL]
  BY <1>1 DEF Unlink
<1>4. Taken(nx, pv, E, x, nx2, pv2)
  BY <1>2, <1>3 DEF Taken
<1>5. nx2 \in [Heads -> Heads \cup {NULL}] /\ pv2 \in [Heads -> Heads \cup {NULL}]
  BY <1>2, <1>3
<1>6. Ring(nx2, pv2, E \ {x}, loc)
  BY <1>4, RingRemove
<1> QED BY <1>1, <1>5, <1>6

\* The node that fires is one that was added: the slot's first.
LEMMA DueArmed ==
  ASSUME Types, Counts, pc = "fire", Due \in Nodes, NEW loc, Ring(Nx, Pv, Linked, loc)
  PROVE  /\ Due \in armed /\ loc[Due] = <<1, iIndex[1]>>
         /\ Ring(next, prev, Linked, loc)
<1>1. Ring(next, prev, Linked, loc)
  BY DEF Nx, Pv
<1>2. <<1, iIndex[1]>> \in Slots
  BY StandsAtSlot
<1>3. armed \subseteq Nodes /\ Slots \subseteq Linked /\ Linked \ Slots = armed
  BY LinkedHeads DEF Counts
<1>4. Due \in Linked /\ loc[Due] = <<1, iIndex[1]>>
  BY <1>1, <1>2, <1>3 DEF Ring, Due
<1> QED BY <1>1, <1>3, <1>4, HeadsAssumption

\* OnExpire, ListDel and memset.
LEMMA FireKeeps ==
  ASSUME IInv, Fire
  PROVE  IInv'
<1>0. Types /\ Counts /\ Aligned /\ Cascade /\ pc = "fire" /\ Due \in Nodes
  BY DEF IInv, Fire
<1>1. PICK loc : Lists(loc)
  BY DEF IInv
<1>2. PICK x : x = Due
  OBVIOUS
<1>3. /\ Unlink(x, next, prev)
      /\ dwNodeCount' = dwNodeCount - 1
      /\ dwExpire' = [dwExpire EXCEPT ![x] = 0]
      /\ armed' = armed \ {x} /\ misplaced' = misplaced \ {x}
      /\ UNCHANGED <<iIndex, dwCheckTime, dwMaxNodeCount, pc, n, pstCur, now, load>>
  BY <1>2 DEF Fire, CountOff, locals
<1>4. x \in armed /\ Ring(next, prev, Linked, loc)
  BY <1>0, <1>1, <1>2, DueArmed DEF Lists
<1>5. armed \subseteq Nodes /\ Linked \subseteq Heads /\ Linked \ Slots = armed
      /\ armed \cap Slots = {}
  BY <1>0, LinkedHeads DEF Counts
<1>6. /\ Ring(next', prev', Linked \ {x}, loc)
      /\ next' \in [Heads -> Heads \cup {NULL}] /\ prev' \in [Heads -> Heads \cup {NULL}]
  BY <1>0, <1>3, <1>4, <1>5, UnlinkStep DEF Types
<1>7. Types'
  <2>1. 0 \in 0 .. Word - 1
    BY SpanType
  <2> QED BY <1>0, <1>3, <1>6, <2>1 DEF Types
<1>8. Counts'
  <2>1. IsFiniteSet(armed \ {x}) /\ Cardinality(armed \ {x}) = Cardinality(armed) - 1
    BY <1>0, <1>4, FS_RemoveElement DEF Counts
  <2>2. Cardinality(armed) \in Nat
    BY <1>0, FS_CardinalityType DEF Counts
  <2> QED BY <1>0, <1>3, <2>1, <2>2 DEF Counts
<1>9. HomeSlots' = HomeSlots /\ Aligned' /\ Cascade'
  BY <1>0, <1>3, HomeStays, AlignedStays DEF Cascade
<1>10. Ring(Nx, Pv, Linked, loc)'
  <2>1. Linked' = Linked \ {x}
    BY <1>3, <1>4, <1>5 DEF Linked
  <2>2. Nx' = next' /\ Pv' = prev'
    BY <1>0, <1>3 DEF Nx, Pv
  <2> QED BY <1>6, <2>1, <2>2
<1>11. \A y \in armed' : y \in armed /\ y # x /\ dwExpire'[y] = dwExpire[y]
  BY <1>0, <1>3, <1>5 DEF Types
<1>12. Homes(loc)' /\ NoTrap(loc)'
  <2>1. \A y \in armed' \ misplaced' : loc[y] \in HomeSlots[dwExpire'[y]]
    BY <1>0, <1>1, <1>3, <1>11 DEF Lists, Homes
  <2>2. NoTrap(loc)'
    BY <1>1, <1>11 DEF Lists, NoTrap
  <2> QED BY <1>9, <2>1, <2>2 DEF Homes
<1> QED BY <1>7, <1>8, <1>9, <1>10, <1>12 DEF IInv, Lists

\* The same, with a callback that adds another node.
LEMMA FireAndAddKeeps ==
  ASSUME IInv, NEW x \in load.nodes, NEW t \in load.timeOuts, FireAndAdd(x, t)
  PROVE  IInv'
<1>0. Types /\ Counts /\ Aligned /\ Cascade /\ pc = "fire" /\ Due \in Nodes
  BY DEF IInv, FireAndAdd
<1>1. PICK loc : Lists(loc)
  BY DEF IInv
<1>2. PICK d : d = Due
  OBVIOUS
<1>3. PICK e \in 0 .. Word - 1 : e = Expires(t)
  BY <1>0, LoadType
<1>4. PICK p : p = VecPrev(Vec(e))
  OBVIOUS
<1>5. PICK nx2, pv2 : LinkedIn(p, x, nx2, pv2)
  BY DEF LinkedIn
<1>6. /\ x \in Nodes \ armed /\ p # NULL
      /\ Unlink(d, nx2, pv2)
      /\ misplaced' = (IF Vec(e) \in Slots THEN misplaced ELSE misplaced \cup {x}) \ {d}
      /\ dwExpire' = [dwExpire EXCEPT ![x] = e, ![d] = 0]
      /\ armed' = (armed \cup {x}) \ {d}
      /\ UNCHANGED <<iIndex, dwCheckTime, pc, n, pstCur, now, load>>
  BY <1>0, <1>2, <1>3, <1>4, <1>5, LoadType DEF FireAndAdd, LinkedIn, locals
<1>7. d \in armed /\ d # x
  BY <1>0, <1>1, <1>2, <1>6, DueArmed DEF Lists
<1>8. armed \subseteq Nodes /\ Linked \subseteq Heads /\ Linked \ Slots = armed
      /\ armed \cap Slots = {} /\ x \in Heads /\ x \notin Linked
  BY <1>0, <1>6, LinkedHeads, HeadsAssumption DEF Counts, Heads, Linked
<1>9. PICK loc2 : loc2 = Moved(loc, x, loc[p])
  OBVIOUS
<1>10. /\ p \in Linked
       /\ Ring(nx2, pv2, Linked \cup {x}, loc2)
       /\ nx2 \in [Heads -> Heads \cup {NULL}] /\ pv2 \in [Heads -> Heads \cup {NULL}]
  <2>1. Ring(Nx, Pv, Linked, loc) /\ pc # "cascade"
    BY <1>0, <1>1 DEF Lists
  <2> QED BY <1>0, <1>4, <1>5, <1>6, <1>9, <2>1, AddStep
<1>11. /\ Ring(next', prev', (Linked \cup {x}) \ {d}, loc2)
       /\ next' \in [Heads -> Heads \cup {NULL}] /\ prev' \in [Heads -> Heads \cup {NULL}]
  <2>1. Linked \cup {x} \subseteq Heads /\ d \in (Linked \cup {x}) \ Slots
    BY <1>7, <1>8
  <2> QED BY <1>6, <1>10, <2>1, UnlinkStep
<1>12. Types'
  <2>1. 0 \in 0 .. Word - 1
    BY SpanType
  <2> QED BY <1>0, <1>6, <1>11, <2>1 DEF Types
<1>13. Counts'
  <2>1. /\ dwNodeCount' = CountOff(dwNodeCount + 1)
        /\ dwMaxNodeCount' = IF dwNodeCount + 1 > dwMaxNodeCount THEN dwNodeCount + 1
                                                                 ELSE dwMaxNodeCount
    BY Zenon DEF FireAndAdd
  <2>2. IsFiniteSet(armed \cup {x}) /\ Cardinality(armed \cup {x}) = Cardinality(armed) + 1
    BY <1>0, <1>6, FS_AddElement DEF Counts
  <2>3. d \in armed \cup {x}
    BY <1>7
  <2>4. IsFiniteSet(armed') /\ Cardinality(armed') = Cardinality(armed \cup {x}) - 1
    BY <1>6, <2>2, <2>3, FS_RemoveElement
  <2>5. Cardinality(armed) \in Nat
    BY <1>0, FS_CardinalityType DEF Counts
  <2>6. dwNodeCount' = dwNodeCount
    BY <1>0, <2>1, <2>5 DEF Counts, CountOff
  <2> QED BY <1>0, <1>6, <2>1, <2>2, <2>4, <2>5, <2>6 DEF Counts
<1>14. HomeSlots' = HomeSlots /\ Aligned' /\ Cascade'
  BY <1>0, <1>6, HomeStays, AlignedStays DEF Cascade
<1>15. Ring(Nx', Pv', Linked', loc2)
  <2>1. Linked' = (Linked \cup {x}) \ {d}
    BY <1>6, <1>7, <1>8 DEF Linked
  <2>2. Nx' = next' /\ Pv' = prev'
    BY <1>0, <1>6 DEF Nx, Pv
  <2> QED BY <1>11, <2>1, <2>2
<1>16. /\ \A y \in armed \ {d} : loc2[y] = loc[y] /\ dwExpire'[y] = dwExpire[y]
       /\ loc2[x] = loc[p] /\ dwExpire'[x] = e
  BY <1>0, <1>1, <1>6, <1>7, <1>8, <1>9 DEF Types, Lists, Ring, Heads, Moved
<1>17. Homes(loc2)'
  <2>1. ASSUME NEW y \in armed' \ misplaced'
        PROVE  loc2[y] \in HomeSlots[dwExpire'[y]]
    <3>1. CASE y = x
      <4>1. Vec(e) \in Slots /\ loc[p] = Vec(e)
        BY <1>0, <1>1, <1>4, <1>6, <1>7, <3>1, PrevIs DEF Lists
      <4>2. AtHome(Vec(e), e)
        BY <1>0, <4>1, AddedAtHome
      <4> QED BY <1>16, <3>1, <4>1, <4>2 DEF HomeSlots
    <3>2. CASE y # x
      BY <1>0, <1>1, <1>6, <1>16, <3>2 DEF Lists, Homes
    <3> QED BY <3>1, <3>2
  <2> QED BY <1>14, <2>1 DEF Homes
<1>18. NoTrap(loc2)'
  <2>1. ASSUME NEW y \in armed', loc2[y] \in Slots, loc2[y][1] = 2
        PROVE  (dwExpire'[y] \div TVR_SIZE) % TVR_SIZE # 2 * TVN_SIZE
    <3>1. CASE y = x
      BY <1>0, <1>1, <1>4, <1>6, <1>16, <2>1, <3>1, PrevIs DEF Lists
    <3>2. CASE y # x
      BY <1>1, <1>6, <1>16, <2>1, <3>2 DEF Lists, NoTrap
    <3> QED BY <3>1, <3>2
  <2> QED BY <2>1 DEF NoTrap
<1> QED BY <1>12, <1>13, <1>14, <1>15, <1>17, <1>18 DEF IInv, Lists

------------------------------------------------------------------------------
\* Nothing happens.
LEMMA StutterKeeps ==
  ASSUME IInv, UNCHANGED vars
  PROVE  IInv'
<1>1. UNCHANGED <<wheels, pc, n, pstCur, now, armed, misplaced, load>>
  BY DEF vars, locals
<1>2. PICK loc : Lists(loc)
  BY DEF IInv
<1>3. Types' /\ Counts' /\ Cascade'
  BY <1>1 DEF IInv, Types, Counts, Cascade, CascadeHead, Linked, wheels
<1>4. HomeSlots' = HomeSlots /\ Aligned'
  BY <1>1, HomeStays, AlignedStays DEF IInv, wheels
<1>5. Lists(loc)'
  <2>1. Nx' = Nx /\ Pv' = Pv /\ Linked' = Linked
    BY <1>1 DEF Nx, Pv, CascadeHead, Linked, wheels
  <2>2. Ring(Nx, Pv, Linked, loc)'
    BY <1>2, <2>1 DEF Lists
  <2>3. Homes(loc)' /\ NoTrap(loc)'
    BY <1>1, <1>2, <1>4 DEF Lists, Homes, NoTrap, wheels
  <2> QED BY <2>2, <2>3 DEF Lists
<1> QED BY <1>3, <1>4, <1>5 DEF IInv

\* IInv is inductive.
LEMMA StepKeeps ==
  IInv /\ [Next]_vars => IInv'
<1> SUFFICES ASSUME IInv, [Next]_vars
             PROVE  IInv'
  OBVIOUS
<1>1. ASSUME NEW x \in load.nodes, NEW t \in load.timeOuts, Timer_Add(x, t)
      PROVE  IInv'
  BY <1>1, AddKeeps
<1>2. ASSUME NEW x \in load.nodes, NEW t \in load.timeOuts, FireAndAdd(x, t)
      PROVE  IInv'
  BY <1>2, FireAndAddKeeps
<1>3. ASSUME NEW t \in load.timeOuts, AddCrash(t) \/ FireCrash(t)
      PROVE  IInv'
  BY <1>3, CrashKeeps
<1>4. CASE Timer_Check
  BY <1>4, CheckKeeps
<1>5. CASE CascadeNode
  BY <1>5, CascadeNodeKeeps
<1>6. CASE CascadeDone
  BY <1>6, CascadeDoneKeeps
<1>7. CASE Fire
  BY <1>7, FireKeeps
<1>8. CASE TickDone
  BY <1>8, TickDoneKeeps
<1>9. CASE Clock
  BY <1>9, ClockKeeps
<1>10. CASE Restart
  BY <1>10, RestartKeeps
<1>11. CASE UNCHANGED vars
  BY <1>11, StutterKeeps
<1> QED
  BY <1>1, <1>2, <1>3, <1>4, <1>5, <1>6, <1>7, <1>8, <1>9, <1>10, <1>11 DEF Next

\* What the proof rests on: at every moment the pointers close into one ring to
\* a slot, but for the slot that is being cascaded; every armed node that was
\* never put past the end of tv2 is in a slot that comes to its turn in time;
\* and the wheels stand where the counter tells.
THEOREM TimerInvariance ==
  Spec => []IInv
<1>1. Init => IInv
  BY InitIInv
<1>2. IInv /\ [Next]_vars => IInv'
  BY StepKeeps
<1> QED BY <1>1, <1>2, PTL DEF Spec

------------------------------------------------------------------------------
\* Even the pointers that a cascade leaves behind lead to a node or a slot.
LEMMA PointersLinked ==
  ASSUME Types, Counts, Cascade, NEW loc, Ring(Nx, Pv, Linked, loc), NEW x \in Linked
  PROVE  next[x] \in Linked /\ prev[x] \in Linked
<1>1. x \in Heads
  BY LinkedHeads DEF Counts
<1>2. next[x] \in Linked
  <2>1. CASE pc = "cascade" /\ x = CascadeHead
    BY <2>1 DEF Cascade
  <2>2. CASE ~(pc = "cascade" /\ x = CascadeHead)
    <3>1. Nx[x] = next[x]
      BY <1>1, <2>2 DEF Nx, Types
    <3> QED BY <3>1 DEF Ring
  <2> QED BY <2>1, <2>2
<1>3. prev[x] \in Linked
  <2>1. CASE pc = "cascade" /\ x = pstCur
    BY <2>1 DEF Cascade
  <2>2. CASE ~(pc = "cascade" /\ x = pstCur)
    <3>1. Pv[x] = prev[x]
      BY <1>1, <2>2 DEF Pv, Types
    <3> QED BY <3>1 DEF Ring
  <2> QED BY <2>1, <2>2
<1> QED BY <1>2, <1>3

\* Whatever Timer_Add, Timer_Check and the callbacks did: the slots and the armed
\* nodes hold addresses in both pointers, the wheels stand at slots of theirs, and
\* the counter and the nodes' times are words.
THEOREM TimerTypeCorrect ==
  Spec => []TypeOK
<1>1. IInv => TypeOK
  <2> SUFFICES ASSUME IInv PROVE TypeOK
    OBVIOUS
  <2>1. Types /\ Counts /\ Cascade
    BY DEF IInv
  <2>2. PICK loc : Ring(Nx, Pv, Linked, loc)
    BY DEF IInv, Lists
  <2>3. \A x \in Slots \cup armed : next[x] # NULL /\ prev[x] # NULL
    BY <2>1, <2>2, PointersLinked, LinkedHeads DEF Counts, Linked
  <2>4. /\ iIndex[1] \in 0 .. TVR_SIZE - 1
        /\ \A v \in 2 .. 5 : iIndex[v] \in 0 .. TVN_SIZE - 1
    BY <2>1 DEF Types, Size
  <2> QED BY <2>1, <2>3, <2>4 DEF TypeOK, Types, Counts
<1> QED BY <1>1, TimerInvariance, PTL

\* Outside a cascade every pointer to a neighbour is answered by the neighbour's
\* pointer back, dwNodeCount is the number of armed nodes, and no cascade meets
\* the word of tv4.iIndex where line 104 makes it look for a node: of the code's
\* calls of Timer_InternalAdd only Timer_Add's can crash.
THEOREM ListsSoundHolds ==
  Spec => []ListsSound
<1>1. IInv => ListsSound
  <2> SUFFICES ASSUME IInv PROVE ListsSound
    OBVIOUS
  <2>1. Types /\ Counts /\ Cascade /\ Aligned
    BY DEF IInv
  <2>2. PICK loc : Ring(Nx, Pv, Linked, loc) /\ NoTrap(loc)
    BY DEF IInv, Lists
  <2>3. ASSUME pc \in {"idle", "fire"}, NEW x \in Slots \cup armed
        PROVE  prev[next[x]] = x /\ next[prev[x]] = x
    <3>1. Nx = next /\ Pv = prev
      BY <2>3 DEF Nx, Pv
    <3> QED BY <2>2, <3>1 DEF Ring, Linked
  <2>4. ASSUME pc = "cascade", pstCur # CascadeHead
        PROVE  pstCur \in armed /\ VecPrev(Vec(dwExpire[pstCur])) # NULL
    <3>1. n \in 2 .. 5
      BY <2>1, <2>4 DEF Aligned
    <3>2. CascadeHead \in Slots /\ pstCur \in armed /\ loc[pstCur] = CascadeHead
      BY <2>1, <2>2, <2>4, <3>1, Cursor
    <3>3. PICK e \in 0 .. Word - 1 : e = dwExpire[pstCur]
      BY <2>1, <3>2 DEF Types, Counts
    <3>4. \A s \in Slots : next[s] # NULL /\ prev[s] # NULL
      BY <2>1, <2>2, PointersLinked, LinkedHeads DEF Counts, Linked
    <3>5. CASE Vec(e) \in Slots
      <4>1. VecPrev(Vec(e)) = prev[Vec(e)]
        BY <3>5 DEF VecPrev
      <4>2. VecPrev(Vec(e)) # NULL
        BY <3>4, <3>5, <4>1
      <4> QED BY <3>2, <3>3, <4>2
    <3>6. CASE Vec(e) \notin Slots
      <4>1. Vec(e)[1] = 2 /\ Vec(e)[2] = (e \div TVR_SIZE) % TVR_SIZE
        BY <2>1, <3>6, VecRange
      <4>2. (e \div TVR_SIZE) % TVR_SIZE # 2 * TVN_SIZE
        <5>1. CASE n = 2
          <6>1. loc[pstCur] \in Slots /\ loc[pstCur][1] = 2
            BY <3>2, <5>1 DEF CascadeHead
          <6> QED BY <2>2, <3>2, <3>3, <6>1 DEF NoTrap
        <5>2. CASE n # 2
          BY <2>1, <2>4, <4>1, <5>2, NoTrapAbove
        <5> QED BY <5>1, <5>2
      <4>3. \E s \in Slots : VecPrev(Vec(e)) = next[s] \/ VecPrev(Vec(e)) = prev[s]
        BY <2>1, <3>6, <4>1, <4>2, PastTv2
      <4>4. VecPrev(Vec(e)) # NULL
        BY <3>4, <4>3, Zenon
      <4> QED BY <3>2, <3>3, <4>4
    <3> QED BY <3>2, <3>5, <3>6
  <2> QED BY <2>1, <2>3, <2>4 DEF ListsSound, Counts
<1> QED BY <1>1, TimerInvariance, PTL

\* The started spans: the quotient, rounded up.
LEMMA Started ==
  ASSUME NEW c \in Nat, NEW P \in Nat \ {0}
  PROVE  (c + P - 1) \div P = (c \div P) + (IF c % P = 0 THEN 0 ELSE 1)
<1> DEFINE q == c \div P
           r == c % P
<1>0. SUFFICES (c + P - 1) \div P = q + (IF r = 0 THEN 0 ELSE 1)
  OBVIOUS
<1>1. q \in Int /\ r \in 0 .. P - 1 /\ c = P * q + r
  BY DivMod
<1> HIDE DEF q, r
<1>2. CASE r = 0
  <2>1. c + P - 1 = P * q + (P - 1) /\ P - 1 \in 0 .. P - 1 /\ c + P - 1 \in Int
    BY <1>1, <1>2
  <2> QED BY <1>1, <1>2, <2>1, Unique
<1>3. CASE r # 0
  <2>1. c + P - 1 = P * (q + 1) + (r - 1) /\ r - 1 \in 0 .. P - 1 /\ c + P - 1 \in Int
        /\ q + 1 \in Int
    BY <1>1, <1>3
  <2>2. (c + P - 1) \div P = q + 1
    BY <2>1, Unique
  <2> QED BY <1>3, <2>2
<1> QED BY <1>2, <1>3

\* Between two calls of Timer_Check each wheel has been cascaded once for every
\* started span of one of its slots: however often the counter started over, no
\* turn of a wheel was missed, and none was taken twice.
THEOREM WheelsAlignedHolds ==
  Spec => []WheelsAligned
<1>1. IInv => WheelsAligned
  <2> SUFFICES ASSUME IInv, pc = "idle"
               PROVE  /\ iIndex[1] = dwCheckTime % TVR_SIZE
                      /\ \A v \in 2 .. 5 :
                           iIndex[v] = ((dwCheckTime + Span(v) - 1) \div Span(v)) % TVN_SIZE
    BY DEF WheelsAligned
  <2>1. dwCheckTime \in Nat /\ \A v \in 1 .. 5 : iIndex[v] = Base(v) % Size(v)
    BY DEF IInv, Types, Aligned
  <2>2. iIndex[1] = dwCheckTime % TVR_SIZE
    <3>1. Base(1) = dwCheckTime /\ Size(1) = TVR_SIZE
      BY <2>1, SpanType DEF Base, Size
    <3> QED BY <2>1, <3>1
  <2>3. ASSUME NEW v \in 2 .. 5
        PROVE  iIndex[v] = ((dwCheckTime + Span(v) - 1) \div Span(v)) % TVN_SIZE
    <3>1. Span(v) \in Nat \ {0} /\ Size(v) = TVN_SIZE
      BY SpanType DEF Size
    <3>2. Base(v) = (dwCheckTime \div Span(v)) + (IF dwCheckTime % Span(v) = 0 THEN 0 ELSE 1)
      BY DEF Base, Cascaded
    <3>3. Base(v) = (dwCheckTime + Span(v) - 1) \div Span(v)
      BY <2>1, <3>1, <3>2, Started
    <3> QED BY <2>1, <3>1, <3>3
  <2> QED BY <2>2, <2>3
<1> QED BY <1>1, TimerInvariance, PTL

\* What is in the slot of this tick is due, or past.
LEMMA DueNow ==
  ASSUME Types, Aligned, pc = "fire", NEW e \in 0 .. Word - 1,
         <<1, iIndex[1]>> \in HomeSlots[e]
  PROVE  Signed(e - dwCheckTime) <= 0
<1>0. AtHome(<<1, iIndex[1]>>, e) /\ Left(e) \in 0 .. Word - 1 /\ Word \in Nat
  BY TimeOf, SpanType DEF HomeSlots
<1>1. CASE Late(e)
  BY <1>0, <1>1, TimeOf
<1>2. CASE ~ Late(e)
  <2>1. dwCheckTime \in Nat /\ Time(e) \in Nat /\ Span(1) = 1 /\ Size(1) \in Nat \ {0}
    BY TimeOf, SpanType, SizeType DEF Types
  <2>2. Base(1) = dwCheckTime /\ Time(e) \div Span(1) = Time(e)
    BY <2>1 DEF Base
  <2>3. /\ Time(e) \in dwCheckTime .. (dwCheckTime + Size(1) - 1)
        /\ Time(e) % Size(1) = iIndex[1]
    BY <1>0, <1>2, <2>2 DEF AtHome
  <2>4. iIndex[1] = dwCheckTime % Size(1)
    BY <2>2 DEF Aligned
  <2>5. Time(e) = dwCheckTime
    BY <2>1, <2>3, <2>4, WithinTurn
  <2>6. Left(e) = 0
    BY <1>0, <2>1, <2>5 DEF Time
  <2> QED BY <1>2, <2>6, TimeOf
<1> QED BY <1>1, <1>2

\* The calls of OnExpire: a node that was never put past the end of tv2 is not
\* expired before the tick of its time, whatever wheels it was cascaded through.
THEOREM NeverEarlyHolds ==
  Spec => NeverEarly
<1>1. IInv /\ [Next]_vars =>
        [\A x \in armed \ misplaced :
           x \notin armed' /\ pc = "fire" => Signed(dwExpire[x] - dwCheckTime) <= 0]_vars
  <2> SUFFICES ASSUME IInv, Next, NEW x \in armed \ misplaced, x \notin armed', pc = "fire"
               PROVE  Signed(dwExpire[x] - dwCheckTime) <= 0
    OBVIOUS
  <2>1. Types /\ Counts /\ Aligned
    BY DEF IInv
  <2>2. PICK loc : Lists(loc)
    BY DEF IInv
  <2>3. x = Due /\ Due \in Nodes
    BY DEF Next, Timer_Add, FireAndAdd, AddCrash, FireCrash, Crash, Timer_Check,
           CascadeNode, CascadeDone, Fire, TickDone, Clock, Restart
  <2>4. loc[x] = <<1, iIndex[1]>>
    BY <2>1, <2>2, <2>3, DueArmed DEF Lists
  <2>5. loc[x] \in HomeSlots[dwExpire[x]] /\ dwExpire[x] \in 0 .. Word - 1
    BY <2>1, <2>2, <2>3 DEF Lists, Homes, Types
  <2> QED BY <2>1, <2>4, <2>5, DueNow
<1> QED BY <1>1, TimerInvariance, PTL DEF Spec, NeverEarly

\* The end of a turn of Timer_RunTimerList: no node that was never put past the
\* end of tv2 is left behind when its tick ends, be it added or cascaded in that
\* very tick, and over any number of turns of the counter.
THEOREM NeverLateHolds ==
  Spec => NeverLate
<1>1. IInv /\ [Next]_vars =>
        [pc = "fire" /\ dwCheckTime' # dwCheckTime =>
           \A x \in armed' \ misplaced' : Signed(dwExpire'[x] - dwCheckTime) > 0]_vars
  <2> SUFFICES ASSUME IInv, Next, pc = "fire", dwCheckTime' # dwCheckTime,
                      NEW x \in armed' \ misplaced'
               PROVE  Signed(dwExpire'[x] - dwCheckTime) > 0
    OBVIOUS
  <2>1. Types /\ Counts /\ Aligned
    BY DEF IInv
  <2>2. PICK loc : Lists(loc)
    BY DEF IInv
  <2>3. TickDone
    BY DEF Next, Timer_Add, FireAndAdd, AddCrash, FireCrash, Crash, Timer_Check,
           CascadeNode, CascadeDone, Fire, Clock, Restart, wheels
  <2>4. Due \notin Nodes /\ UNCHANGED <<dwExpire, armed, misplaced>>
    BY <2>3 DEF TickDone, SlotDone
  <2>5. loc[x] # <<1, iIndex[1]>>
    BY <2>1, <2>2, <2>4, SlotEmpty DEF Lists
  <2>6. PICK e \in 0 .. Word - 1 : e = dwExpire[x] /\ loc[x] \in HomeSlots[e]
    BY <2>1, <2>2, <2>4 DEF Lists, Homes, Types, Counts
  <2>7. ~ Late(e) /\ Left(e) >= 1 /\ Left(e) \in Int
    BY <2>1, <2>5, <2>6, Waits, TimeOf, SpanType
  <2>8. Signed(e - dwCheckTime) = Left(e)
    BY <2>1, <2>7, TimeOf
  <2> QED BY <2>4, <2>6, <2>7, <2>8
<1> QED BY <1>1, TimerInvariance, PTL DEF Spec, NeverLate
=============================================================================
