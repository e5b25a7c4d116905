-------------------------------- MODULE Timer --------------------------------
(***************************************************************************)
(* comm/Timer.cpp: five wheels of circular lists (comm/LiteList.h).  tv1   *)
(* holds the nodes due within TVR_SIZE ticks, one slot for each tick; tv2  *)
(* to tv5 hold the later ones, in ever wider slots that are cascaded down  *)
(* when the wheel below has turned once.  The caller runs Timer_Add and    *)
(* Timer_Check in one thread; an expiring node's callback may add another. *)
(* The lists are modelled by their pointers, because line 104 masks a tv2  *)
(* slot with TVR_MASK, so tv2.stVec + i runs past tv2 into the wheels that *)
(* follow it in the struct, and vec->prev is whatever pointer lies there.  *)
(***************************************************************************)
EXTENDS Integers, FiniteSets

CONSTANTS
  Nodes,                   \* the TimerNodes of the caller
  NULL,
  TVN_SIZE, TVR_SIZE,      \* 64 and 256 in the code, TVR_SIZE = 4 * TVN_SIZE
  Word,                    \* 2^32, as many ticks as the wheels hold; or twice that, where
                           \*   half of them, the longest time-out, would not reach tv5
  MaxLag,                  \* bound: ticks by which Timer_Check is called late
  Loads                    \* bound: what a process does with its timer: the nodes and
                           \*   time-outs it uses, and the ticks until it is restarted

ASSUME TimerAssumption ==
  /\ TVN_SIZE \in Nat \ {0, 1} /\ TVR_SIZE = 4 * TVN_SIZE
  /\ \E k \in {1, 2} : Word = k * (TVR_SIZE * TVN_SIZE * TVN_SIZE * TVN_SIZE * TVN_SIZE)
  /\ MaxLag \in Nat
  /\ \A l \in Loads : l.nodes \subseteq Nodes /\ l.timeOuts \subseteq Nat /\ l.horizon \in Nat

Slots == ({1} \X (0 .. TVR_SIZE - 1)) \cup ((2 .. 5) \X (0 .. TVN_SIZE - 1))
Heads == Slots \cup Nodes      \* everything that has a ListHead

ASSUME HeadsAssumption == NULL \notin Heads /\ Nodes \cap Slots = {}

VARIABLES
  next, prev,              \* the two pointers of every ListHead
  iIndex,                  \* of each wheel: the slot to be emptied next
  dwCheckTime,             \* the next tick to process
  dwNodeCount, dwMaxNodeCount,
  dwExpire,                \* of each node
  pc, dwCurTime, n, pstCur,  \* Timer_Check: where it stands, and its locals
  now,                     \* gettimeofday, in ticks since stBaseTV
  armed,                   \* the nodes the caller added and that did not expire
  misplaced,               \* history: armed nodes once added past the end of tv2
  load                     \* the load of this run of the process

wheels == <<next, prev, iIndex, dwCheckTime, dwNodeCount, dwMaxNodeCount, dwExpire>>
locals == <<pc, dwCurTime, n, pstCur>>
vars == <<wheels, locals, now, armed, misplaced, load>>

Timer_Init ==
  /\ next = [x \in Heads |-> IF x \in Nodes THEN NULL ELSE x]
  /\ prev = [x \in Heads |-> IF x \in Nodes THEN NULL ELSE x]
  /\ iIndex = [v \in 1 .. 5 |-> 0]
  /\ dwCheckTime = 0 /\ dwNodeCount = 0 /\ dwMaxNodeCount = 0
  /\ dwExpire = [x \in Nodes |-> 0]

Init ==
  /\ Timer_Init
  /\ pc = "idle" /\ dwCurTime = 0 /\ n = 1 /\ pstCur = NULL
  /\ now = 0 /\ armed = {} /\ misplaced = {} /\ load \in Loads

------------------------------------------------------------------------------
\* An unsigned difference read as an int.
Signed(x) == LET u == x % Word IN IF u < Word \div 2 THEN u ELSE u - Word

\* The range of idx each wheel takes, and the ticks of one of its slots.
Span(v) == CASE v = 1 -> 1
             [] v = 2 -> TVR_SIZE
             [] v = 3 -> TVR_SIZE * TVN_SIZE
             [] v = 4 -> TVR_SIZE * TVN_SIZE * TVN_SIZE
             [] v = 5 -> TVR_SIZE * TVN_SIZE * TVN_SIZE * TVN_SIZE

\* Bug: a node a whole turn away is kept in the root.
Bug_WheelFor(idx) ==
  IF idx <= Span(2) THEN 1
  ELSE CHOOSE v \in 2 .. 5 : Span(v) <= idx /\ (v < 5 => idx < Span(v + 1))

WheelFor(idx) ==
  IF idx < Span(2) THEN 1
  ELSE CHOOSE v \in 2 .. 5 : Span(v) <= idx /\ (v < 5 => idx < Span(v + 1))

\* i: the slot of the wheel, with TVR_MASK for tv1 and, by mistake, for tv2.
SlotFor(v, expires) == (expires \div Span(v)) % (IF v <= 2 THEN TVR_SIZE ELSE TVN_SIZE)

\* The slot Timer_InternalAdd computes; one of tv2 may lie past its end.
Vec(expires) ==
  LET idx == Signed(expires - dwCheckTime)
      v   == WheelFor(idx)
  IN  IF idx < 0 THEN <<1, iIndex[1]>> ELSE <<v, SlotFor(v, expires)>>

\* vec->prev: the last element of the slot.  Past the end of tv2 lie the words
\* of tv3, tv4 and tv5, each an iIndex and its padding before the lists; the
\* word at 2 * TVN_SIZE is tv4.iIndex, no address at all.
VecPrev(vec) ==
  LET i == vec[2]
      S == TVN_SIZE
  IN  IF vec \in Slots THEN prev[vec]
      ELSE CASE i \in S .. 2 * S - 1      -> next[<<3, i - S>>]
             [] i = 2 * S                 -> NULL
             [] i \in 2 * S + 1 .. 3 * S  -> prev[<<4, i - 2 * S - 1>>]
             [] i \in 3 * S + 1 .. 4 * S  -> next[<<5, i - 3 * S - 1>>]

\* ListAdd(cur, head).
ListAdd(cur, head) ==
  LET after == next[head]
  IN  /\ prev' = [prev EXCEPT ![after] = cur, ![cur] = head]
      /\ next' = [next EXCEPT ![cur] = after, ![head] = cur]

Bug_KeepsList(head) == UNCHANGED <<next, prev>>

INIT_LIST_HEAD(head) ==
  /\ next' = [next EXCEPT ![head] = head]
  /\ prev' = [prev EXCEPT ![head] = head]

\* Timer_InternalAdd when it follows an address, and when it crashes.
InternalAdd(x, expires) ==
  /\ VecPrev(Vec(expires)) # NULL
  /\ ListAdd(x, VecPrev(Vec(expires)))
  /\ misplaced' = IF Vec(expires) \in Slots THEN misplaced ELSE misplaced \cup {x}

Crash(expires) ==
  /\ VecPrev(Vec(expires)) = NULL
  /\ pc' = "dead"
  /\ UNCHANGED <<wheels, dwCurTime, n, pstCur, now, armed, misplaced, load>>

Expires(t) == (now + t) % Word

------------------------------------------------------------------------------
\* The caller of Timer_Add sets OnExpire of a node of its own.
Timer_Add(x, t) ==
  /\ pc = "idle" /\ x \in load.nodes \ armed
  /\ InternalAdd(x, Expires(t))
  /\ dwExpire' = [dwExpire EXCEPT ![x] = Expires(t)]
  /\ dwNodeCount' = dwNodeCount + 1
  /\ dwMaxNodeCount' = IF dwNodeCount' > dwMaxNodeCount THEN dwNodeCount' ELSE dwMaxNodeCount
  /\ armed' = armed \cup {x}
  /\ UNCHANGED <<iIndex, dwCheckTime, locals, now, load>>

AddCrash(t) == pc = "idle" /\ armed # load.nodes /\ Crash(Expires(t))

\* The beginning of a turn of the loop of Timer_RunTimerList.
BeginTick(root) ==
  IF root = 0
  THEN pc' = "cascade" /\ n' = 2 /\ pstCur' = next[<<2, iIndex[2]>>]
  ELSE pc' = "fire" /\ UNCHANGED <<n, pstCur>>

\* The test of line 283, unsigned and never negative, is always true; the
\* loop of Timer_RunTimerList compares the two counters as they are.
Runs == now % Word >= dwCheckTime

Timer_Check ==
  /\ pc = "idle"
  /\ dwCurTime' = now % Word
  /\ IF Runs THEN BeginTick(iIndex[1]) ELSE UNCHANGED <<pc, n, pstCur>>
  /\ UNCHANGED <<wheels, now, armed, misplaced, load>>

\* Timer_CascadeTimers, for each node of the slot.
CascadeHead == <<n, iIndex[n]>>

CascadeNode ==
  /\ pc = "cascade" /\ pstCur # CascadeHead
  /\ InternalAdd(pstCur, dwExpire[pstCur])
  /\ pstCur' = next[pstCur]
  /\ UNCHANGED <<iIndex, dwCheckTime, dwNodeCount, dwMaxNodeCount, dwExpire,
                 pc, dwCurTime, n, now, armed, load>>

Bug_TurnedLate(i) == i = 0
Turned(i) == i = 1

\* The slot is emptied; the next wheel follows when this one has turned once.
CascadeDone ==
  /\ pc = "cascade" /\ pstCur = CascadeHead
  /\ INIT_LIST_HEAD(CascadeHead)
  /\ iIndex' = [iIndex EXCEPT ![n] = (@ + 1) % TVN_SIZE]
  /\ IF Turned(iIndex'[n]) /\ n < 5
     THEN n' = n + 1 /\ pstCur' = next[<<n + 1, iIndex[n + 1]>>] /\ UNCHANGED pc
     ELSE pc' = "fire" /\ UNCHANGED <<n, pstCur>>
  /\ UNCHANGED <<dwCheckTime, dwNodeCount, dwMaxNodeCount, dwExpire,
                 dwCurTime, now, armed, misplaced, load>>

Due == next[<<1, iIndex[1]>>]      \* the first node of the slot of this tick

\* Bug: the node is cleared before it is taken out of the list.
Bug_ClearsFirst(x, nx, pv) ==
  /\ next' = [nx EXCEPT ![pv[x]] = NULL, ![x] = NULL]
  /\ prev' = [pv EXCEPT ![x] = NULL]

\* ListDel and memset, after the callback.
Unlink(x, nx, pv) ==
  /\ next' = [nx EXCEPT ![pv[x]] = nx[x], ![x] = NULL]
  /\ prev' = [pv EXCEPT ![nx[x]] = pv[x], ![x] = NULL]

CountOff(count) == count - 1

\* The callback adds no node.
Fire ==
  /\ pc = "fire" /\ Due \in Nodes
  /\ Unlink(Due, next, prev)
  /\ dwNodeCount' = CountOff(dwNodeCount)
  /\ dwExpire' = [dwExpire EXCEPT ![Due] = 0]
  /\ armed' = armed \ {Due} /\ misplaced' = misplaced \ {Due}
  /\ UNCHANGED <<iIndex, dwCheckTime, dwMaxNodeCount, locals, now, load>>

\* The callback calls Timer_Add for another node, between the two steps above.
FireAndAdd(x, t) ==
  /\ pc = "fire" /\ Due \in Nodes /\ x \in load.nodes \ armed
  /\ LET vec == Vec(Expires(t))
         head == VecPrev(vec)
         after == next[head]
     IN  /\ head # NULL
         /\ Unlink(Due, [next EXCEPT ![x] = after, ![head] = x],
                        [prev EXCEPT ![after] = x, ![x] = head])
         /\ misplaced' = (IF vec \in Slots THEN misplaced ELSE misplaced \cup {x}) \ {Due}
  /\ dwExpire' = [dwExpire EXCEPT ![x] = Expires(t), ![Due] = 0]
  /\ dwMaxNodeCount' = IF dwNodeCount + 1 > dwMaxNodeCount THEN dwNodeCount + 1
                                                           ELSE dwMaxNodeCount
  /\ armed' = (armed \cup {x}) \ {Due}
  /\ dwNodeCount' = CountOff(dwNodeCount + 1)
  /\ UNCHANGED <<iIndex, dwCheckTime, locals, now, load>>

FireCrash(t) == pc = "fire" /\ Due \in Nodes /\ armed # load.nodes /\ Crash(Expires(t))

Bug_SlotDone == TRUE
SlotDone == Due \notin Nodes

TickDone ==
  /\ pc = "fire" /\ SlotDone
  /\ dwCheckTime' = (dwCheckTime + 1) % Word
  /\ iIndex' = [iIndex EXCEPT ![1] = (@ + 1) % TVR_SIZE]
  /\ IF dwCurTime >= dwCheckTime' THEN BeginTick(iIndex'[1])
                                  ELSE pc' = "idle" /\ UNCHANGED <<n, pstCur>>
  /\ UNCHANGED <<next, prev, dwNodeCount, dwMaxNodeCount, dwExpire, dwCurTime,
                 now, armed, misplaced, load>>

\* Time passes between the calls, and inside a callback.
Clock ==
  /\ now < load.horizon /\ Signed(now - dwCheckTime) < MaxLag
  /\ now' = now + 1
  /\ UNCHANGED <<wheels, locals, armed, misplaced, load>>

\* The process crashed or came to its horizon, and starts over.
Restart ==
  /\ pc = "dead" \/ (pc = "idle" /\ now = load.horizon)
  /\ next' = [x \in Heads |-> IF x \in Nodes THEN NULL ELSE x]
  /\ prev' = [x \in Heads |-> IF x \in Nodes THEN NULL ELSE x]
  /\ iIndex' = [v \in 1 .. 5 |-> 0]
  /\ dwCheckTime' = 0 /\ dwNodeCount' = 0 /\ dwMaxNodeCount' = 0
  /\ dwExpire' = [x \in Nodes |-> 0]
  /\ pc' = "idle" /\ dwCurTime' = 0 /\ n' = 1 /\ pstCur' = NULL
  /\ now' = 0 /\ armed' = {} /\ misplaced' = {} /\ UNCHANGED load

Next ==
  \/ \E x \in load.nodes, t \in load.timeOuts : Timer_Add(x, t) \/ FireAndAdd(x, t)
  \/ \E t \in load.timeOuts : AddCrash(t) \/ FireCrash(t)
  \/ Timer_Check \/ CascadeNode \/ CascadeDone
  \/ Fire \/ TickDone \/ Clock \/ Restart

Spec == Init /\ [][Next]_vars

------------------------------------------------------------------------------
\* Types: no pointer but those of idle nodes is ever NULL.
TypeOK ==
  /\ next \in [Heads -> Heads \cup {NULL}] /\ prev \in [Heads -> Heads \cup {NULL}]
  /\ \A x \in Slots \cup armed : next[x] # NULL /\ prev[x] # NULL
  /\ iIndex[1] \in 0 .. TVR_SIZE - 1 /\ \A v \in 2 .. 5 : iIndex[v] \in 0 .. TVN_SIZE - 1
  /\ dwCheckTime \in 0 .. Word - 1 /\ dwExpire \in [Nodes -> 0 .. Word - 1]
  /\ dwMaxNodeCount \in Nat
  /\ pc \in {"idle", "cascade", "fire", "dead"} /\ n \in 1 .. 5
  /\ pstCur \in Heads \cup {NULL}

\* Outside a cascade every list is closed and doubly linked: no add, cascade or
\* expiry leaves a pointer into a slot that was emptied or a node that is gone;
\* dwNodeCount counts the nodes, wherever they were put.  And a cascade always
\* finds an address to follow: only Timer_Add crashes.
ListsSound ==
  /\ pc \in {"idle", "fire"} =>
       \A x \in Slots \cup armed : prev[next[x]] = x /\ next[prev[x]] = x
  /\ pc = "cascade" /\ pstCur # CascadeHead =>
       pstCur \in armed /\ VecPrev(Vec(dwExpire[pstCur])) # NULL
  /\ dwNodeCount = Cardinality(armed) /\ dwMaxNodeCount >= dwNodeCount

\* Each wheel stands where dwCheckTime says: wheel v has been cascaded once for
\* every started span of one of its slots.
WheelsAligned ==
  pc = "idle" =>
    /\ iIndex[1] = dwCheckTime % TVR_SIZE
    /\ \A v \in 2 .. 5 : iIndex[v] = ((dwCheckTime + Span(v) - 1) \div Span(v)) % TVN_SIZE

\* A node is never expired before its time, as the difference of line 85 tells
\* it.  (A misplaced one can be: it is linked behind a node that was cascaded
\* before it.)
NeverEarly ==
  [][\A x \in armed \ misplaced :
       x \notin armed' /\ pc = "fire" => Signed(dwExpire[x] - dwCheckTime) <= 0]_vars

\* No tick passes while a node due at it, or before it, waits, whatever wheels
\* the node came through and whenever in a tick it was added.
NeverLate ==
  [][pc = "fire" /\ dwCheckTime' # dwCheckTime =>
       \A x \in armed' \ misplaced' : Signed(dwExpire'[x] - dwCheckTime) > 0]_vars

\* Timer.h: "all the tasks that are due are in the first group".
DueInRoot ==
  \A x \in armed : pc = "fire" /\ dwExpire[x] = dwCheckTime =>
    \E k \in 1 .. Cardinality(Nodes) :
      LET walk[j \in 0 .. k] == IF j = 0 THEN <<1, iIndex[1]>> ELSE next[walk[j - 1]]
      IN  walk[k] = x
=============================================================================
