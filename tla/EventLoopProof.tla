--------------------------- MODULE EventLoopProof ---------------------------
(***************************************************************************)
(* The event loop and its table of connections, for every set of           *)
(* descriptors, every capacity of the table and every behaviour of peers   *)
(* and callbacks: no descriptor is forgotten, table and descriptors agree, *)
(* and events meet the connections they were fetched for.                  *)
(***************************************************************************)
EXTENDS EventLoop, FiniteSetTheorems, SequenceTheorems, WellFoundedInduction, TLAPS

\* Before the server listens, and after it failed to, nothing is watched.
Starting ==
  pc \in {"listen", "exit"} =>
    /\ open = (IF pc = "listen" THEN {iServSocket} ELSE {}) /\ readable = {}
    /\ \A s \in All : interest[s] = {}

\* The events of one wait are of different descriptors; each is of a connection
\* that is still the one it was fetched for, unless a callback closed one whose
\* event was waiting.
EventsOwned ==
  /\ \A i, j \in DOMAIN pEvents : i # j => pEvents[i].fd # pEvents[j].fd
  /\ crossed \/ \A i \in DOMAIN pEvents : ~pEvents[i].stale /\ pEvents[i].fd \in open
  /\ pc # "events" => pEvents = <<>>

\* An entry that is given free keeps no socket that could come again.
FreeHasNoSocket == \A i \in Free(list) : list[i].iSocket \notin Sockets

IInv == TypeOK /\ Starting /\ OpenIsWatched /\ TableMatches /\ FreeHasNoSocket /\ EventsOwned

EventSet == [fd : All, flags : SUBSET Flags, stale : BOOLEAN]
Entries == [iSocket : Sockets \cup {0, -1}, iStat : CONN_STAT]
ListTyped == \E n \in Capacities : list \in [0 .. n - 1 -> Entries]

(***************************************************************************)
(* A search that stops at the first of several indices, and a kernel that  *)
(* gives the lowest descriptor, find one.                                  *)
(***************************************************************************)
LEMMA MinIsMember ==
  ASSUME NEW S, S \subseteq Nat, S # {}
  PROVE  Min(S) \in S
<1> DEFINE Below == {pair \in Nat \X Nat : pair[1] < pair[2]}
<1>1. IsWellFoundedOn(Below, Nat)
  <2>1. Below = OpToRel(<, Nat)
    BY Zenon DEF OpToRel
  <2>2. QED
    BY <2>1, NatLessThanWellFounded, Zenon
<1> HIDE DEF Below
<1>2. PICK x \in S : \A y \in S : <<y, x>> \notin Below
  BY <1>1, WFMin
<1>3. ASSUME NEW y \in S PROVE x <= y
  <2>1. x \in Nat /\ y \in Nat
    OBVIOUS
  <2>2. y < x => <<y, x>> \in Below
    BY <2>1 DEF Below
  <2>3. QED
    BY <1>2, <2>1, <2>2
<1>4. QED
  BY <1>3 DEF Min

\* So a lookup and a search for a free entry name an entry of the table.
LEMMA FirstIsEntry ==
  ASSUME ListTyped
  PROVE  /\ \A s : At(list, s) # {} => Min(At(list, s)) \in At(list, s)
         /\ Free(list) # {} => Min(Free(list)) \in Free(list)
<1>1. DOMAIN list \subseteq Nat
  BY EventLoopAssumption DEF ListTyped
<1>2. Free(list) \subseteq Nat /\ \A s : At(list, s) \subseteq Nat
  BY <1>1 DEF Free, At
<1>3. QED
  BY <1>2, MinIsMember

(***************************************************************************)
(* What a callback does to the table.                                      *)
(***************************************************************************)
\* A connection that is closed leaves the table with its descriptor.
LEMMA DelMatches ==
  ASSUME ListTyped, TableMatches, FreeHasNoSocket, open \subseteq All, NEW s \in Sockets,
         list' = ConnList_Del(list, s), open' = open \ {s}
  PROVE  ListTyped' /\ TableMatches' /\ FreeHasNoSocket'
<1>1. CASE At(list, s) = {}
  <2>1. list' = list /\ \A i \in DOMAIN list : list[i].iSocket # s
    BY <1>1 DEF ConnList_Del, At
  <2>2. QED
    BY <2>1 DEF ListTyped, TableMatches, FreeHasNoSocket, Free
<1>2. CASE At(list, s) # {}
  <2>1. PICK k \in At(list, s) : k = Min(At(list, s))
    BY <1>2, FirstIsEntry
  <2>2. k \in DOMAIN list /\ list[k].iSocket = s
    BY <2>1 DEF At
  <2>3. list' = [list EXCEPT ![k] = [iSocket |-> -1, iStat |-> "SOCKET_INIT"]]
    BY <1>2, <2>1 DEF ConnList_Del
  <2>4. PICK n \in Capacities : list \in [0 .. n - 1 -> Entries]
    BY DEF ListTyped
  <2>5. list' \in [0 .. n - 1 -> Entries]
    BY <2>2, <2>3, <2>4 DEF Entries, CONN_STAT
  <2>6. \A i \in DOMAIN list : list[i].iStat = "SOCKET_INIT" => list[i].iSocket # s
    BY DEF FreeHasNoSocket, Free
  <2>7. \A i \in DOMAIN list : list[i].iSocket = s => i = k
    BY <2>2, <2>6 DEF TableMatches, Free
  <2>8. -1 \notin open' /\ -1 \notin Sockets
    BY EventLoopAssumption DEF All
  <2>9. \A i \in DOMAIN list' : list'[i].iStat # "SOCKET_INIT" <=> list'[i].iSocket \in open'
    BY <2>2, <2>3, <2>4, <2>5, <2>7, <2>8 DEF TableMatches
  <2>10. FreeHasNoSocket'
    BY <2>2, <2>3, <2>4, <2>5, <2>8 DEF FreeHasNoSocket, Free
  <2>11. \A i, j \in DOMAIN list' :
           list'[i].iSocket = list'[j].iSocket /\ i # j => list'[i].iStat = "SOCKET_INIT"
    BY <2>2, <2>3, <2>4, <2>5, <2>8, <2>9 DEF TableMatches, Free
  <2>12. QED
    BY <2>5, <2>9, <2>10, <2>11 DEF ListTyped, TableMatches, Free
<1>3. QED
  BY <1>1, <1>2

\* A connection that is open enters the table if it is not there.
LEMMA KnownMatches ==
  ASSUME ListTyped, TableMatches, FreeHasNoSocket, NEW s \in Sockets \cap open,
         list' = Known(s), open' = open
  PROVE  ListTyped' /\ TableMatches' /\ FreeHasNoSocket'
<1>1. CASE list' = list
  BY <1>1 DEF ListTyped, TableMatches, FreeHasNoSocket, Free
<1>2. CASE list' # list
  <2>1. At(list, s) = {} /\ Free(list) # {}
    BY <1>2 DEF Known, ConnList_Add
  <2>2. PICK k \in Free(list) : k = Min(Free(list))
    BY <2>1, FirstIsEntry
  <2>3. k \in DOMAIN list
    BY <2>2 DEF Free
  <2>4. list' = [list EXCEPT ![k] = [iSocket |-> s, iStat |-> "SOCKET_PASSIVE_CONNECT"]]
    BY <2>1, <2>2 DEF Known, ConnList_Add
  <2>5. PICK n \in Capacities : list \in [0 .. n - 1 -> Entries]
    BY DEF ListTyped
  <2>6. list' \in [0 .. n - 1 -> Entries]
    BY <2>3, <2>4, <2>5 DEF Entries, CONN_STAT
  <2>7. \A i \in DOMAIN list : list[i].iSocket # s
    BY <2>1 DEF At
  <2>8. \A i \in DOMAIN list' : list'[i].iStat # "SOCKET_INIT" <=> list'[i].iSocket \in open'
    BY <2>3, <2>4, <2>5, <2>6 DEF TableMatches
  <2>9. FreeHasNoSocket'
    BY <2>3, <2>4, <2>5, <2>6 DEF FreeHasNoSocket, Free
  <2>10. \A i, j \in DOMAIN list' :
           list'[i].iSocket = list'[j].iSocket /\ i # j => list'[i].iStat = "SOCKET_INIT"
    BY <2>3, <2>4, <2>5, <2>6, <2>7 DEF TableMatches, Free
  <2>11. QED
    BY <2>6, <2>8, <2>9, <2>10 DEF ListTyped, TableMatches, Free
<1>3. QED
  BY <1>1, <1>2

(***************************************************************************)
(* What is left of the events of a wait.                                   *)
(***************************************************************************)
\* The events behind the first are of other descriptors than the first.
LEMMA RestOwned ==
  ASSUME TypeOK, EventsOwned, pEvents # <<>>, NEW rest, rest = Continue(pEvents)
  PROVE  /\ rest \in Seq(EventSet)
         /\ \A i, j \in DOMAIN rest : i # j => rest[i].fd # rest[j].fd
         /\ \A i \in DOMAIN rest : i + 1 \in DOMAIN pEvents /\ rest[i] = pEvents[i + 1]
                                  /\ rest[i].fd # Event.fd
<1>1. pEvents \in Seq(EventSet) /\ Event = pEvents[1]
  BY DEF TypeOK, EventSet, Event
<1>2. /\ rest \in Seq(EventSet) /\ Len(rest) = Len(pEvents) - 1 /\ Len(pEvents) \in Nat
      /\ \A i \in 1 .. Len(rest) : rest[i] = pEvents[i + 1]
  BY <1>1 DEF Continue
<1>3. \A i \in 1 .. Len(rest) : i + 1 \in 1 .. Len(pEvents) /\ i + 1 # 1
  BY <1>2
<1>4. DOMAIN rest = 1 .. Len(rest) /\ DOMAIN pEvents = 1 .. Len(pEvents)
  BY <1>1, <1>2
<1>5. 1 \in 1 .. Len(pEvents)
  BY <1>1
<1>6. \A i \in DOMAIN rest : /\ i + 1 \in DOMAIN pEvents /\ rest[i] = pEvents[i + 1]
                             /\ rest[i].fd # Event.fd
  BY <1>1, <1>2, <1>3, <1>4, <1>5 DEF EventsOwned
<1>7. ASSUME NEW i \in DOMAIN rest, NEW j \in DOMAIN rest, i # j
      PROVE  rest[i].fd # rest[j].fd
  <2>1. i + 1 # j + 1
    BY <1>2, <1>4, <1>7
  <2>2. QED
    BY <1>6, <2>1 DEF EventsOwned
<1>8. QED
  BY <1>2, <1>6, <1>7

\* Marking events leaves their descriptors, and those of other connections.
LEMMA OutdatedEvents ==
  ASSUME NEW events \in Seq(EventSet), NEW s
  PROVE  /\ Outdated(events, s) \in Seq(EventSet)
         /\ DOMAIN Outdated(events, s) = DOMAIN events
         /\ \A i \in DOMAIN events :
              /\ Outdated(events, s)[i].fd = events[i].fd
              /\ events[i].fd # s => Outdated(events, s)[i] = events[i]
<1> DEFINE f == Outdated(events, s)
<1>1. Len(events) \in Nat /\ DOMAIN events = 1 .. Len(events)
  OBVIOUS
<1>2. ASSUME NEW i \in 1 .. Len(events)
      PROVE  /\ f[i] \in EventSet /\ f[i].fd = events[i].fd
             /\ events[i].fd # s => f[i] = events[i]
  <2>1. events[i] \in EventSet
    BY <1>1
  <2>2. f[i] = IF events[i].fd = s THEN [events[i] EXCEPT !.stale = TRUE] ELSE events[i]
    BY DEF Outdated
  <2>3. QED
    BY <2>1, <2>2 DEF EventSet
<1>3. DOMAIN f = 1 .. Len(events)
  BY DEF Outdated
<1>4. f \in [1 .. Len(events) -> EventSet]
  BY <1>2, <1>3 DEF Outdated
<1>5. f \in Seq(EventSet)
  BY <1>1, <1>4, SeqDef
<1>6. QED
  BY <1>1, <1>2, <1>3, <1>5

\* Closing a connection keeps the invariant, from a handler, another's handler
\* or OnLoop: what is left of the events is of others, or crossed says so.
LEMMA CloseKeepsIInv ==
  ASSUME IInv, NEW s \in Sockets, NEW events \in Seq(EventSet), HandleClose(s, events),
         pc \in {"loop", "events"}, pc' = pc, crossed' \in BOOLEAN,
         \A i, j \in DOMAIN events : i # j => events[i].fd # events[j].fd,
         crossed' \/ \A i \in DOMAIN events :
                      ~events[i].stale /\ events[i].fd \in open /\ events[i].fd # s,
         pc # "events" => events = <<>>
  PROVE  IInv'
<1>1. ListTyped' /\ TableMatches' /\ FreeHasNoSocket'
  BY DelMatches DEF HandleClose, IInv, TypeOK, ListTyped, Entries
<1>2. pEvents' = Outdated(events, s) /\ pEvents' \in Seq(EventSet)
  BY OutdatedEvents DEF HandleClose
<1>3. TypeOK'
  BY <1>1, <1>2 DEF HandleClose, IInv, TypeOK, ListTyped, Entries, EventSet, All
<1>4. OpenIsWatched' /\ Starting'
  BY DEF HandleClose, IInv, TypeOK, OpenIsWatched, Starting, All
<1>5. EventsOwned'
  <2>1. \A i, j \in DOMAIN pEvents' : i # j => pEvents'[i].fd # pEvents'[j].fd
    BY <1>2, OutdatedEvents
  <2>2. crossed' \/ \A i \in DOMAIN pEvents' : ~pEvents'[i].stale /\ pEvents'[i].fd \in open'
    BY <1>2, OutdatedEvents DEF HandleClose
  <2>3. pc' # "events" => pEvents' = <<>>
    <3>1. events = <<>> => Outdated(events, s) = <<>>
      BY DEF Outdated
    <3>2. QED
      BY <1>2, <3>1
  <2>4. QED
    BY <2>1, <2>2, <2>3 DEF EventsOwned
<1>6. QED
  BY <1>1, <1>3, <1>4, <1>5 DEF IInv

(***************************************************************************)
(* The steps.                                                              *)
(***************************************************************************)
\* Nothing is open but the listening socket, and the table is free.
LEMMA InitIInv == ASSUME Init PROVE IInv
<1>1. PICK n \in Capacities : list = ConnList_Init(n)
  BY DEF Init
<1>2. list \in [0 .. n - 1 -> Entries]
  BY <1>1 DEF ConnList_Init, Entries, CONN_STAT
<1>3. \A i \in DOMAIN list : list[i] = [iSocket |-> 0, iStat |-> "SOCKET_INIT"]
  BY <1>1 DEF ConnList_Init
<1>4. TypeOK
  <2>1. backlog \in 0 .. Backlog
    BY EventLoopAssumption DEF Init
  <2>2. interest \in [All -> SUBSET Flags] /\ open \subseteq All
    BY DEF Init, All
  <2>3. pEvents \in Seq(EventSet)
    BY DEF Init
  <2>4. QED
    BY <1>2, <2>1, <2>2, <2>3 DEF Init, TypeOK, Entries, EventSet
<1>5. TableMatches /\ FreeHasNoSocket
  BY <1>3, EventLoopAssumption DEF Init, TableMatches, FreeHasNoSocket, Free
<1>6. QED
  BY <1>4, <1>5 DEF Init, IInv, Starting, OpenIsWatched, EventsOwned

\* What peers do is done to open descriptors, and changes nothing of the server's.
LEMMA PeersKeepIInv ==
  ASSUME IInv, Connect \/ \E s \in Sockets : Arrives(s) \/ PeerCloses(s) \/ PeerFails(s)
  PROVE  IInv'
<1>1. UNCHANGED <<pc, pEvents, open, interest, list, crossed>>
  BY DEF Connect, Arrives, PeerCloses, PeerFails
<1>2. TypeOK'
  <2>1. CASE Connect
    BY <2>1, EventLoopAssumption DEF Connect, IInv, TypeOK
  <2>2. ASSUME NEW s \in Sockets, Arrives(s) \/ PeerCloses(s) \/ PeerFails(s) PROVE TypeOK'
    BY <2>2 DEF Arrives, PeerCloses, PeerFails, IInv, TypeOK
  <2>3. QED
    BY <2>1, <2>2
<1>3. Starting'
  BY <1>1, EventLoopAssumption
     DEF Connect, Arrives, PeerCloses, PeerFails, IInv, Starting
<1>4. QED
  BY <1>1, <1>2, <1>3 DEF IInv, OpenIsWatched, TableMatches, FreeHasNoSocket, Free, EventsOwned

\* The server starts and stops with nothing open but its own socket.
LEMMA StartKeepsIInv ==
  ASSUME IInv, Listen \/ ListenFails \/ Restart
  PROVE  IInv'
<1>1. /\ UNCHANGED <<list, pEvents, crossed, readable, ended, failed>>
      /\ pEvents = <<>> /\ readable = {} /\ pc' \in {"listen", "loop", "exit"}
  BY DEF Listen, ListenFails, Restart, IInv, EventsOwned, Starting
<1>2. TypeOK'
  <2>1. open' \subseteq All
    BY DEF Listen, ListenFails, Restart, IInv, TypeOK, All
  <2>2. backlog' \in 0 .. Backlog
    BY EventLoopAssumption DEF Listen, ListenFails, Restart, IInv, TypeOK
  <2>3. interest' \in [All -> SUBSET Flags]
    BY DEF Listen, ListenFails, Restart, Watch, Epoller_SetEvent, IInv, TypeOK, Flags
  <2>4. QED
    BY <1>1, <2>1, <2>2, <2>3 DEF IInv, TypeOK
<1>3. Starting' /\ OpenIsWatched'
  <2>1. CASE Listen
    <3>1. /\ open = {iServSocket} /\ \A s \in All : interest[s] = {}
          /\ interest \in [All -> SUBSET Flags]
      BY <2>1 DEF Listen, IInv, TypeOK, Starting
    <3>2. interest' = [interest EXCEPT ![iServSocket] = {"EVENT_READ", "EVENT_ERROR"}]
      BY <2>1 DEF Listen, Watch, Epoller_SetEvent
    <3>3. iServSocket \in All
      BY DEF All
    <3>4. QED
      BY <2>1, <3>1, <3>2, <3>3 DEF Listen, Starting, OpenIsWatched
  <2>2. CASE ListenFails \/ Restart
    BY <1>1, <2>2 DEF ListenFails, Restart, IInv, Starting, OpenIsWatched
  <2>3. QED
    BY <2>1, <2>2
<1>4. \A i \in DOMAIN list : list[i].iSocket # iServSocket
  BY EventLoopAssumption DEF IInv, TypeOK
<1>5. TableMatches' /\ FreeHasNoSocket'
  BY <1>1, <1>4 DEF Listen, ListenFails, Restart, IInv, Starting, TableMatches, FreeHasNoSocket, Free
<1>6. QED
  BY <1>1, <1>2, <1>3, <1>5 DEF IInv, EventsOwned

\* What epoll reports is of descriptors it watches, and so of open ones.
LEMMA ReadyIsOpen ==
  ASSUME IInv, pc = "loop", NEW s \in All, Ready(s) # {}
  PROVE  s \in open /\ Ready(s) \subseteq Flags
<1>1. interest[s] \subseteq Flags
  BY DEF IInv, TypeOK
<1>2. interest[s] # {} /\ Ready(s) \subseteq interest[s] \cup {"EVENT_ERROR"}
  BY DEF Ready
<1>3. QED
  BY <1>1, <1>2 DEF IInv, OpenIsWatched, Flags

\* The events fetched are of different open descriptors.
LEMMA WaitKeepsIInv == ASSUME IInv, WaitEvent PROVE IInv'
<1> DEFINE ready == {s \in All : Ready(s) # {}}
<1>1. PICK order \in SetToSeqs(ready) :
        /\ order # <<>>
        /\ pEvents' = [i \in 1 .. Len(order) |->
                         [fd |-> order[i], flags |-> Epoller_GetEvent(Ready(order[i])),
                          stale |-> FALSE]]
  BY DEF WaitEvent
<1>2. Cardinality(ready) \in Nat
  <2>1. IsFiniteSet(All)
    BY EventLoopAssumption, FS_AddElement DEF All
  <2>2. QED
    BY <2>1, FS_Subset, FS_CardinalityType
<1> HIDE DEF ready
<1>3. /\ order \in [1 .. Cardinality(ready) -> ready] /\ Len(order) = Cardinality(ready)
      /\ \A i, j \in 1 .. Cardinality(ready) : i # j => order[i] # order[j]
  <2>1. /\ order \in [1 .. Cardinality(ready) -> ready]
        /\ \A i, j \in 1 .. Cardinality(ready) : i # j => order[i] # order[j]
    BY <1>1, Zenon DEF SetToSeqs
  <2>2. order \in Seq(ready)
    BY <1>2, <2>1, SeqDef
  <2>3. /\ Len(order) \in Nat /\ DOMAIN order = 1 .. Len(order)
        /\ DOMAIN order = 1 .. Cardinality(ready)
    BY <2>1, <2>2, LenProperties
  <2>4. Len(order) = Cardinality(ready)
    BY <1>2, <2>3
  <2>5. QED
    BY <2>1, <2>4
<1>4. DOMAIN pEvents' = 1 .. Len(order)
  BY <1>1
<1>5. \A i \in 1 .. Len(order) :
        /\ pEvents'[i].fd = order[i] /\ ~pEvents'[i].stale /\ order[i] \in open
        /\ pEvents'[i] \in EventSet
  <2> SUFFICES ASSUME NEW i \in 1 .. Len(order)
               PROVE  /\ pEvents'[i].fd = order[i] /\ ~pEvents'[i].stale /\ order[i] \in open
                      /\ pEvents'[i] \in EventSet
    OBVIOUS
  <2>1. pEvents'[i] = [fd |-> order[i], flags |-> Ready(order[i]), stale |-> FALSE]
    BY <1>1 DEF Epoller_GetEvent
  <2>2. order[i] \in All /\ Ready(order[i]) # {}
    BY <1>3 DEF ready
  <2>3. order[i] \in open /\ Ready(order[i]) \subseteq Flags
    BY <2>2, ReadyIsOpen DEF WaitEvent
  <2>4. QED
    BY <2>1, <2>2, <2>3 DEF EventSet
<1>6. pEvents' \in Seq(EventSet)
  <2>1. pEvents' \in [1 .. Len(order) -> EventSet]
    BY <1>1, <1>5
  <2>2. QED
    BY <1>2, <1>3, <2>1, SeqDef
<1>7. TypeOK'
  BY <1>6 DEF WaitEvent, kernel, IInv, TypeOK, EventSet
<1>8. EventsOwned'
  <2>1. \A i, j \in DOMAIN pEvents' : i # j => pEvents'[i].fd # pEvents'[j].fd
    BY <1>3, <1>4, <1>5
  <2>2. \A i \in DOMAIN pEvents' : ~pEvents'[i].stale /\ pEvents'[i].fd \in open'
    BY <1>4, <1>5 DEF WaitEvent, kernel
  <2>3. pc' = "events"
    BY DEF WaitEvent
  <2>4. QED
    BY <2>1, <2>2, <2>3 DEF EventsOwned
<1>9. QED
  BY <1>7, <1>8
     DEF WaitEvent, kernel, IInv, Starting, OpenIsWatched, TableMatches, FreeHasNoSocket, Free

\* A handler that closes nothing keeps the events behind its own.
LEMMA ContinueKeepsEvents ==
  ASSUME IInv, pc = "events", pEvents # <<>>, pEvents' = Continue(pEvents),
         open \subseteq open', UNCHANGED <<pc, crossed>>
  PROVE  pEvents' \in Seq(EventSet) /\ EventsOwned'
BY RestOwned DEF IInv, EventsOwned

\* A new connection has the lowest free descriptor, and is watched or closed.
LEMMA AcceptKeepsIInv == ASSUME IInv, Accept PROVE IInv'
<1> DEFINE s == Min(Sockets \ open)
<1>1. s \in Sockets \ open
  BY MinIsMember, EventLoopAssumption DEF Accept
<1>2. \/ interest' = [interest EXCEPT ![s] = {"EVENT_READ", "EVENT_ERROR"}] /\ open' = open \cup {s}
      \/ UNCHANGED <<interest, open>>
  BY DEF Accept, Adopt, Watch, Epoller_SetEvent
<1> HIDE DEF s
<1>3. pEvents' \in Seq(EventSet) /\ EventsOwned'
  BY <1>2, ContinueKeepsEvents DEF Accept, Accepting, Handles
<1>4. TypeOK'
  <2>1. open' \subseteq All /\ interest' \in [All -> SUBSET Flags]
    BY <1>1, <1>2 DEF IInv, TypeOK, All, Flags
  <2>2. backlog' \in 0 .. Backlog
    BY EventLoopAssumption DEF Accept, IInv, TypeOK
  <2>3. QED
    BY <1>2, <1>3, <2>1, <2>2 DEF Accept, Accepting, Handles, IInv, TypeOK, EventSet
<1>5. Starting' /\ OpenIsWatched'
  BY <1>1, <1>2 DEF Accept, Accepting, Handles, IInv, TypeOK, Starting, OpenIsWatched
<1>6. TableMatches' /\ FreeHasNoSocket'
  BY <1>1, <1>2 DEF Accept, IInv, TableMatches, FreeHasNoSocket, Free
<1>7. QED
  BY <1>3, <1>4, <1>5, <1>6 DEF IInv

\* An accept that fails costs an event.
LEMMA AcceptFailsKeepsIInv == ASSUME IInv, AcceptFails PROVE IInv'
<1>1. pEvents' \in Seq(EventSet) /\ EventsOwned'
  BY ContinueKeepsEvents DEF AcceptFails, Accepting, Handles
<1>2. backlog' \in 0 .. Backlog
  BY EventLoopAssumption DEF AcceptFails, IInv, TypeOK
<1>3. TypeOK'
  BY <1>1, <1>2 DEF AcceptFails, Accepting, Handles, IInv, TypeOK, EventSet
<1>4. QED
  BY <1>1, <1>3
     DEF AcceptFails, Accepting, Handles, IInv, Starting, OpenIsWatched, TableMatches,
         FreeHasNoSocket, Free

\* OnInput enters a connection that is open in the table.
LEMMA InputKeepsIInv == ASSUME IInv, NEW s \in Sockets, Input(s) PROVE IInv'
<1>1. pEvents' \in Seq(EventSet) /\ EventsOwned'
  BY ContinueKeepsEvents DEF Input, Inputs, Handles
<1>2. ListTyped' /\ TableMatches' /\ FreeHasNoSocket'
  BY KnownMatches DEF Input, IInv, TypeOK, ListTyped, Entries
<1>3. readable' \in {readable, readable \ {s}} /\ ended' \subseteq readable' /\ failed' \subseteq readable'
  BY DEF Input, IInv, TypeOK
<1>4. UNCHANGED interest \/ interest' = [interest EXCEPT ![s] = Flags]
  BY DEF Input, Watch, Epoller_SetEvent
<1>5. TypeOK'
  <2>1. interest' \in [All -> SUBSET Flags]
    BY <1>4 DEF IInv, TypeOK
  <2>2. QED
    BY <1>1, <1>2, <1>3, <2>1
       DEF Input, Inputs, Handles, IInv, TypeOK, EventSet, ListTyped, Entries
<1>6. Starting' /\ OpenIsWatched'
  BY <1>4 DEF Input, Inputs, Handles, IInv, TypeOK, Starting, OpenIsWatched, Flags
<1>7. QED
  BY <1>1, <1>2, <1>5, <1>6 DEF IInv

\* OnOutput changes what is watched of an open descriptor.
LEMMA OutputKeepsIInv == ASSUME IInv, NEW s \in Sockets, Output(s) PROVE IInv'
<1>1. pEvents' \in Seq(EventSet) /\ EventsOwned'
  BY ContinueKeepsEvents DEF Output, Handles
<1>2. \/ UNCHANGED interest
      \/ s \in open /\ interest' = [interest EXCEPT ![s] = {"EVENT_READ", "EVENT_ERROR"}]
  BY DEF Output, Watch, Epoller_SetEvent
<1>3. TypeOK'
  BY <1>1, <1>2 DEF Output, Handles, IInv, TypeOK, EventSet, Flags
<1>4. Starting' /\ OpenIsWatched'
  BY <1>2 DEF Output, Handles, IInv, TypeOK, Starting, OpenIsWatched
<1>5. QED
  BY <1>1, <1>3, <1>4 DEF Output, IInv, TableMatches, FreeHasNoSocket, Free

\* A callback that closes its own connection: no other event is of it.
LEMMA InputClosesKeepsIInv ==
  ASSUME IInv, NEW s \in Sockets, InputCloses(s) \/ Exception(s)
  PROVE  IInv'
<1> DEFINE rest == Continue(pEvents)
<1>1. /\ HandleClose(s, rest) /\ pc = "events" /\ pEvents # <<>> /\ Event.fd = s
      /\ UNCHANGED <<pc, crossed>>
  BY DEF InputCloses, Exception, Inputs, Handles
<1>2. /\ rest \in Seq(EventSet)
      /\ \A i, j \in DOMAIN rest : i # j => rest[i].fd # rest[j].fd
      /\ \A i \in DOMAIN rest : i + 1 \in DOMAIN pEvents /\ rest[i] = pEvents[i + 1]
                               /\ rest[i].fd # s
  BY <1>1, RestOwned DEF IInv
<1>3. crossed \/ \A i \in DOMAIN rest :
                   ~rest[i].stale /\ rest[i].fd \in open /\ rest[i].fd # s
  BY <1>2 DEF IInv, EventsOwned
<1>4. crossed' \in BOOLEAN
  BY <1>1 DEF IInv, TypeOK
<1> HIDE DEF rest
<1>5. QED
  BY <1>1, <1>2, <1>3, <1>4, CloseKeepsIInv

\* One that closes another's connection: crossed says if an event is of it.
LEMMA InputClosesOtherKeepsIInv ==
  ASSUME IInv, NEW s \in Sockets, NEW other \in Sockets, InputClosesOther(s, other)
  PROVE  IInv'
<1> DEFINE rest == Continue(pEvents)
<1>1. /\ HandleClose(other, rest) /\ pc = "events" /\ pEvents # <<>> /\ UNCHANGED pc
      /\ crossed' = (crossed \/ \E i \in 2 .. Len(pEvents) : pEvents[i].fd = other)
  BY DEF InputClosesOther, Inputs, Handles
<1>2. /\ rest \in Seq(EventSet)
      /\ \A i, j \in DOMAIN rest : i # j => rest[i].fd # rest[j].fd
      /\ \A i \in DOMAIN rest : i + 1 \in DOMAIN pEvents /\ rest[i] = pEvents[i + 1]
  BY <1>1, RestOwned DEF IInv
<1>3. \A i \in DOMAIN rest : i + 1 \in 2 .. Len(pEvents)
  <2>1. pEvents \in Seq(EventSet)
    BY DEF IInv, TypeOK, EventSet
  <2>2. QED
    BY <1>2, <2>1
<1>4. crossed' \/ \A i \in DOMAIN rest :
                    ~rest[i].stale /\ rest[i].fd \in open /\ rest[i].fd # other
  BY <1>1, <1>2, <1>3 DEF IInv, EventsOwned
<1>5. crossed' \in BOOLEAN
  BY <1>1 DEF IInv, TypeOK
<1> HIDE DEF rest
<1>6. QED
  BY <1>1, <1>2, <1>4, <1>5, CloseKeepsIInv

\* Between two waits no event is left.
LEMMA OnLoopKeepsIInv == ASSUME IInv, NEW s \in Sockets, OnLoop(s) PROVE IInv'
<1>1. HandleClose(s, <<>>) /\ pc = "loop" /\ UNCHANGED <<pc, crossed>>
  BY DEF OnLoop
<1>2. << >> \in Seq(EventSet) /\ DOMAIN << >> = {} /\ crossed' \in BOOLEAN
  BY <1>1 DEF IInv, TypeOK
<1>3. QED
  BY <1>1, <1>2, CloseKeepsIInv

\* Every step of the server, its peers and its callbacks keeps the invariant.
LEMMA StepKeepsIInv == ASSUME IInv, [Next]_vars PROVE IInv'
<1>1. CASE UNCHANGED vars \/ EventsDone
  <2>1. UNCHANGED <<pEvents, kernel, list, crossed>>
    BY <1>1 DEF vars, EventsDone
  <2>2. UNCHANGED pc \/ (pc = "events" /\ pc' = "loop" /\ pEvents = <<>>)
    BY <1>1 DEF vars, EventsDone
  <2>3. TypeOK'
    BY <2>1, <2>2 DEF kernel, IInv, TypeOK
  <2>4. Starting' /\ OpenIsWatched' /\ EventsOwned'
    BY <2>1, <2>2 DEF kernel, IInv, Starting, OpenIsWatched, EventsOwned
  <2>5. QED
    BY <2>1, <2>3, <2>4 DEF kernel, IInv, TableMatches, FreeHasNoSocket, Free
<1>2. CASE Listen \/ ListenFails \/ Restart
  BY <1>2, StartKeepsIInv
<1>3. CASE WaitEvent
  BY <1>3, WaitKeepsIInv
<1>4. CASE Accept
  BY <1>4, AcceptKeepsIInv
<1>5. CASE AcceptFails
  BY <1>5, AcceptFailsKeepsIInv
<1>6. CASE \E s \in Sockets : Input(s)
  BY <1>6, InputKeepsIInv
<1>7. CASE \E s \in Sockets : InputCloses(s) \/ Exception(s)
  BY <1>7, InputClosesKeepsIInv
<1>8. CASE \E s \in Sockets : Output(s)
  BY <1>8, OutputKeepsIInv
<1>9. CASE \E s, other \in Sockets : InputClosesOther(s, other)
  BY <1>9, InputClosesOtherKeepsIInv
<1>10. CASE Connect \/ \E s \in Sockets : Arrives(s) \/ PeerCloses(s) \/ PeerFails(s)
  BY <1>10, PeersKeepIInv
<1>11. CASE \E s \in Sockets : OnLoop(s)
  BY <1>11, OnLoopKeepsIInv
<1>12. QED
  BY <1>1, <1>2, <1>3, <1>4, <1>5, <1>6, <1>7, <1>8, <1>9, <1>10, <1>11 DEF Next, Serve

(***************************************************************************)
(* The theorems.                                                           *)
(***************************************************************************)
\* Whatever peers and callbacks do, the loop keeps its books: the types, what is
\* watched, the table, and whose the fetched events are.
THEOREM EventLoopInvariance == Spec => []IInv
<1>1. Init => IInv
  BY InitIInv
<1>2. IInv /\ [Next]_vars => IInv'
  BY StepKeepsIInv
<1>3. QED
  BY <1>1, <1>2, PTL DEF Spec

\* The descriptors, the events and the table keep their types.
THEOREM EventLoopTypeCorrect == Spec => []TypeOK
<1>1. IInv => TypeOK
  BY DEF IInv
<1>2. QED
  BY <1>1, EventLoopInvariance, PTL

\* An open descriptor is never forgotten by epoll, nor a closed one kept.
THEOREM OpenStaysWatched == Spec => []OpenIsWatched
<1>1. IInv => OpenIsWatched
  BY DEF IInv
<1>2. QED
  BY <1>1, EventLoopInvariance, PTL

\* The table of connections never holds a closed descriptor, nor one twice.
THEOREM TableStaysTrue == Spec => []TableMatches
<1>1. IInv => TableMatches
  BY DEF IInv
<1>2. QED
  BY <1>1, EventLoopInvariance, PTL

\* A handler runs for the connection its event was fetched for, although
\* descriptors are closed and given again between the two.
THEOREM EventsMeetOwners == Spec => EventMeetsOwner
<1>1. IInv /\ [Next]_vars =>
        [pc = "events" /\ pEvents # <<>> /\ HandlerFor(Event.flags) # "none" =>
           (~Event.stale /\ Event.fd \in open) \/ crossed]_vars
  <2>1. ASSUME IInv, pEvents # <<>>, ~crossed
        PROVE  ~Event.stale /\ Event.fd \in open
    <3>1. Event = pEvents[1] /\ 1 \in DOMAIN pEvents
      BY <2>1 DEF IInv, TypeOK, Event
    <3>2. QED
      BY <2>1, <3>1 DEF IInv, EventsOwned
  <2>2. QED
    BY <2>1 DEF IInv, TypeOK
<1>2. QED
  BY <1>1, EventLoopInvariance, PTL DEF Spec, EventMeetsOwner
=============================================================================
