------------------------------ MODULE EventLoop ------------------------------
(***************************************************************************)
(* net/TCPServer.cpp over net/Epoller.cpp: one thread that waits for       *)
(* events, level-triggered, and calls one handler for each; the handlers   *)
(* call back into the user's code, which keeps its connections in a        *)
(* ConnList.  The kernel's part (descriptors, readiness, epoll's interest) *)
(* and the user's callbacks are external: the kernel gives the lowest free *)
(* descriptor, and forgets what epoll was to watch when it is closed.      *)
(*                                                                         *)
(* The source is in the middle of a port from C++ classes: where a call    *)
(* leaves out an argument or uses the result of Epoller_GetReadyFd as the  *)
(* descriptor, the module follows the declarations.                        *)
(***************************************************************************)
EXTENDS ConnList, SequencesExt

CONSTANTS
  iServSocket,     \* the listening socket
  Sockets,         \* the other descriptors the process may have open
  Capacities,      \* the values of MAX_CONN_NUM
  Backlog          \* bound: connections that wait to be accepted

ASSUME EventLoopAssumption ==
  /\ IsFiniteSet(Sockets) /\ Sockets \subseteq Nat \ {0}
  /\ iServSocket \in Nat \ (Sockets \cup {0})
  /\ Capacities \subseteq Nat \ {0} /\ Backlog \in Nat \ {0}

VARIABLES
  pc,              \* "listen", "loop", "events", or "exit"
  pEvents,         \* the events of the last wait still to be handled
  backlog,         \* kernel: connections not accepted yet
  open,            \* kernel: descriptors that are open
  interest,        \* kernel: for each descriptor, what epoll watches
  readable, ended, failed,  \* kernel: data or the end to read; the end; an error
  list,            \* the ConnList
  crossed          \* history: a callback closed a connection whose event was fetched

kernel == <<backlog, open, interest, readable, ended, failed>>
vars == <<pc, pEvents, kernel, list, crossed>>

Flags == {"EVENT_READ", "EVENT_WRITE", "EVENT_ERROR"}
All == Sockets \cup {iServSocket}

Init ==
  /\ pc = "listen" /\ pEvents = <<>>
  /\ backlog = 0 /\ open = {iServSocket}
  /\ interest = [s \in All |-> {}]
  /\ readable = {} /\ ended = {} /\ failed = {}
  /\ \E n \in Capacities : list = ConnList_Init(n)
  /\ crossed = FALSE

------------------------------------------------------------------------------
(***************************************************************************)
(* The kernel and the peers.                                               *)
(***************************************************************************)
Connect ==
  /\ pc # "exit" /\ backlog < Backlog
  /\ backlog' = backlog + 1
  /\ UNCHANGED <<pc, pEvents, open, interest, readable, ended, failed, list, crossed>>

Arrives(s) ==
  /\ s \in open \cap Sockets /\ s \notin readable
  /\ readable' = readable \cup {s}
  /\ UNCHANGED <<pc, pEvents, backlog, open, interest, ended, failed, list, crossed>>

PeerCloses(s) ==
  /\ s \in open \cap Sockets /\ s \notin ended
  /\ readable' = readable \cup {s} /\ ended' = ended \cup {s}
  /\ UNCHANGED <<pc, pEvents, backlog, open, interest, failed, list, crossed>>

PeerFails(s) ==
  /\ s \in open \cap Sockets /\ s \notin failed
  /\ failed' = failed \cup {s} /\ readable' = readable \cup {s}
  /\ UNCHANGED <<pc, pEvents, backlog, open, interest, ended, list, crossed>>

\* What epoll reports of a descriptor; errors always, and every socket has
\* room for more output.
Ready(s) ==
  IF s = iServSocket
  THEN IF backlog > 0 THEN interest[s] \cap {"EVENT_READ"} ELSE {}
  ELSE (interest[s] \cap ((IF s \in readable THEN {"EVENT_READ"} ELSE {}) \cup {"EVENT_WRITE"}))
       \cup (IF s \in failed /\ interest[s] # {} THEN {"EVENT_ERROR"} ELSE {})

------------------------------------------------------------------------------
(***************************************************************************)
(* Epoller.                                                                *)
(***************************************************************************)
\* Epoller_SetEvent: the flags become the events of the same meaning.
Epoller_SetEvent(flags) == flags

Epoller_GetEvent(events) == events

\* EventAdd of a new descriptor, and EventMod of one that is watched.
Watch(s, flags) == interest' = [interest EXCEPT ![s] = Epoller_SetEvent(flags)]

\* Epoller_WaitEvent: every ready descriptor, in any order.  (It answers no
\* event at a time-out, and -1 for EINTR: the loop starts over.)
WaitEvent ==
  /\ pc = "loop"
  /\ \E order \in SetToSeqs({s \in All : Ready(s) # {}}) :
       /\ order # <<>>
       /\ pEvents' = [i \in 1 .. Len(order) |->
                        [fd |-> order[i], flags |-> Epoller_GetEvent(Ready(order[i])),
                         stale |-> FALSE]]
  /\ pc' = "events" /\ crossed' = FALSE
  /\ UNCHANGED <<kernel, list>>

------------------------------------------------------------------------------
(***************************************************************************)
(* TCPServer: starting, and closing a connection.                          *)
(***************************************************************************)
Listen ==
  /\ pc = "listen"
  /\ Watch(iServSocket, {"EVENT_READ", "EVENT_ERROR"})
  /\ pc' = "loop"
  /\ UNCHANGED <<pEvents, backlog, open, readable, ended, failed, list, crossed>>

\* Any call of Listen fails: the socket is closed and Run returns.
ListenFails ==
  /\ pc = "listen"
  /\ open' = {} /\ pc' = "exit" /\ backlog' = 0
  /\ UNCHANGED <<pEvents, interest, readable, ended, failed, list, crossed>>

\* The events not handled yet that were fetched for a connection now closed.
Outdated(events, s) ==
  [i \in 1 .. Len(events) |-> IF events[i].fd = s THEN [events[i] EXCEPT !.stale = TRUE] ELSE events[i]]

\* HandleClose: OnClose, which removes the connection from the list, then
\* CloseConnection: close, and EventDel, which fails because the descriptor is
\* closed and was forgotten by epoll with it.  events are still to be handled.
HandleClose(s, events) ==
  /\ list' = ConnList_Del(list, s)
  /\ open' = open \ {s}
  /\ interest' = [interest EXCEPT ![s] = {}]
  /\ readable' = readable \ {s} /\ ended' = ended \ {s} /\ failed' = failed \ {s}
  /\ pEvents' = Outdated(events, s)
  /\ UNCHANGED backlog

------------------------------------------------------------------------------
(***************************************************************************)
(* TCPServer_Run: OnLoop, then a handler for each event.                   *)
(***************************************************************************)
\* OnLoop may close a connection, one that was idle for too long.
OnLoop(s) ==
  /\ pc = "loop" /\ s \in open \cap Sockets
  /\ HandleClose(s, <<>>)
  /\ UNCHANGED <<pc, crossed>>

Event == Head(pEvents)

\* The one handler an event gets.  (With no flag GetReadyFd gives no descriptor;
\* epoll reports nothing but these three.)
Bug_WriteFirst(flags) ==
  IF "EVENT_ERROR" \in flags THEN "EVENT_ERROR"
  ELSE IF "EVENT_WRITE" \in flags THEN "EVENT_WRITE"
  ELSE IF "EVENT_READ" \in flags THEN "EVENT_READ" ELSE "none"
Bug_AlwaysInput(flags) == IF "EVENT_ERROR" \in flags THEN "EVENT_ERROR" ELSE "EVENT_READ"
HandlerFor(flags) ==
  IF "EVENT_ERROR" \in flags THEN "EVENT_ERROR"
  ELSE IF "EVENT_READ" \in flags THEN "EVENT_READ"
  ELSE IF "EVENT_WRITE" \in flags THEN "EVENT_WRITE" ELSE "none"

\* Bug: no "continue" after a handler.
Bug_FallsThrough(events) ==
  LET rest == Head(events).flags \ {HandlerFor(Head(events).flags)}
  IN  IF rest = {} THEN Tail(events) ELSE <<[Head(events) EXCEPT !.flags = rest]>> \o Tail(events)
Continue(events) == Tail(events)

Handles(handler) ==
  /\ pc = "events" /\ pEvents # <<>>
  /\ HandlerFor(Event.flags) = handler
  /\ UNCHANGED pc

EventsDone ==
  /\ pc = "events" /\ pEvents = <<>>
  /\ pc' = "loop"
  /\ UNCHANGED <<pEvents, kernel, list, crossed>>

\* TCPServer_Accept.  A descriptor that epoll does not take is closed.
Bug_KeepsUnwatched(s) ==
  \/ Watch(s, {"EVENT_READ", "EVENT_ERROR"}) /\ open' = open \cup {s}
  \/ UNCHANGED interest /\ open' = open \cup {s}
Adopt(s) ==
  \/ Watch(s, {"EVENT_READ", "EVENT_ERROR"}) /\ open' = open \cup {s}
  \/ UNCHANGED <<interest, open>>

Accepting == Handles("EVENT_READ") /\ Event.fd = iServSocket

Accept ==
  /\ Accepting /\ backlog > 0 /\ Sockets \ open # {}
  /\ Adopt(Min(Sockets \ open))
  /\ backlog' = backlog - 1
  /\ pEvents' = Continue(pEvents)
  /\ UNCHANGED <<readable, ended, failed, list, crossed>>

\* No descriptor is left, or the peer gave up before (EAGAIN).
AcceptFails ==
  /\ Accepting
  /\ \/ Sockets \subseteq open /\ UNCHANGED backlog
     \/ backlog' = 0
  /\ pEvents' = Continue(pEvents)
  /\ UNCHANGED <<open, interest, readable, ended, failed, list, crossed>>

\* The user's OnInput finds the connection in the list or adds it.
Known(s) ==
  IF At(list, s) # {} THEN list ELSE ConnList_Add(list, s, "SOCKET_PASSIVE_CONNECT")

Inputs(s) == Handles("EVENT_READ") /\ Event.fd = s /\ s # iServSocket

\* It reads some or all, and may ask to be told when it can write.
Input(s) ==
  /\ Inputs(s) /\ s \in open
  /\ list' = Known(s) /\ At(list', s) # {}
  /\ readable' \in IF s \in ended \cup failed THEN {readable} ELSE {readable, readable \ {s}}
  /\ UNCHANGED interest \/ Watch(s, Flags)
  /\ pEvents' = Continue(pEvents)
  /\ UNCHANGED <<backlog, open, ended, failed, crossed>>

\* It closes the connection: the table is full, the peer is done with, or (for
\* an event that is out of date) there is nothing to read from.
InputCloses(s) ==
  /\ Inputs(s)
  /\ HandleClose(s, Continue(pEvents))
  /\ UNCHANGED crossed

\* It closes another connection of the user's instead.
InputClosesOther(s, other) ==
  /\ Inputs(s) /\ other \in open \cap Sockets /\ other # s
  /\ HandleClose(other, Continue(pEvents))
  /\ crossed' = (crossed \/ \E i \in 2 .. Len(pEvents) : pEvents[i].fd = other)

\* The user's OnOutput writes some or all of what it has.
Output(s) ==
  /\ Handles("EVENT_WRITE") /\ Event.fd = s
  /\ \/ UNCHANGED interest
     \/ s \in open /\ Watch(s, {"EVENT_READ", "EVENT_ERROR"})
  /\ pEvents' = Continue(pEvents)
  /\ UNCHANGED <<backlog, open, readable, ended, failed, list, crossed>>

\* The user's OnException closes the connection.
Exception(s) ==
  /\ Handles("EVENT_ERROR") /\ Event.fd = s
  /\ HandleClose(s, Continue(pEvents))
  /\ UNCHANGED crossed

\* The process is started again.
Restart ==
  /\ pc = "exit"
  /\ pc' = "listen" /\ open' = {iServSocket}
  /\ UNCHANGED <<pEvents, backlog, interest, readable, ended, failed, list, crossed>>

Serve ==
  \/ Listen \/ ListenFails \/ Restart
  \/ WaitEvent \/ EventsDone
  \/ Accept \/ AcceptFails
  \/ \E s \in Sockets :
       \/ Input(s) \/ InputCloses(s) \/ Output(s) \/ Exception(s)
       \/ \E other \in Sockets : InputClosesOther(s, other)

Next ==
  \/ Serve
  \/ Connect
  \/ \E s \in Sockets : Arrives(s) \/ PeerCloses(s) \/ PeerFails(s) \/ OnLoop(s)

Spec == Init /\ [][Next]_vars

\* The thread goes on as long as there is an event or a handler to run.
FairSpec == Spec /\ WF_vars(Serve)

------------------------------------------------------------------------------
\* Types.
TypeOK ==
  /\ pc \in {"listen", "loop", "events", "exit"}
  /\ pEvents \in Seq([fd : All, flags : SUBSET Flags, stale : BOOLEAN])
  /\ backlog \in 0 .. Backlog
  /\ open \subseteq All /\ interest \in [All -> SUBSET Flags]
  /\ ended \subseteq readable /\ failed \subseteq readable /\ readable \subseteq open
  /\ \E n \in Capacities :
       list \in [0 .. n - 1 -> [iSocket : Sockets \cup {0, -1}, iStat : CONN_STAT]]
  /\ crossed \in BOOLEAN

\* No descriptor is forgotten: while the server runs, each open socket is
\* watched for input and errors, and nothing else is watched, whatever was
\* closed, reused, or refused by epoll.
OpenIsWatched ==
  pc \in {"loop", "events"} =>
    \A s \in All : IF s \in open THEN {"EVENT_READ", "EVENT_ERROR"} \subseteq interest[s]
                                 ELSE interest[s] = {}

\* The table holds each connection at most once, only open ones, and every
\* other entry is free: descriptors that are closed and used again leave no
\* entry behind.
TableMatches ==
  /\ \A i \in DOMAIN list : list[i].iStat # "SOCKET_INIT" <=> list[i].iSocket \in open
  /\ \A i, j \in DOMAIN list : list[i].iSocket = list[j].iSocket /\ i # j => i \in Free(list)

\* A handler runs for the connection its event was fetched for, not for one
\* that has its descriptor by now, nor for none: so long as no callback closes
\* a connection whose event is waiting.  (TCPServer gives no way to.)
EventMeetsOwner ==
  [][pc = "events" /\ pEvents # <<>> /\ HandlerFor(Event.flags) # "none" =>
       (~Event.stale /\ Event.fd \in open) \/ crossed]_vars

Runs(s) == Input(s) \/ InputCloses(s) \/ Exception(s) \/ \E o \in Sockets : InputClosesOther(s, o)

\* A connection with something to read, and a peer that waits to be accepted,
\* get their turn again and again, however busy the others are.
ReadServed ==
  /\ \A s \in Sockets : []<>(s \notin readable) \/ []<><<Runs(s)>>_vars
  /\ []<>(backlog = 0) \/ []<><<Accept \/ AcceptFails>>_vars

\* So does a connection that waits to write, unless there is something to read
\* from it again and again: an event that says both is handled as input only.
WriteServed ==
  \A s \in Sockets :
    \/ []<>("EVENT_WRITE" \notin interest[s])
    \/ []<><<Output(s)>>_vars
    \/ []<>(s \in readable)
=============================================================================
