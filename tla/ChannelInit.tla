----------------------------- MODULE ChannelInit -----------------------------
(***************************************************************************)
(* Channel_Init (comm/Channel.cpp) and ShmUtil_GetShm2 (comm/ShmUtil.cpp): *)
(* the processes that share a channel start, crash and restart at any time, *)
(* each opening the two segments in turn.  A segment outlives its          *)
(* processes.  AddPkg and GetPkg, which module Channel takes apart, are    *)
(* one step here: only how many packages a segment holds matters.          *)
(***************************************************************************)
EXTENDS Integers

CONSTANTS
  Procs,
  MaxPkgs           \* bound: the packages that are added to each queue

ASSUME ChannelInitAssumption == MaxPkgs \in Nat

Queues == {"req", "rsp"}

VARIABLES
  exists,           \* the segments that were created
  pkgs,             \* the packages each holds
  added, lost,      \* history: the packages added, and erased without being read
  pc, queue         \* each process: where it stands in Channel_Init, for which queue

vars == <<exists, pkgs, added, lost, pc, queue>>

Init ==
  /\ exists = {}
  /\ pkgs = [q \in Queues |-> 0] /\ added = [q \in Queues |-> 0]
  /\ lost = [q \in Queues |-> 0]
  /\ pc = [p \in Procs |-> "down"] /\ queue = [p \in Procs |-> "req"]

At(p, label) == pc[p] = label
Goto(p, label) == pc' = [pc EXCEPT ![p] = label] /\ UNCHANGED queue

Start(p) ==
  /\ At(p, "down")
  /\ pc' = [pc EXCEPT ![p] = "probe"] /\ queue' = [queue EXCEPT ![p] = "req"]
  /\ UNCHANGED <<exists, pkgs, added, lost>>

\* The queue is opened: on to the response queue, or Channel_Init is done.
Opened(p) ==
  IF queue[p] = "req"
  THEN pc' = [pc EXCEPT ![p] = "probe"] /\ queue' = [queue EXCEPT ![p] = "rsp"]
  ELSE Goto(p, "ready")

\* Bug: a segment that was found is cleared too (the test of iRet is dropped).
Bug_ClearsFound(p) ==
  /\ At(p, "probe")
  /\ Goto(p, IF queue[p] \in exists THEN "clear" ELSE "reopen")
  /\ UNCHANGED <<exists, pkgs, added, lost>>

\* The first GetShm2, without IPC_CREAT: a segment that is found is left alone.
Probe(p) ==
  /\ At(p, "probe")
  /\ IF queue[p] \in exists THEN Opened(p) ELSE Goto(p, "reopen")
  /\ UNCHANGED <<exists, pkgs, added, lost>>

\* The second GetShm2 first looks again without IPC_CREAT.
Reopen(p) ==
  /\ At(p, "reopen")
  /\ Goto(p, IF queue[p] \in exists THEN "clear" ELSE "create")
  /\ UNCHANGED <<exists, pkgs, added, lost>>

\* GetShm answers NULL also when the segment is there and shmat fails (no
\* memory, no address): GetShm2 takes it for a segment that is missing.
AttachFails(p) ==
  /\ queue[p] \in exists
  /\ \/ At(p, "probe") /\ Goto(p, "reopen")
     \/ At(p, "reopen") /\ Goto(p, "create")
  /\ UNCHANGED <<exists, pkgs, added, lost>>

\* shmget with IPC_CREAT, without IPC_EXCL: another process may be first.
Create(p) ==
  /\ At(p, "create")
  /\ exists' = exists \cup {queue[p]}
  /\ Goto(p, "clear_new")
  /\ UNCHANGED <<pkgs, added, lost>>

Erase(q) ==
  /\ lost' = [lost EXCEPT ![q] = @ + pkgs[q]]
  /\ pkgs' = [pkgs EXCEPT ![q] = 0]

\* The memset of GetShm2, then the one of Channel_Init.
ClearNew(p) ==
  /\ At(p, "clear_new")
  /\ Erase(queue[p])
  /\ Goto(p, "clear")
  /\ UNCHANGED <<exists, added>>

Clear(p) ==
  /\ At(p, "clear")
  /\ Erase(queue[p])
  /\ Opened(p)
  /\ UNCHANGED <<exists, added>>

\* shmget fails, or shmat after it: Channel_Init returns -1 or -2.
Fail(p) ==
  /\ At(p, "create")
  /\ Goto(p, "down")
  /\ exists' \in {exists, exists \cup {queue[p]}}
  /\ UNCHANGED <<pkgs, added, lost>>

AddPkg(p, q) ==
  /\ At(p, "ready") /\ added[q] < MaxPkgs
  /\ pkgs' = [pkgs EXCEPT ![q] = @ + 1] /\ added' = [added EXCEPT ![q] = @ + 1]
  /\ UNCHANGED <<exists, lost, pc, queue>>

HasPkg(q) == pkgs[q] > 0

GetPkg(p, q) ==
  /\ At(p, "ready") /\ HasPkg(q)
  /\ pkgs' = [pkgs EXCEPT ![q] = @ - 1]
  /\ UNCHANGED <<exists, added, lost, pc, queue>>

Exit(p) ==
  /\ ~At(p, "down")
  /\ Goto(p, "down")
  /\ UNCHANGED <<exists, pkgs, added, lost>>

Next ==
  \E p \in Procs :
    \/ Start(p) \/ Probe(p) \/ Reopen(p) \/ Create(p) \/ ClearNew(p) \/ Clear(p)
    \/ AttachFails(p) \/ Fail(p) \/ Exit(p)
    \/ \E q \in Queues : AddPkg(p, q) \/ GetPkg(p, q)

Spec == Init /\ [][Next]_vars

------------------------------------------------------------------------------
TypeOK ==
  /\ exists \subseteq Queues
  /\ pkgs \in [Queues -> Nat] /\ added \in [Queues -> Nat] /\ lost \in [Queues -> Nat]
  /\ pc \in [Procs -> {"down", "probe", "reopen", "create", "clear_new", "clear", "ready"}]
  /\ queue \in [Procs -> Queues]

\* A queue is settled when its segment is there and every process that missed
\* it when it started has cleared it or is gone.
Opening == {"reopen", "create", "clear_new", "clear"}
Settled(q) == q \in exists /\ \A p \in Procs : ~(queue[p] = q /\ pc[p] \in Opening)

\* A process fails to attach to the segment and takes it for missing.
Missed(q) == \E p \in Procs : queue[p] = q /\ pc[p] = "probe" /\ pc'[p] = "reopen"

\* Once a queue is settled no process, started or restarted at whatever moment,
\* erases a package, and nothing unsettles it but a shmat that fails for the
\* segment in use.  (Before it is settled, processes that start at the same
\* time can erase each other's packages.)
SettledKeepsPackages ==
  [][\A q \in Queues :
       Settled(q) => lost'[q] = lost[q] /\ (Settled(q)' \/ Missed(q))]_vars

\* A channel is usable only if it is there: a process that is ready never
\* reaches for a segment nobody created.
ReadyHasBoth == \A p \in Procs : pc[p] = "ready" => exists = Queues
=============================================================================
