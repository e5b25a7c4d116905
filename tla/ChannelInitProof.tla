-------------------------- MODULE ChannelInitProof --------------------------
(***************************************************************************)
(* What Channel_Init promises processes that share a channel, for every    *)
(* set of processes.                                                       *)
(***************************************************************************)
EXTENDS ChannelInit, TLAPS

\* A process past the request queue, or clearing a queue, knows it exists.
ReachedExists ==
  \A p \in Procs :
    /\ pc[p] \in {"clear_new", "clear"} => queue[p] \in exists
    /\ pc[p] # "down" /\ queue[p] = "rsp" => "req" \in exists
    /\ pc[p] = "ready" => queue[p] = "rsp" /\ "rsp" \in exists

IInv == TypeOK /\ ReachedExists

\* No process has started yet.
LEMMA InitInv == ASSUME Init PROVE IInv
BY DEF Init, IInv, TypeOK, ReachedExists, Queues

\* Going on from a segment that exists keeps what the process knows.
LEMMA OpenedInv ==
  ASSUME IInv, NEW p \in Procs, Opened(p), queue[p] \in exists, pc[p] # "down",
         exists' = exists
  PROVE  ReachedExists' /\ pc' \in [Procs -> {"down", "probe", "reopen", "create", "clear_new", "clear", "ready"}]
         /\ queue' \in [Procs -> Queues]
BY DEF IInv, TypeOK, ReachedExists, Opened, Goto, Queues

\* A memset keeps the types of the counts.
LEMMA EraseType ==
  ASSUME IInv, NEW q \in Queues, Erase(q)
  PROVE  pkgs' \in [Queues -> Nat] /\ lost' \in [Queues -> Nat]
BY DEF IInv, TypeOK, Erase

\* Every step of every process keeps the invariant.
LEMMA StepInv ==
  ASSUME IInv, [Next]_vars
  PROVE  IInv'
<1>1. CASE UNCHANGED vars
  BY <1>1 DEF vars, IInv, TypeOK, ReachedExists
<1>2. ASSUME NEW p \in Procs, Start(p) PROVE IInv'
  BY <1>2 DEF Start, At, IInv, TypeOK, ReachedExists, Queues
<1>3. ASSUME NEW p \in Procs, Probe(p) PROVE IInv'
  <2>1. CASE queue[p] \in exists
    BY <1>3, <2>1, OpenedInv DEF Probe, At, IInv, TypeOK
  <2>2. CASE queue[p] \notin exists
    BY <1>3, <2>2 DEF Probe, At, Goto, IInv, TypeOK, ReachedExists
  <2>3. QED
    BY <2>1, <2>2
<1>4. ASSUME NEW p \in Procs, Reopen(p) PROVE IInv'
  BY <1>4 DEF Reopen, At, Goto, IInv, TypeOK, ReachedExists
<1>5. ASSUME NEW p \in Procs, Create(p) PROVE IInv'
  BY <1>5 DEF Create, At, Goto, IInv, TypeOK, ReachedExists
<1>6. ASSUME NEW p \in Procs, ClearNew(p) PROVE IInv'
  <2>1. queue[p] \in Queues
    BY DEF IInv, TypeOK
  <2>2. pkgs' \in [Queues -> Nat] /\ lost' \in [Queues -> Nat]
    BY <1>6, <2>1, EraseType DEF ClearNew
  <2>3. QED
    BY <1>6, <2>2 DEF ClearNew, At, Goto, IInv, TypeOK, ReachedExists
<1>7. ASSUME NEW p \in Procs, Clear(p) PROVE IInv'
  <2>1. queue[p] \in Queues
    BY DEF IInv, TypeOK
  <2>2. pkgs' \in [Queues -> Nat] /\ lost' \in [Queues -> Nat]
    BY <1>7, <2>1, EraseType DEF Clear
  <2>3. queue[p] \in exists
    BY <1>7 DEF Clear, At, IInv, ReachedExists
  <2>4. QED
    BY <1>7, <2>2, <2>3, OpenedInv DEF Clear, At, IInv, TypeOK
<1>8. ASSUME NEW p \in Procs, Fail(p) PROVE IInv'
  BY <1>8 DEF Fail, At, Goto, IInv, TypeOK, ReachedExists
<1>9. ASSUME NEW p \in Procs, Exit(p) PROVE IInv'
  BY <1>9 DEF Exit, At, Goto, IInv, TypeOK, ReachedExists
<1>10. ASSUME NEW p \in Procs, NEW q \in Queues, AddPkg(p, q) PROVE IInv'
  BY <1>10 DEF AddPkg, IInv, TypeOK, ReachedExists
<1>11. ASSUME NEW p \in Procs, NEW q \in Queues, GetPkg(p, q) PROVE IInv'
  BY <1>11 DEF GetPkg, HasPkg, IInv, TypeOK, ReachedExists
<1>12. ASSUME NEW p \in Procs, AttachFails(p) PROVE IInv'
  BY <1>12 DEF AttachFails, At, Goto, IInv, TypeOK, ReachedExists
<1>13. QED
  BY <1>1, <1>2, <1>3, <1>4, <1>5, <1>6, <1>7, <1>8, <1>9, <1>10, <1>11, <1>12 DEF Next

\* No step of any process, and no crash, breaks what a process past a segment
\* (Opened, in Channel_Init) relies on: that the segment exists.
THEOREM InitInvariance == Spec => []IInv
<1>1. Init => IInv
  BY InitInv
<1>2. IInv /\ [Next]_vars => IInv'
  BY StepInv
<1>3. QED
  BY <1>1, <1>2, PTL DEF Spec

\* A process whose Channel_Init returned 0 has both segments to work with.
THEOREM ReadyAttached == Spec => []ReadyHasBoth
<1>1. IInv => ReadyHasBoth
  BY DEF IInv, TypeOK, ReachedExists, ReadyHasBoth, Queues
<1>2. QED
  BY <1>1, InitInvariance, PTL

\* No segment is ever removed, and a step makes a process that was not clearing
\* a queue clear it only if it did not find the segment.
LEMMA SettledStep ==
  ASSUME IInv, [Next]_vars, NEW q \in Queues, Settled(q)
  PROVE  lost'[q] = lost[q] /\ (Settled(q)' \/ Missed(q))
<1> USE DEF Settled, Opening
<1>1. CASE UNCHANGED vars
  BY <1>1 DEF vars
<1>2. ASSUME NEW p \in Procs, Start(p) PROVE lost'[q] = lost[q] /\ (Settled(q)' \/ Missed(q))
  BY <1>2 DEF Start, IInv, TypeOK
<1>3. ASSUME NEW p \in Procs, Probe(p) PROVE lost'[q] = lost[q] /\ (Settled(q)' \/ Missed(q))
  BY <1>3 DEF Probe, At, Opened, Goto, IInv, TypeOK, Queues
<1>4. ASSUME NEW p \in Procs, Reopen(p) PROVE lost'[q] = lost[q] /\ (Settled(q)' \/ Missed(q))
  BY <1>4 DEF Reopen, At, Goto, IInv, TypeOK
<1>5. ASSUME NEW p \in Procs, Create(p) PROVE lost'[q] = lost[q] /\ (Settled(q)' \/ Missed(q))
  BY <1>5 DEF Create, At, Goto, IInv, TypeOK
<1>6. ASSUME NEW p \in Procs, ClearNew(p) PROVE lost'[q] = lost[q] /\ (Settled(q)' \/ Missed(q))
  BY <1>6 DEF ClearNew, At, Goto, Erase, IInv, TypeOK
<1>7. ASSUME NEW p \in Procs, Clear(p) PROVE lost'[q] = lost[q] /\ (Settled(q)' \/ Missed(q))
  BY <1>7 DEF Clear, At, Opened, Goto, Erase, IInv, TypeOK, Queues
<1>8. ASSUME NEW p \in Procs, Fail(p) PROVE lost'[q] = lost[q] /\ (Settled(q)' \/ Missed(q))
  BY <1>8 DEF Fail, At, Goto, IInv, TypeOK
<1>9. ASSUME NEW p \in Procs, Exit(p) PROVE lost'[q] = lost[q] /\ (Settled(q)' \/ Missed(q))
  BY <1>9 DEF Exit, Goto, IInv, TypeOK
<1>10. ASSUME NEW p \in Procs, NEW r \in Queues, AddPkg(p, r) \/ GetPkg(p, r)
       PROVE  lost'[q] = lost[q] /\ (Settled(q)' \/ Missed(q))
  BY <1>10 DEF AddPkg, GetPkg, HasPkg
<1>11. ASSUME NEW p \in Procs, AttachFails(p)
       PROVE  lost'[q] = lost[q] /\ (Settled(q)' \/ Missed(q))
  BY <1>11 DEF AttachFails, At, Goto, Missed, IInv, TypeOK
<1>12. QED
  BY <1>1, <1>2, <1>3, <1>4, <1>5, <1>6, <1>7, <1>8, <1>9, <1>10, <1>11 DEF Next

\* Once every process that missed a segment has finished with it, restarts and
\* late starts of any number of processes keep the packages in it.
THEOREM SettledIsSafe == Spec => SettledKeepsPackages
<1>1. IInv /\ [Next]_vars =>
        [\A q \in Queues : Settled(q) => lost'[q] = lost[q] /\ (Settled(q)' \/ Missed(q))]_vars
  BY SettledStep
<1>2. QED
  BY <1>1, InitInvariance, PTL DEF Spec, SettledKeepsPackages
=============================================================================
