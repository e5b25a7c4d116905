------------------------------ MODULE ConnList ------------------------------
(***************************************************************************)
(* demo/ConnList.cpp: a table of MAX_CONN_NUM connections (50 in the       *)
(* code).  Each function is an operator on the array pConnections.         *)
(***************************************************************************)
EXTENDS Integers, FiniteSetsExt

CONN_STAT == {"SOCKET_INIT", "SOCKET_ACTIVE_CONNECT", "SOCKET_PASSIVE_CONNECT"}

ConnList_Init(MAX_CONN_NUM) ==
  [i \in 0 .. MAX_CONN_NUM - 1 |-> [iSocket |-> 0, iStat |-> "SOCKET_INIT"]]

Free(list) == {i \in DOMAIN list : list[i].iStat = "SOCKET_INIT"}

\* Get compares the sockets alone, whatever iStat is.
At(list, iSocket) == {i \in DOMAIN list : list[i].iSocket = iSocket}

\* NULL (a full table) is the table unchanged.
ConnList_Add(list, iSocket, iStat) ==
  IF Free(list) = {} THEN list
  ELSE [list EXCEPT ![Min(Free(list))] = [iSocket |-> iSocket, iStat |-> iStat]]

\* Bugs: the entry gets no state of its own; it is not given free.
Bug_NoStat(list, iSocket) ==
  IF At(list, iSocket) = {} THEN list
  ELSE [list EXCEPT ![Min(At(list, iSocket))] = [iSocket |-> -1, iStat |-> "-1"]]
Bug_StaysInUse(list, iSocket) ==
  IF At(list, iSocket) = {} THEN list ELSE [list EXCEPT ![Min(At(list, iSocket))].iSocket = -1]

ConnList_Del(list, iSocket) ==
  IF At(list, iSocket) = {} THEN list
  ELSE [list EXCEPT ![Min(At(list, iSocket))] = [iSocket |-> -1, iStat |-> "SOCKET_INIT"]]
=============================================================================
