------------------------------ MODULE MCOverlaps -------------------------------
(***************************************************************************)
(* Calls that overlap, on either side of the network: two sign requests in *)
(* the service (SignService, a verification and its rejection), two RPCs   *)
(* of one work order (WorkOrder), or two calls and two drains of one phone *)
(* (WriteOutbox, with lost answers, kills and stale lists), or two         *)
(* invocations of the function that talks to OnKey (OnKeyFunction).  The   *)
(* four share no state: a behaviour is of one side, and the others rest.   *)
(***************************************************************************)
EXTENDS WorkOrder, MCSignService, WriteOutbox, OnKeyFunction

CONSTANTS break, j1, c1, c2, sync, profile, i1, i2, l1, l2

TrueTime == {0}
MCReport == 1 .. 3

VARIABLE side

OverlapInit ==
  /\ side \in {"sign", "job", "phone", "function"}
  /\ ServerInit /\ Init /\ OutboxInit /\ FunctionInit
OverlapNext ==
  /\ UNCHANGED side
  /\ \/ side = "sign"  /\ ServerNext /\ UNCHANGED <<vars, outboxVars, functionVars>>
     \/ side = "job"   /\ Next /\ UNCHANGED <<serverVars, outboxVars, functionVars>>
     \/ side = "phone" /\ OutboxNext /\ UNCHANGED <<serverVars, vars, functionVars>>
     \/ side = "function" /\ FunctionNext /\ UNCHANGED <<serverVars, vars, outboxVars>>
OverlapSpec == OverlapInit /\ [][OverlapNext]_<<side, serverVars, vars, outboxVars, functionVars>>
===============================================================================
