---------------------------- MODULE MCBackendJobs -----------------------------
(***************************************************************************)
(* Bounded instances of the two sides of the backend's jobs against OnKey, *)
(* checked side by side: the lease that keeps them off each other's        *)
(* session (MCSessionLease) and the read sync that runs under it           *)
(* (ReadSync), once with the lanes and passes of a quiet hour and once     *)
(* with the delta lane alone for as long as its cursor needs.  A behaviour *)
(* is of one side, and the others rest; so the fairness of a side is an    *)
(* antecedent of what it makes happen and not a part of the specification. *)
(***************************************************************************)
EXTENDS MCSessionLease, ReadSync

CONSTANT MaxCursorClock

\* Order 1 is dated in the sweep's window, order 2 in the last days.
MCBands == <<1, 0>>

VARIABLE side

Cursor == INSTANCE ReadSync WITH Lanes <- {"delta"}, MaxClock <- MaxCursorClock

AtQuiet == onkey.open = {} /\ \A o \in Orders : onkey.ver[o] = 1

JobsInit ==
  /\ side \in {"lease", "sync", "cursor"} /\ Init /\ SyncInit
  /\ side = "lease" => AtQuiet
JobsNext ==
  /\ UNCHANGED side
  /\ \/ side = "lease"  /\ Next            /\ UNCHANGED syncVars
     \/ side = "sync"   /\ SyncNext        /\ UNCHANGED vars
     \/ side = "cursor" /\ Cursor!SyncNext /\ UNCHANGED vars
JobsSpec == JobsInit /\ [][JobsNext]_<<side, vars, syncVars>>

(* With live processes and an answering database, a lease comes free.      *)
FairLeaseComesFree == Fairness => LeaseComesFree

(* With live processes, every kick is answered or given up.                *)
FairKicksResolved == Fairness => KicksResolved

(* With the timers running, the register ends as OnKey is.                 *)
FairRegisterCatchesUp == SyncFairness => RegisterCatchesUp
===============================================================================
