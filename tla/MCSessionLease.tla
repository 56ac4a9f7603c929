---------------------------- MODULE MCSessionLease ----------------------------
(***************************************************************************)
(* Bounded instances of SessionLease: a fast lane, a sweep and the drain.  *)
(* One tick is about a minute of a run and a fraction of one on the wire.  *)
(***************************************************************************)
EXTENDS SessionLease

CONSTANTS delta, sweep

MCModes == {delta, sweep}

(* The lease outlasts the way there and the work.                          *)
Leases == [j \in Jobs |-> CASE j = delta -> 4 [] j = sweep -> 5 [] OTHER -> 3]
Works  == [j \in Jobs |-> CASE j = delta -> 2 [] j = sweep -> 3 [] OTHER -> 1]
===============================================================================
