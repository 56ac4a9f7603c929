---------------------------- MODULE MCSignService ----------------------------
(***************************************************************************)
(* Bounded instances of SignService: two verification certificates or one  *)
(* with its rejection, two keys, two requests that may overlap.            *)
(***************************************************************************)
EXTENDS SignService, TLC

\* Certificate 2 is the rejection certificate of certificate 1.
MCParentOf == [n \in Numbers |-> IF n = 2 THEN 1 ELSE 0]

ReqSymmetry == Permutations(Reqs)
=============================================================================
