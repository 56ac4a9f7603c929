--------------------------- MODULE MCSignPipeline ----------------------------
(***************************************************************************)
(* Bounded instances of SignPipeline.  Every certificate is a verification *)
(* certificate: rejections are signed from their own screen, without the   *)
(* queue.                                                                  *)
(***************************************************************************)
EXTENDS SignPipeline, TLC

NoParents == [n \in Numbers |-> 0]
=============================================================================
