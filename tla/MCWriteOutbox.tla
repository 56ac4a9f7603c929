----------------------------- MODULE MCWriteOutbox -----------------------------
(***************************************************************************)
(* Bounded instances of WriteOutbox: one or two jobs, a resumable and a    *)
(* blocking pause.                                                         *)
(***************************************************************************)
EXTENDS WriteOutbox

CONSTANTS break, spares
===============================================================================
