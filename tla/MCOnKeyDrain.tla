----------------------------- MODULE MCOnKeyDrain -----------------------------
(***************************************************************************)
(* Bounded instances of OnKeyDrain.                                        *)
(***************************************************************************)
EXTENDS OnKeyDrain

TrueTime == {0}
===============================================================================
