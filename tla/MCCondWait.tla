----------------------------- MODULE MCCondWait -----------------------------
(* A small instance of CondWait for TLC.                                   *)
EXTENDS CondWait
=============================================================================
