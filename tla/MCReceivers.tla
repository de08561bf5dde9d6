---------------------------- MODULE MCReceivers -----------------------------
(* Small instances of Receivers for TLC.                                   *)
EXTENDS Receivers
=============================================================================
