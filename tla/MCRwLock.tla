------------------------------ MODULE MCRwLock ------------------------------
(* A small instance of RwLock for TLC.                                     *)
EXTENDS RwLock
=============================================================================
