---------------------------- MODULE MCNamedOpen -----------------------------
(* A small instance of NamedOpen for TLC.                                  *)
EXTENDS NamedOpen
=============================================================================
