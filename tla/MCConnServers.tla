--------------------------- MODULE MCConnServers ----------------------------
(* A small instance of ConnServers for TLC.                                *)
EXTENDS ConnServers
=============================================================================
